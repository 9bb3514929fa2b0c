------------------------- MODULE OutsideWrites_proofs -------------------------
(* Proofs about what is done outside and may go unanswered: the rows written  *)
(* to a sheet (SheetWrites) for any number of approvals, attempts, rows and   *)
(* authorizations, and the notices the monitor mails (OperationsMonitor) for  *)
(* any number of runs, attempts and failures; and about both (MCOutsideWrites).*)
EXTENDS MCOutsideWrites, SequenceTheorems, FiniteSetTheorems, TLAPS

-----------------------------------------------------------------------------
(***************************************************************************)
(* SheetWrites: types, the ranges written, and the credentials used.       *)
(***************************************************************************)
States == [grant : 0..MaxGrants, consumed : BOOLEAN]

\* The connection; an authorization that is pending is the newest, and not disconnected.
ConnectionInv ==
  /\ enabled \in BOOLEAN /\ ciphers \in Nat /\ secret \in Secrets /\ secret.cipher <= ciphers
  /\ state \in States
  /\ started \in 0..MaxGrants /\ voided \in 0..started /\ tab \in [Tabs -> 0..started]
  /\ state.grant # 0 => state.grant = started /\ voided < started
  /\ attempts \in 0..MaxAttempts

\* The reservations, and the sheet.
RowsInv ==
  /\ present \subseteq Approvals /\ nextRow \in Nat /\ nextRow > 1
  /\ write \in [Approvals -> Writes \cup {NoWrite}]
  /\ sheet \subseteq Approvals \X Nat \X (1..MaxRows)

\* The attempts, each with what its place needs.
WorkersInv ==
  /\ pc \in [Workers -> {"idle", "reserving", "refreshing", "writing", "recording"}]
  /\ work \in [Workers -> Approvals \cup {NoApproval}] /\ range \in [Workers -> Writes \cup {NoWrite}]
  /\ cred \in [Workers -> Secrets]
  /\ \A w \in Workers :
       /\ work[w] \in IF pc[w] = "idle" THEN {NoApproval} ELSE Approvals
       /\ cred[w].cipher <= ciphers
       /\ IF pc[w] \in {"idle", "reserving"} THEN range[w] = NoWrite ELSE range[w] \in Writes

\* The claim that a reservation makes for an approval.
ClaimOf(a, r) == <<a, r.first, r.rows>>

\* The ranges that are claimed are apart, those of an approval whose document exists are its
\* reservation, and what is recorded as delivered was written.
ClaimsInv ==
  /\ RangesDisjoint
  /\ \A a \in present : \A x \in Claims : x[1] = a => write[a] # NoWrite /\ x = ClaimOf(a, write[a])
  /\ \A a \in present : write[a] # NoWrite /\ write[a].delivered => \E x \in sheet : x[1] = a
  /\ \A w \in Workers : pc[w] = "recording" => ClaimOf(work[w], range[w]) \in sheet

SheetInv == ConnectionInv /\ RowsInv /\ WorkersInv /\ ClaimsInv

-----------------------------------------------------------------------------
\* The bounds are numbers.
LEMMA Bounds == MaxRows \in Nat /\ MaxGrants \in Nat /\ MaxAttempts \in Nat /\ MaxRows # 0 /\ NoWrite \notin Writes
  BY SheetsAssumption DEF Writes

\* A secret is a grant and the number of its ciphertext.
LEMMA SecretRow ==
  ASSUME NEW grant \in 0..MaxGrants, NEW cipher \in Nat
  PROVE  [grant |-> grant, cipher |-> cipher] \in Secrets
  BY DEF Secrets

\* No secret at all.
LEMMA NoSecretRow == NoSecret \in Secrets /\ NoSecret.cipher = 0 /\ NoSecret.grant = 0
<1>1. 0 \in 0..MaxGrants
  BY Bounds
<1> QED
  BY <1>1, SecretRow DEF NoSecret

\* An authorization under way.
LEMMA StateRow ==
  ASSUME NEW grant \in 0..MaxGrants, NEW consumed \in BOOLEAN
  PROVE  [grant |-> grant, consumed |-> consumed] \in States
  BY DEF States

\* No authorization.
LEMMA NoStateRow == NoState \in States /\ NoState.grant = 0
<1>1. 0 \in 0..MaxGrants /\ FALSE \in BOOLEAN
  BY Bounds
<1> QED
  BY <1>1, StateRow DEF NoState

\* A reservation not yet delivered.
LEMMA NewRow ==
  ASSUME NEW first \in Nat, NEW n \in 1..MaxRows
  PROVE  [first |-> first, rows |-> n, delivered |-> FALSE] \in Writes /\ n \in Nat /\ n > 0
  BY Bounds DEF Writes

\* What is claimed, piece by piece.
LEMMA InClaims ==
  ASSUME NEW x
  PROVE  /\ x \in Claims <=>
              \/ x \in sheet
              \/ \E a \in Approvals : write[a] # NoWrite /\ x = ClaimOf(a, write[a])
              \/ \E w \in Workers : range[w] # NoWrite /\ x = ClaimOf(work[w], range[w])
         /\ x \in Claims' <=>
              \/ x \in sheet'
              \/ \E a \in Approvals : write'[a] # NoWrite /\ x = ClaimOf(a, write'[a])
              \/ \E w \in Workers : range'[w] # NoWrite /\ x = ClaimOf(work'[w], range'[w])
<1>1. x \in Claims <=>
        \/ x \in sheet
        \/ \E a \in Approvals : write[a] # NoWrite /\ x = ClaimOf(a, write[a])
        \/ \E w \in Workers : range[w] # NoWrite /\ x = ClaimOf(work[w], range[w])
  <2> DEFINE R == {ClaimOf(a, write[a]) : a \in {b \in Approvals : write[b] # NoWrite}}
             S == {ClaimOf(work[w], range[w]) : w \in {v \in Workers : range[v] # NoWrite}}
  <2>1. Claims = sheet \cup R \cup S
    BY DEF Claims, ClaimOf
  <2>2. x \in R <=> \E a \in Approvals : write[a] # NoWrite /\ x = ClaimOf(a, write[a])
    OBVIOUS
  <2>3. x \in S <=> \E w \in Workers : range[w] # NoWrite /\ x = ClaimOf(work[w], range[w])
    OBVIOUS
  <2> HIDE DEF R, S
  <2> QED
    BY <2>1, <2>2, <2>3
<1>2. x \in Claims' <=>
        \/ x \in sheet'
        \/ \E a \in Approvals : write'[a] # NoWrite /\ x = ClaimOf(a, write'[a])
        \/ \E w \in Workers : range'[w] # NoWrite /\ x = ClaimOf(work'[w], range'[w])
  <2> DEFINE R == {ClaimOf(a, write'[a]) : a \in {b \in Approvals : write'[b] # NoWrite}}
             S == {ClaimOf(work'[w], range'[w]) : w \in {v \in Workers : range'[v] # NoWrite}}
  <2>1. Claims' = sheet' \cup R \cup S
    BY DEF Claims, ClaimOf
  <2>2. x \in R <=> \E a \in Approvals : write'[a] # NoWrite /\ x = ClaimOf(a, write'[a])
    OBVIOUS
  <2>3. x \in S <=> \E w \in Workers : range'[w] # NoWrite /\ x = ClaimOf(work'[w], range'[w])
    OBVIOUS
  <2> HIDE DEF R, S
  <2> QED
    BY <2>1, <2>2, <2>3
<1> QED
  BY <1>1, <1>2

\* A claim is of an approval, of at least one row.
LEMMA ClaimRow ==
  ASSUME RowsInv, WorkersInv, NEW x \in Claims
  PROVE  x[1] \in Approvals /\ x[2] \in Nat /\ x[3] \in 1..MaxRows
<1> USE Bounds
<1>1. CASE x \in sheet
  BY <1>1 DEF RowsInv
<1>2. ASSUME NEW a \in Approvals, write[a] # NoWrite, x = ClaimOf(a, write[a])
      PROVE  x[1] \in Approvals /\ x[2] \in Nat /\ x[3] \in 1..MaxRows
  BY <1>2 DEF RowsInv, ClaimOf, Writes
<1>3. ASSUME NEW w \in Workers, range[w] # NoWrite, x = ClaimOf(work[w], range[w])
      PROVE  x[1] \in Approvals /\ x[2] \in Nat /\ x[3] \in 1..MaxRows
  <2>1. work[w] \in Approvals /\ range[w] \in Writes
    BY <1>3 DEF WorkersInv
  <2> QED
    BY <1>3, <2>1 DEF ClaimOf, Writes
<1> QED
  BY <1>1, <1>2, <1>3, InClaims

\* Nothing is claimed that was not, and no reservation changes that is still needed.
LEMMA NoNewClaim ==
  ASSUME ClaimsInv, Claims' \subseteq Claims, nextRow' = nextRow, present' \subseteq present, sheet \subseteq sheet',
         \A a \in present' : write[a] # NoWrite =>
           /\ write'[a] # NoWrite /\ ClaimOf(a, write'[a]) = ClaimOf(a, write[a])
           /\ write'[a].delivered => write[a].delivered \/ \E x \in sheet : x[1] = a,
         \A a \in present' : write[a] = NoWrite => write'[a] = NoWrite,
         \A w \in Workers : pc'[w] = "recording" => ClaimOf(work'[w], range'[w]) \in sheet'
  PROVE  ClaimsInv'
<1>1. RangesDisjoint'
  BY DEF ClaimsInv, RangesDisjoint
<1>2. ASSUME NEW a \in present', NEW x \in Claims', x[1] = a
      PROVE  write'[a] # NoWrite /\ x = ClaimOf(a, write'[a])
  BY <1>2 DEF ClaimsInv
<1>3. ASSUME NEW a \in present', write'[a] # NoWrite, write'[a].delivered
      PROVE  \E x \in sheet' : x[1] = a
  BY <1>3 DEF ClaimsInv
<1> QED
  BY <1>1, <1>2, <1>3 DEF ClaimsInv

\* A step that leaves reservations and attempts alone.
LEMMA SameClaims ==
  ASSUME ClaimsInv, UNCHANGED <<present, write, nextRow, sheet, work, range>>,
         \A w \in Workers : pc'[w] = "recording" => pc[w] = "recording"
  PROVE  ClaimsInv'
<1>1. Claims' = Claims
  BY DEF Claims
<1> QED
  BY <1>1, NoNewClaim DEF ClaimsInv

\* An attempt ends, wherever it was.
LEMMA AttemptEnds ==
  ASSUME NEW w \in Workers, WorkersInv, Return(w), ciphers \in Nat, ciphers' = ciphers
  PROVE  /\ WorkersInv'
         /\ pc'[w] = "idle" /\ range'[w] = NoWrite
         /\ \A v \in Workers \ {w} : pc'[v] = pc[v] /\ range'[v] = range[v] /\ work'[v] = work[v]
<1> USE NoSecretRow DEF WorkersInv, Return, Goto
<1>1. pc' = [pc EXCEPT ![w] = "idle"] /\ work' = [work EXCEPT ![w] = NoApproval]
      /\ cred' = [cred EXCEPT ![w] = NoSecret] /\ range' = [range EXCEPT ![w] = NoWrite]
  OBVIOUS
<1>2. /\ pc' \in [Workers -> {"idle", "reserving", "refreshing", "writing", "recording"}]
      /\ work' \in [Workers -> Approvals \cup {NoApproval}] /\ range' \in [Workers -> Writes \cup {NoWrite}]
      /\ cred' \in [Workers -> Secrets]
  BY <1>1
<1>3. cred'[w].cipher = 0 /\ work'[w] = NoApproval /\ pc'[w] = "idle" /\ range'[w] = NoWrite
      /\ \A v \in Workers \ {w} : pc'[v] = pc[v] /\ range'[v] = range[v] /\ work'[v] = work[v] /\ cred'[v] = cred[v]
  BY <1>1
<1> QED
  BY <1>2, <1>3

\* The invariant holds initially.
LEMMA SheetInitial == Init => SheetInv
<1> SUFFICES ASSUME Init PROVE SheetInv
  OBVIOUS
<1> USE Bounds DEF Init
<1>1. ConnectionInv
  <2>1. secret \in Secrets /\ secret.cipher <= ciphers /\ state \in States /\ state.grant = 0
    BY NoSecretRow, NoStateRow
  <2>2. 0 \in 0..MaxGrants /\ 0 \in 0..MaxAttempts /\ 0 \in 0..0
    OBVIOUS
  <2>3. started \in 0..MaxGrants /\ voided \in 0..started /\ attempts \in 0..MaxAttempts
    BY <2>2
  <2>4. tab \in [Tabs -> 0..started]
    BY <2>2
  <2> QED
    BY <2>1, <2>3, <2>4 DEF ConnectionInv
<1>2. RowsInv
  BY DEF RowsInv
<1>3. WorkersInv
  BY NoSecretRow DEF WorkersInv
<1>4. ClaimsInv
  <2>1. Claims = {}
    BY DEF Claims
  <2> QED
    BY <2>1 DEF ClaimsInv, RangesDisjoint
<1> QED
  BY <1>1, <1>2, <1>3, <1>4 DEF SheetInv

\* Every action preserves the invariant.
LEMMA SheetStep ==
  ASSUME SheetInv, [Next]_vars
  PROVE  SheetInv'
<1> USE Bounds DEF SheetInv
<1>1. CASE Start
  <2>1. ConnectionInv'
    <3>1. /\ started' = started + 1 /\ started < MaxGrants /\ state' = [grant |-> started + 1, consumed |-> FALSE]
          /\ UNCHANGED <<enabled, secret, ciphers, voided, tab, attempts>>
      BY <1>1 DEF Start
    <3>2. started \in Nat /\ started + 1 \in 0..MaxGrants /\ FALSE \in BOOLEAN
      BY <3>1 DEF ConnectionInv
    <3>3. state' \in States /\ state'.grant = started'
      BY <3>1, <3>2, StateRow
    <3>4. voided' \in 0..started' /\ tab' \in [Tabs -> 0..started'] /\ voided' < started'
      BY <3>1, <3>2 DEF ConnectionInv
    <3> QED
      BY <3>1, <3>2, <3>3, <3>4 DEF ConnectionInv
  <2>2. RowsInv'
    BY <1>1 DEF Start, connectionVars, reservationVars, attemptVars, RowsInv, WorkersInv
  <2>3. WorkersInv'
    BY <1>1 DEF Start, connectionVars, reservationVars, attemptVars, WorkersInv, RowsInv, ConnectionInv
  <2>4. ClaimsInv'
    <3>1. UNCHANGED <<present, write, nextRow, sheet, work, range>>
      BY <1>1 DEF Start, connectionVars, reservationVars, attemptVars
    <3>2. \A v \in Workers : pc'[v] = "recording" => pc[v] = "recording"
      BY <1>1 DEF Start, WorkersInv, connectionVars, reservationVars, attemptVars
    <3> QED
      BY <3>1, <3>2, SameClaims
  <2> QED
    BY <2>1, <2>2, <2>3, <2>4 DEF SheetInv
<1>2. CASE Disconnect
  <2>1. ConnectionInv'
    <3>1. /\ enabled' = FALSE /\ secret' = NoSecret /\ state' = NoState /\ voided' = started
          /\ UNCHANGED <<ciphers, started, tab, attempts>>
      BY <1>2 DEF Disconnect
    <3>2. secret' \in Secrets /\ secret'.cipher <= ciphers' /\ state' \in States /\ state'.grant = 0
      BY <3>1, NoSecretRow, NoStateRow DEF ConnectionInv
    <3>3. voided' \in 0..started'
      BY <3>1 DEF ConnectionInv
    <3> QED
      BY <3>1, <3>2, <3>3 DEF ConnectionInv
  <2>2. RowsInv'
    BY <1>2 DEF Disconnect, connectionVars, reservationVars, attemptVars, RowsInv, WorkersInv
  <2>3. WorkersInv'
    BY <1>2 DEF Disconnect, connectionVars, reservationVars, attemptVars, WorkersInv, RowsInv, ConnectionInv
  <2>4. ClaimsInv'
    <3>1. UNCHANGED <<present, write, nextRow, sheet, work, range>>
      BY <1>2 DEF Disconnect, connectionVars, reservationVars, attemptVars
    <3>2. \A v \in Workers : pc'[v] = "recording" => pc[v] = "recording"
      BY <1>2 DEF Disconnect, WorkersInv, connectionVars, reservationVars, attemptVars
    <3> QED
      BY <3>1, <3>2, SameClaims
  <2> QED
    BY <2>1, <2>2, <2>3, <2>4 DEF SheetInv
<1>3. CASE Toggle
  <2>1. ConnectionInv'
    BY <1>3 DEF Toggle, connectionVars, reservationVars, attemptVars, ConnectionInv, WorkersInv
  <2>2. RowsInv'
    BY <1>3 DEF Toggle, connectionVars, reservationVars, attemptVars, RowsInv, WorkersInv
  <2>3. WorkersInv'
    BY <1>3 DEF Toggle, connectionVars, reservationVars, attemptVars, WorkersInv, RowsInv, ConnectionInv
  <2>4. ClaimsInv'
    <3>1. UNCHANGED <<present, write, nextRow, sheet, work, range>>
      BY <1>3 DEF Toggle, connectionVars, reservationVars, attemptVars
    <3>2. \A v \in Workers : pc'[v] = "recording" => pc[v] = "recording"
      BY <1>3 DEF Toggle, WorkersInv, connectionVars, reservationVars, attemptVars
    <3> QED
      BY <3>1, <3>2, SameClaims
  <2> QED
    BY <2>1, <2>2, <2>3, <2>4 DEF SheetInv
<1>4. ASSUME NEW t \in Tabs, Consume(t) PROVE SheetInv'
  <2>1. ConnectionInv'
    <3>1. state' \in States /\ state'.grant = state.grant
      BY <1>4 DEF Consume, ConnectionInv, States
    <3> QED
      BY <1>4, <3>1 DEF Consume, reservationVars, attemptVars, ConnectionInv
  <2>2. RowsInv'
    BY <1>4 DEF Consume, connectionVars, reservationVars, attemptVars, RowsInv, WorkersInv
  <2>3. WorkersInv'
    BY <1>4 DEF Consume, connectionVars, reservationVars, attemptVars, WorkersInv, RowsInv, ConnectionInv
  <2>4. ClaimsInv'
    <3>1. UNCHANGED <<present, write, nextRow, sheet, work, range>>
      BY <1>4 DEF Consume, connectionVars, reservationVars, attemptVars
    <3>2. \A v \in Workers : pc'[v] = "recording" => pc[v] = "recording"
      BY <1>4 DEF Consume, WorkersInv, connectionVars, reservationVars, attemptVars
    <3> QED
      BY <3>1, <3>2, SameClaims
  <2> QED
    BY <2>1, <2>2, <2>3, <2>4 DEF SheetInv
<1>5. ASSUME NEW t \in Tabs, Connect(t) PROVE SheetInv'
  <2>1. ConnectionInv'
    <3>1. CASE StillCurrent(t)
      <4>1. ciphers' = ciphers + 1 /\ secret' = [grant |-> tab[t], cipher |-> ciphers + 1]
        BY <1>5, <3>1 DEF Connect, Encrypt
      <4>2. tab[t] \in 0..MaxGrants /\ ciphers + 1 \in Nat
        BY DEF ConnectionInv
      <4>3. secret' \in Secrets /\ secret'.cipher <= ciphers'
        BY <4>1, <4>2, SecretRow
      <4> QED
        BY <1>5, <3>1, <4>1, <4>2, <4>3, NoStateRow DEF Connect, ConnectionInv
    <3>2. CASE ~StillCurrent(t)
      BY <1>5, <3>2 DEF Connect, ConnectionInv
    <3> QED
      BY <3>1, <3>2
  <2>2. RowsInv'
    BY <1>5 DEF Connect, StillCurrent, Encrypt, connectionVars, reservationVars, attemptVars, RowsInv, WorkersInv
  <2>3. WorkersInv'
    <3>1. UNCHANGED attemptVars /\ ciphers \in Nat /\ (ciphers' = ciphers \/ ciphers' = ciphers + 1)
      BY <1>5 DEF Connect, Encrypt, ConnectionInv
    <3>2. \A v \in Workers : cred[v].cipher <= ciphers'
      BY <3>1 DEF WorkersInv, Secrets
    <3> QED
      BY <3>1, <3>2 DEF WorkersInv, attemptVars
  <2>4. ClaimsInv'
    <3>1. UNCHANGED <<present, write, nextRow, sheet, work, range>>
      BY <1>5 DEF Connect, connectionVars, reservationVars, attemptVars
    <3>2. \A v \in Workers : pc'[v] = "recording" => pc[v] = "recording"
      BY <1>5 DEF Connect, WorkersInv, connectionVars, reservationVars, attemptVars
    <3> QED
      BY <3>1, <3>2, SameClaims
  <2> QED
    BY <2>1, <2>2, <2>3, <2>4 DEF SheetInv
<1>6. ASSUME NEW t \in Tabs, Abandon(t) PROVE SheetInv'
  <2>1. ConnectionInv'
    BY <1>6 DEF Abandon, connectionVars, reservationVars, attemptVars, ConnectionInv, WorkersInv
  <2>2. RowsInv'
    BY <1>6 DEF Abandon, connectionVars, reservationVars, attemptVars, RowsInv, WorkersInv
  <2>3. WorkersInv'
    BY <1>6 DEF Abandon, connectionVars, reservationVars, attemptVars, WorkersInv, RowsInv, ConnectionInv
  <2>4. ClaimsInv'
    <3>1. UNCHANGED <<present, write, nextRow, sheet, work, range>>
      BY <1>6 DEF Abandon, connectionVars, reservationVars, attemptVars
    <3>2. \A v \in Workers : pc'[v] = "recording" => pc[v] = "recording"
      BY <1>6 DEF Abandon, WorkersInv, connectionVars, reservationVars, attemptVars
    <3> QED
      BY <3>1, <3>2, SameClaims
  <2> QED
    BY <2>1, <2>2, <2>3, <2>4 DEF SheetInv
<1>7. ASSUME NEW a \in Approvals, Purge(a) PROVE SheetInv'
  <2>1. ConnectionInv'
    BY <1>7 DEF Purge, connectionVars, reservationVars, attemptVars, ConnectionInv, WorkersInv
  <2>2. RowsInv'
    BY <1>7 DEF Purge, connectionVars, reservationVars, attemptVars, RowsInv, WorkersInv
  <2>3. WorkersInv'
    BY <1>7 DEF Purge, connectionVars, reservationVars, attemptVars, WorkersInv, RowsInv, ConnectionInv
  <2>4. ClaimsInv'
    <3>1. /\ present' = present \ {a} /\ write' = [write EXCEPT ![a] = NoWrite]
          /\ UNCHANGED <<nextRow, sheet, pc, work, range>>
      BY <1>7 DEF Purge, attemptVars
    <3>2. Claims' \subseteq Claims
      <4> SUFFICES ASSUME NEW x \in Claims' PROVE x \in Claims
        OBVIOUS
      <4>1. \A b \in Approvals : write'[b] # NoWrite => write'[b] = write[b]
        BY <3>1 DEF RowsInv
      <4> QED
        BY <3>1, <4>1, InClaims
    <3>3. \A b \in present' : write'[b] = write[b]
      BY <3>1 DEF RowsInv
    <3>4. \A v \in Workers : pc'[v] = "recording" => ClaimOf(work'[v], range'[v]) \in sheet'
      BY <3>1 DEF ClaimsInv
    <3> QED
      BY <3>1, <3>2, <3>3, <3>4, NoNewClaim
  <2> QED
    BY <2>1, <2>2, <2>3, <2>4 DEF SheetInv
<1>8. ASSUME NEW w \in Workers, NEW a \in Approvals, Claim(w, a) PROVE SheetInv'
  <2>1. ConnectionInv'
    BY <1>8 DEF Claim, Goto, connectionVars, reservationVars, attemptVars, ConnectionInv, WorkersInv
  <2>2. RowsInv'
    BY <1>8 DEF Claim, Goto, connectionVars, reservationVars, attemptVars, RowsInv, WorkersInv
  <2>3. WorkersInv'
    BY <1>8 DEF Claim, Goto, connectionVars, reservationVars, attemptVars, WorkersInv, RowsInv, ConnectionInv
  <2>4. ClaimsInv'
    <3>1. /\ pc[w] = "idle" /\ pc' = [pc EXCEPT ![w] = "reserving"] /\ work' = [work EXCEPT ![w] = a]
          /\ UNCHANGED <<present, write, nextRow, sheet, range>>
      BY <1>8 DEF Claim, Goto, reservationVars
    <3>2. range[w] = NoWrite /\ pc'[w] = "reserving"
          /\ \A v \in Workers \ {w} : pc'[v] = pc[v] /\ work'[v] = work[v]
      BY <3>1 DEF WorkersInv
    <3>3. Claims' \subseteq Claims
      <4> SUFFICES ASSUME NEW x \in Claims' PROVE x \in Claims
        OBVIOUS
      <4> QED
        BY <3>1, <3>2, InClaims
    <3>4. \A v \in Workers : pc'[v] = "recording" => ClaimOf(work'[v], range'[v]) \in sheet'
      BY <3>1, <3>2 DEF ClaimsInv
    <3> QED
      BY <3>1, <3>3, <3>4, NoNewClaim
  <2> QED
    BY <2>1, <2>2, <2>3, <2>4 DEF SheetInv
<1>9. ASSUME NEW w \in Workers, Reserve(w) PROVE SheetInv'
  <2>1. ConnectionInv'
    BY <1>9 DEF Reserve, Found, Return, Allocate, Goto, connectionVars, reservationVars, attemptVars, ConnectionInv, WorkersInv
  <2>2. RowsInv'
    <3>0. work[w] \in Approvals /\ pc[w] = "reserving" /\ UNCHANGED <<connectionVars, present, sheet, attempts>>
      BY <1>9 DEF Reserve, WorkersInv
    <3>1. CASE Return(w) /\ UNCHANGED reservationVars
      BY <3>0, <3>1 DEF RowsInv, reservationVars
    <3>2. CASE /\ write[work[w]] # NoWrite /\ pc' = [pc EXCEPT ![w] = "refreshing"]
               /\ UNCHANGED <<work, reservationVars>>
               /\ cred' = [cred EXCEPT ![w] = secret] /\ range' = [range EXCEPT ![w] = write[work[w]]]
      BY <3>0, <3>2 DEF RowsInv, reservationVars
    <3>3. ASSUME write[work[w]] = NoWrite, NEW n \in Rows, NEW new,
                 new = [first |-> nextRow, rows |-> n, delivered |-> FALSE],
                 nextRow' = nextRow + n, write' = [write EXCEPT ![work[w]] = new], range' = [range EXCEPT ![w] = new],
                 cred' = [cred EXCEPT ![w] = secret], pc' = [pc EXCEPT ![w] = "refreshing"], UNCHANGED work
          PROVE  RowsInv'
      <4>1. new \in Writes /\ n \in Nat
        BY <3>3, NewRow DEF RowsInv, Rows
      <4> QED
        BY <3>0, <3>3, <4>1 DEF RowsInv
    <3> QED
      BY <1>9, <3>1, <3>2, <3>3 DEF Reserve, Found, Allocate, Goto
  <2>3. WorkersInv'
    <3>0. work[w] \in Approvals /\ pc[w] = "reserving" /\ UNCHANGED <<connectionVars, present, sheet, attempts>>
      BY <1>9 DEF Reserve, WorkersInv
    <3>1. CASE Return(w) /\ UNCHANGED reservationVars
      BY <3>0, <3>1, AttemptEnds DEF ConnectionInv, connectionVars
    <3>2. CASE /\ write[work[w]] # NoWrite /\ pc' = [pc EXCEPT ![w] = "refreshing"]
               /\ UNCHANGED <<work, reservationVars>>
               /\ cred' = [cred EXCEPT ![w] = secret] /\ range' = [range EXCEPT ![w] = write[work[w]]]
      <4>1. write[work[w]] \in Writes
        BY <3>0, <3>2 DEF RowsInv
      <4> QED
        BY <3>0, <3>2, <4>1 DEF WorkersInv, ConnectionInv, connectionVars
    <3>3. ASSUME write[work[w]] = NoWrite, NEW n \in Rows, NEW new,
                 new = [first |-> nextRow, rows |-> n, delivered |-> FALSE],
                 nextRow' = nextRow + n, write' = [write EXCEPT ![work[w]] = new], range' = [range EXCEPT ![w] = new],
                 cred' = [cred EXCEPT ![w] = secret], pc' = [pc EXCEPT ![w] = "refreshing"], UNCHANGED work
          PROVE  WorkersInv'
      <4>1. new \in Writes
        BY <3>3, NewRow DEF RowsInv, Rows
      <4> QED
        BY <3>0, <3>3, <4>1 DEF WorkersInv, ConnectionInv, connectionVars
    <3> QED
      BY <1>9, <3>1, <3>2, <3>3 DEF Reserve, Found, Allocate, Goto
  <2>4. ClaimsInv'
    <3>0. work[w] \in Approvals /\ pc[w] = "reserving" /\ UNCHANGED <<connectionVars, present, sheet, attempts>>
      BY <1>9 DEF Reserve, WorkersInv
    <3>1. CASE Return(w) /\ UNCHANGED reservationVars
      <4>1. /\ pc'[w] = "idle" /\ range'[w] = NoWrite
            /\ \A v \in Workers \ {w} : pc'[v] = pc[v] /\ range'[v] = range[v] /\ work'[v] = work[v]
        BY <3>0, <3>1, AttemptEnds DEF ConnectionInv, connectionVars
      <4>2. Claims' \subseteq Claims
        <5> SUFFICES ASSUME NEW x \in Claims' PROVE x \in Claims
          OBVIOUS
        <5> QED
          BY <3>0, <3>1, <4>1, InClaims DEF reservationVars
      <4>3. \A v \in Workers : pc'[v] = "recording" => ClaimOf(work'[v], range'[v]) \in sheet'
        BY <3>0, <4>1 DEF ClaimsInv
      <4> QED
        BY <3>0, <3>1, <4>2, <4>3, NoNewClaim DEF reservationVars
    <3>2. CASE /\ write[work[w]] # NoWrite /\ pc' = [pc EXCEPT ![w] = "refreshing"]
               /\ UNCHANGED <<work, reservationVars>>
               /\ cred' = [cred EXCEPT ![w] = secret] /\ range' = [range EXCEPT ![w] = write[work[w]]]
      <4>1. /\ pc'[w] = "refreshing" /\ range'[w] = write[work[w]]
            /\ \A v \in Workers \ {w} : pc'[v] = pc[v] /\ range'[v] = range[v]
        BY <3>2 DEF WorkersInv
      <4>2. Claims' \subseteq Claims
        <5> SUFFICES ASSUME NEW x \in Claims' PROVE x \in Claims
          OBVIOUS
        <5> QED
          BY <3>0, <3>2, <4>1, InClaims DEF reservationVars
      <4>3. \A v \in Workers : pc'[v] = "recording" => ClaimOf(work'[v], range'[v]) \in sheet'
        BY <3>0, <3>2, <4>1 DEF ClaimsInv
      <4> QED
        BY <3>0, <3>2, <4>2, <4>3, NoNewClaim DEF reservationVars
    <3>3. ASSUME write[work[w]] = NoWrite, NEW n \in Rows, NEW new,
                 new = [first |-> nextRow, rows |-> n, delivered |-> FALSE],
                 nextRow' = nextRow + n, write' = [write EXCEPT ![work[w]] = new], range' = [range EXCEPT ![w] = new],
                 cred' = [cred EXCEPT ![w] = secret], pc' = [pc EXCEPT ![w] = "refreshing"], UNCHANGED work
          PROVE  ClaimsInv'
      <4> DEFINE q == work[w]
                 fresh == ClaimOf(q, new)
      <4>1. n \in Nat /\ n > 0 /\ nextRow \in Nat /\ nextRow > 1 /\ new \in Writes /\ q \in Approvals
        BY <3>0, <3>3, NewRow DEF RowsInv, Rows
      <4>2. fresh[1] = q /\ fresh[2] = nextRow /\ fresh[3] = n
        BY <3>3 DEF ClaimOf
      <4>3. /\ write'[q] = new /\ \A b \in Approvals \ {q} : write'[b] = write[b]
            /\ range'[w] = new /\ pc'[w] = "refreshing"
            /\ \A v \in Workers \ {w} : range'[v] = range[v] /\ pc'[v] = pc[v]
        BY <3>0, <3>3 DEF RowsInv, WorkersInv
      <4>4. write[q] = NoWrite /\ new # NoWrite /\ work' = work /\ sheet' = sheet /\ present' = present /\ nextRow' = nextRow + n
        BY <3>0, <3>3, <4>1
      <4> HIDE DEF q
      <4>5. \A x \in Claims' : x \in Claims \/ x = fresh
        <5> SUFFICES ASSUME NEW x \in Claims', x # fresh PROVE x \in Claims
          OBVIOUS
        <5>1. ASSUME NEW b \in Approvals, write'[b] # NoWrite, x = ClaimOf(b, write'[b]) PROVE x \in Claims
          <6>1. b # q /\ write'[b] = write[b]
            BY <4>3, <5>1
          <6> QED
            BY <5>1, <6>1, InClaims
        <5>2. ASSUME NEW v \in Workers, range'[v] # NoWrite, x = ClaimOf(work'[v], range'[v]) PROVE x \in Claims
          <6>1. v # w /\ range'[v] = range[v]
            BY <4>3, <4>4, <5>2 DEF q
          <6> QED
            BY <4>4, <5>2, <6>1, InClaims
        <5> QED
          BY <4>4, <5>1, <5>2, InClaims
      <4> HIDE DEF fresh
      <4>6. \A x \in Claims : x[2] \in Nat /\ x[3] \in Nat /\ x[2] > 1 /\ x[2] + x[3] <= nextRow
        BY ClaimRow DEF ClaimsInv, RangesDisjoint
      <4>7. RangesDisjoint'
        <5>1. \A x \in Claims' : x[2] > 1 /\ x[2] + x[3] <= nextRow'
          BY <4>1, <4>2, <4>4, <4>5, <4>6
        <5>2. ASSUME NEW x \in Claims', NEW y \in Claims', x # y
              PROVE  x[2] + x[3] <= y[2] \/ y[2] + y[3] <= x[2]
          <6>1. CASE x \in Claims /\ y \in Claims
            BY <5>2, <6>1 DEF ClaimsInv, RangesDisjoint
          <6>2. CASE x = fresh
            BY <4>2, <4>5, <4>6, <5>2, <6>2
          <6>3. CASE y = fresh
            BY <4>2, <4>5, <4>6, <5>2, <6>3
          <6> QED
            BY <4>5, <6>1, <6>2, <6>3
        <5> QED
          BY <5>1, <5>2 DEF RangesDisjoint
      <4>8. ASSUME NEW b \in present', NEW x \in Claims', x[1] = b
            PROVE  write'[b] # NoWrite /\ x = ClaimOf(b, write'[b])
        <5>1. CASE x = fresh
          BY <4>2, <4>3, <4>4, <4>8, <5>1 DEF fresh
        <5>2. CASE x \in Claims
          <6>1. write[b] # NoWrite /\ x = ClaimOf(b, write[b]) /\ b \in Approvals
            BY <4>4, <4>8, <5>2 DEF ClaimsInv, RowsInv
          <6> QED
            BY <4>3, <4>4, <6>1
        <5> QED
          BY <4>5, <5>1, <5>2
      <4>9. ASSUME NEW b \in present', write'[b] # NoWrite, write'[b].delivered PROVE \E x \in sheet' : x[1] = b
        <5>1. ~new.delivered /\ b \in Approvals
          BY <3>3, <4>4 DEF RowsInv
        <5>2. write[b] = write'[b]
          BY <4>3, <4>9, <5>1
        <5> QED
          BY <4>4, <4>9, <5>2 DEF ClaimsInv
      <4>10. \A v \in Workers : pc'[v] = "recording" => ClaimOf(work'[v], range'[v]) \in sheet'
        BY <4>3, <4>4 DEF ClaimsInv
      <4> QED
        BY <4>7, <4>8, <4>9, <4>10 DEF ClaimsInv
    <3> QED
      BY <1>9, <3>1, <3>2, <3>3 DEF Reserve, Found, Allocate, Goto
  <2> QED
    BY <2>1, <2>2, <2>3, <2>4 DEF SheetInv
<1>10. ASSUME NEW w \in Workers, Persist(w) PROVE SheetInv'
  <2>1. ConnectionInv'
    <3>1. ciphers' = ciphers + 1 /\ secret' = [grant |-> cred[w].grant, cipher |-> ciphers + 1]
      BY <1>10 DEF Persist, Encrypt
    <3>2. cred[w].grant \in 0..MaxGrants /\ ciphers + 1 \in Nat
      BY DEF ConnectionInv, WorkersInv, Secrets
    <3>3. secret' \in Secrets /\ secret'.cipher <= ciphers'
      BY <3>1, <3>2, SecretRow
    <3> QED
      BY <1>10, <3>1, <3>2, <3>3 DEF Persist, ConnectionInv
  <2>2. RowsInv'
    BY <1>10 DEF Persist, Unchanged, Encrypt, Goto, connectionVars, reservationVars, attemptVars, RowsInv, WorkersInv
  <2>3. WorkersInv'
    <3>1. UNCHANGED <<work, cred, range>> /\ ciphers' = ciphers + 1 /\ ciphers \in Nat
          /\ pc[w] = "refreshing" /\ pc' = [pc EXCEPT ![w] = "writing"]
      BY <1>10 DEF Persist, Encrypt, Goto, ConnectionInv
    <3>2. \A v \in Workers : cred[v].cipher <= ciphers'
      BY <3>1 DEF WorkersInv, Secrets
    <3> QED
      BY <3>1, <3>2 DEF WorkersInv
  <2>4. ClaimsInv'
    <3>1. UNCHANGED <<present, write, nextRow, sheet, work, range>>
      BY <1>10 DEF Persist, Goto, connectionVars, reservationVars, attemptVars
    <3>2. \A v \in Workers : pc'[v] = "recording" => pc[v] = "recording"
      BY <1>10 DEF Persist, Goto, WorkersInv, connectionVars, reservationVars, attemptVars
    <3> QED
      BY <3>1, <3>2, SameClaims
  <2> QED
    BY <2>1, <2>2, <2>3, <2>4 DEF SheetInv
<1>11. ASSUME NEW w \in Workers, WriteRange(w) PROVE SheetInv'
  <2>1. ConnectionInv'
    BY <1>11 DEF WriteRange, Goto, connectionVars, reservationVars, attemptVars, ConnectionInv, WorkersInv
  <2>2. RowsInv'
    <3>1. work[w] \in Approvals /\ range[w] \in Writes
      BY <1>11 DEF WriteRange, WorkersInv
    <3>2. range[w].first \in Nat /\ range[w].rows \in 1..MaxRows
      BY <3>1 DEF Writes
    <3>3. <<work[w], range[w].first, range[w].rows>> \in Approvals \X Nat \X (1..MaxRows)
      BY <3>1, <3>2
    <3> QED
      BY <1>11, <3>3 DEF WriteRange, RowsInv, reservationVars
  <2>3. WorkersInv'
    BY <1>11 DEF WriteRange, Goto, connectionVars, reservationVars, attemptVars, WorkersInv, RowsInv, ConnectionInv
  <2>4. ClaimsInv'
    <3>1. /\ sheet' = sheet \cup {ClaimOf(work[w], range[w])} /\ pc[w] = "writing"
          /\ pc' = [pc EXCEPT ![w] = "recording"] /\ UNCHANGED <<present, write, nextRow, work, range>>
      BY <1>11 DEF WriteRange, Goto, reservationVars, ClaimOf
    <3>2. range[w] # NoWrite /\ pc'[w] = "recording" /\ \A v \in Workers \ {w} : pc'[v] = pc[v]
      BY <3>1 DEF WorkersInv
    <3>3. Claims' \subseteq Claims
      <4> SUFFICES ASSUME NEW x \in Claims' PROVE x \in Claims
        OBVIOUS
      <4>1. CASE x = ClaimOf(work[w], range[w])
        BY <3>2, <4>1, InClaims
      <4>2. CASE x # ClaimOf(work[w], range[w])
        <5>1. x \in sheet' <=> x \in sheet
          BY <3>1, <4>2
        <5> QED
          BY <3>1, <5>1, InClaims
      <4> QED
        BY <4>1, <4>2
    <3>4. \A v \in Workers : pc'[v] = "recording" => ClaimOf(work'[v], range'[v]) \in sheet'
      BY <3>1, <3>2 DEF ClaimsInv
    <3> QED
      BY <3>1, <3>3, <3>4, NoNewClaim
  <2> QED
    BY <2>1, <2>2, <2>3, <2>4 DEF SheetInv
<1>12. ASSUME NEW w \in Workers, RecordWrite(w) PROVE SheetInv'
  <2>1. ConnectionInv'
    BY <1>12 DEF RecordWrite, Return, Goto, connectionVars, reservationVars, attemptVars, ConnectionInv, WorkersInv
  <2>2. RowsInv'
    <3>1. work[w] \in Approvals
      BY <1>12 DEF RecordWrite, WorkersInv
    <3>2. write' \in [Approvals -> Writes \cup {NoWrite}]
      <4>1. CASE write[work[w]] = NoWrite
        BY <1>12, <3>1, <4>1 DEF RecordWrite, RowsInv
      <4>2. CASE write[work[w]] # NoWrite
        <5>1. [write[work[w]] EXCEPT !.delivered = TRUE] \in Writes
          BY <3>1, <4>2 DEF RowsInv, Writes
        <5>2. write' = [write EXCEPT ![work[w]] = [write[work[w]] EXCEPT !.delivered = TRUE]]
          BY <1>12, <4>2 DEF RecordWrite
        <5> QED
          BY <5>1, <5>2 DEF RowsInv
      <4> QED
        BY <4>1, <4>2
    <3> QED
      BY <1>12, <3>2 DEF RecordWrite, RowsInv
  <2>3. WorkersInv'
    <3>1. Return(w) /\ ciphers' = ciphers /\ ciphers \in Nat
      BY <1>12 DEF RecordWrite, connectionVars, ConnectionInv
    <3> QED
      BY <3>1, AttemptEnds
  <2>4. ClaimsInv'
    <3> DEFINE q == work[w]
    <3>1. /\ Return(w) /\ ciphers' = ciphers /\ ciphers \in Nat /\ q \in Approvals
          /\ UNCHANGED <<present, nextRow, sheet>> /\ ClaimOf(q, range[w]) \in sheet
      BY <1>12 DEF RecordWrite, connectionVars, ConnectionInv, WorkersInv, ClaimsInv
    <3>2. /\ pc'[w] = "idle" /\ range'[w] = NoWrite
          /\ \A v \in Workers \ {w} : pc'[v] = pc[v] /\ range'[v] = range[v] /\ work'[v] = work[v]
      BY <3>1, AttemptEnds
    <3>3. /\ \A b \in Approvals \ {q} : write'[b] = write[b]
          /\ write[q] = NoWrite => write'[q] = NoWrite
      BY <1>12, <3>1 DEF RecordWrite, RowsInv
    <3>4. write[q] # NoWrite => write'[q] \in Writes /\ ClaimOf(q, write'[q]) = ClaimOf(q, write[q])
      <4> SUFFICES ASSUME write[q] # NoWrite PROVE write'[q] \in Writes /\ ClaimOf(q, write'[q]) = ClaimOf(q, write[q])
        OBVIOUS
      <4>1. write'[q] = [write[q] EXCEPT !.delivered = TRUE]
        BY <1>12, <3>1 DEF RecordWrite, RowsInv
      <4>2. write[q] \in Writes
        BY <3>1 DEF RowsInv
      <4> QED
        BY <4>1, <4>2 DEF Writes, ClaimOf
    <3>5. \E x \in sheet : x[1] = q
      BY <3>1 DEF ClaimOf
    <3> HIDE DEF q
    <3>6. Claims' \subseteq Claims
      <4> SUFFICES ASSUME NEW x \in Claims' PROVE x \in Claims
        OBVIOUS
      <4>1. ASSUME NEW b \in Approvals, write'[b] # NoWrite, x = ClaimOf(b, write'[b])
            PROVE  x \in Claims
        <5>1. write[b] # NoWrite /\ ClaimOf(b, write'[b]) = ClaimOf(b, write[b])
          BY <3>3, <3>4, <4>1
        <5> QED
          BY <4>1, <5>1, InClaims
      <4>2. ASSUME NEW v \in Workers, range'[v] # NoWrite, x = ClaimOf(work'[v], range'[v])
            PROVE  x \in Claims
        <5>1. range'[v] = range[v] /\ work'[v] = work[v]
          BY <3>2, <4>2
        <5>2. range[v] # NoWrite /\ x = ClaimOf(work[v], range[v])
          BY <4>2, <5>1
        <5> QED
          BY <5>2, InClaims
      <4> QED
        BY <3>1, <4>1, <4>2, InClaims
    <3>7. \A v \in Workers : pc'[v] = "recording" => ClaimOf(work'[v], range'[v]) \in sheet'
      BY <3>1, <3>2 DEF ClaimsInv
    <3>8. \A b \in present' : write[b] # NoWrite =>
            /\ write'[b] # NoWrite /\ ClaimOf(b, write'[b]) = ClaimOf(b, write[b])
            /\ write'[b].delivered => write[b].delivered \/ \E x \in sheet : x[1] = b
      BY <3>1, <3>3, <3>4, <3>5 DEF RowsInv
    <3>9. \A b \in present' : write[b] = NoWrite => write'[b] = NoWrite
      BY <3>1, <3>3 DEF RowsInv
    <3> QED
      BY <3>1, <3>6, <3>7, <3>8, <3>9, NoNewClaim
  <2> QED
    BY <2>1, <2>2, <2>3, <2>4 DEF SheetInv
<1>13. ASSUME NEW w \in Workers, TimeOut(w) PROVE SheetInv'
  <2>1. ConnectionInv'
    BY <1>13 DEF TimeOut, Return, Goto, connectionVars, reservationVars, attemptVars, ConnectionInv, WorkersInv
  <2>2. RowsInv'
    BY <1>13 DEF TimeOut, Return, Goto, connectionVars, reservationVars, attemptVars, RowsInv, WorkersInv
  <2>3. WorkersInv'
    <3>1. Return(w) /\ ciphers' = ciphers /\ ciphers \in Nat
      BY <1>13 DEF TimeOut, connectionVars, ConnectionInv
    <3> QED
      BY <3>1, AttemptEnds
  <2>4. ClaimsInv'
    <3>1. /\ Return(w) /\ ciphers' = ciphers /\ ciphers \in Nat
          /\ UNCHANGED <<present, write, nextRow, sheet>>
      BY <1>13 DEF TimeOut, connectionVars, reservationVars, ConnectionInv
    <3>2. /\ pc'[w] = "idle" /\ range'[w] = NoWrite
          /\ \A v \in Workers \ {w} : pc'[v] = pc[v] /\ range'[v] = range[v] /\ work'[v] = work[v]
      BY <3>1, AttemptEnds
    <3>3. Claims' \subseteq Claims
      <4> SUFFICES ASSUME NEW x \in Claims' PROVE x \in Claims
        OBVIOUS
      <4> QED
        BY <3>1, <3>2, InClaims
    <3>4. \A v \in Workers : pc'[v] = "recording" => ClaimOf(work'[v], range'[v]) \in sheet'
      BY <3>1, <3>2 DEF ClaimsInv
    <3> QED
      BY <3>1, <3>3, <3>4, NoNewClaim
  <2> QED
    BY <2>1, <2>2, <2>3, <2>4 DEF SheetInv
<1>14. ASSUME NEW w \in Workers, Fail(w) PROVE SheetInv'
  <2>1. ConnectionInv'
    BY <1>14 DEF Fail, Return, Goto, connectionVars, reservationVars, attemptVars, ConnectionInv, WorkersInv
  <2>2. RowsInv'
    BY <1>14 DEF Fail, Return, Goto, connectionVars, reservationVars, attemptVars, RowsInv, WorkersInv
  <2>3. WorkersInv'
    <3>1. Return(w) /\ ciphers' = ciphers /\ ciphers \in Nat
      BY <1>14 DEF Fail, connectionVars, ConnectionInv
    <3> QED
      BY <3>1, AttemptEnds
  <2>4. ClaimsInv'
    <3>1. /\ Return(w) /\ ciphers' = ciphers /\ ciphers \in Nat
          /\ UNCHANGED <<present, write, nextRow, sheet>>
      BY <1>14 DEF Fail, connectionVars, reservationVars, ConnectionInv
    <3>2. /\ pc'[w] = "idle" /\ range'[w] = NoWrite
          /\ \A v \in Workers \ {w} : pc'[v] = pc[v] /\ range'[v] = range[v] /\ work'[v] = work[v]
      BY <3>1, AttemptEnds
    <3>3. Claims' \subseteq Claims
      <4> SUFFICES ASSUME NEW x \in Claims' PROVE x \in Claims
        OBVIOUS
      <4> QED
        BY <3>1, <3>2, InClaims
    <3>4. \A v \in Workers : pc'[v] = "recording" => ClaimOf(work'[v], range'[v]) \in sheet'
      BY <3>1, <3>2 DEF ClaimsInv
    <3> QED
      BY <3>1, <3>3, <3>4, NoNewClaim
  <2> QED
    BY <2>1, <2>2, <2>3, <2>4 DEF SheetInv
<1>15. CASE UNCHANGED vars
  <2>1. ConnectionInv'
    BY <1>15 DEF vars, connectionVars, reservationVars, attemptVars, ConnectionInv, WorkersInv
  <2>2. RowsInv'
    BY <1>15 DEF vars, connectionVars, reservationVars, attemptVars, RowsInv, WorkersInv
  <2>3. WorkersInv'
    BY <1>15 DEF vars, connectionVars, reservationVars, attemptVars, WorkersInv, RowsInv, ConnectionInv
  <2>4. ClaimsInv'
    <3>1. UNCHANGED <<present, write, nextRow, sheet, work, range>>
      BY <1>15 DEF vars, connectionVars, reservationVars, attemptVars
    <3>2. \A v \in Workers : pc'[v] = "recording" => pc[v] = "recording"
      BY <1>15 DEF vars, WorkersInv, connectionVars, reservationVars, attemptVars
    <3> QED
      BY <3>1, <3>2, SameClaims
  <2> QED
    BY <2>1, <2>2, <2>3, <2>4 DEF SheetInv
<1> QED
  BY <1>1, <1>2, <1>3, <1>4, <1>5, <1>6, <1>7, <1>8, <1>9, <1>10, <1>11, <1>12, <1>13, <1>14, <1>15 DEF Next


-----------------------------------------------------------------------------
\* Every variable has its type and an attempt has what its place needs.
THEOREM SheetTypes == Spec => []TypeOK
<1>1. SheetInv /\ [Next]_vars => SheetInv'
  BY SheetStep
<1>2. SheetInv => TypeOK
  BY DEF SheetInv, ConnectionInv, States, RowsInv, WorkersInv, TypeOK
<1> QED
  BY SheetInitial, <1>1, <1>2, PTL DEF Spec

\* No approval's rows overwrite another's or the header, nor those of a deleted document,
\* for any number of attempts that overlap and any number of rows: the cursor only grows, under
\* the integration's lock, and what is reserved, on its way or written lies below it.
THEOREM RangesStayApart == Spec => []RangesDisjoint
<1>1. SheetInv /\ [Next]_vars => SheetInv'
  BY SheetStep
<1>2. SheetInv => RangesDisjoint
  BY DEF SheetInv, ClaimsInv
<1> QED
  BY SheetInitial, <1>1, <1>2, PTL DEF Spec

\* While its document exists, all attempts and replays of an approval go to the one range it
\* reserved, and it is marked delivered only when Google has it.
THEOREM ReservedOnce == Spec => []OneRangePerApproval
<1>1. SheetInv /\ [Next]_vars => SheetInv'
  BY SheetStep
<1>2. SheetInv => OneRangePerApproval
  <2> SUFFICES ASSUME SheetInv, NEW a \in present
               PROVE  /\ \A x, y \in Claims : x[1] = a /\ y[1] = a => x = y
                      /\ write[a] # NoWrite /\ write[a].delivered => \E x \in sheet : x[1] = a
    BY DEF OneRangePerApproval
  <2> QED
    BY DEF SheetInv, ClaimsInv
<1> QED
  BY SheetInitial, <1>1, <1>2, PTL DEF Spec

\* Credentials come only from the newest authorization, never from one that was started before
\* the last disconnect, however slow a token exchange or a refresh is.
THEOREM NewestConnection == Spec => ConnectionsAreNewest
<1>1. SheetInv /\ [Next]_vars => SheetInv'
  BY SheetStep
<1>2. SheetInv /\ [Next]_vars
        => (secret'.grant # secret.grant => secret'.grant = 0 \/ (secret'.grant = started /\ secret'.grant > voided))
  <2> SUFFICES ASSUME SheetInv, [Next]_vars, secret'.grant # secret.grant
               PROVE  secret'.grant = 0 \/ (secret'.grant = started /\ secret'.grant > voided)
    OBVIOUS
  <2>1. ASSUME NEW t \in Tabs, Connect(t) PROVE secret'.grant = started /\ secret'.grant > voided
    <3>1. StillCurrent(t) /\ tab[t] # 0
      BY <2>1 DEF Connect
    <3>2. secret'.grant = tab[t] /\ state.grant = tab[t]
      BY <2>1, <3>1 DEF Connect, Encrypt, StillCurrent
    <3> QED
      BY <3>1, <3>2 DEF SheetInv, ConnectionInv
  <2>2. CASE Disconnect
    BY <2>2, NoSecretRow DEF Disconnect
  <2>3. ASSUME NEW w \in Workers, Persist(w) PROVE FALSE
    BY <2>3 DEF Persist, Unchanged, Encrypt
  <2>4. CASE \/ Start \/ Toggle \/ \E t \in Tabs : Consume(t) \/ Abandon(t)
             \/ \E a \in Approvals : Purge(a)
             \/ \E w \in Workers :
                  \/ \E a \in Approvals : Claim(w, a)
                  \/ Reserve(w) \/ WriteRange(w) \/ RecordWrite(w) \/ TimeOut(w) \/ Fail(w)
             \/ UNCHANGED vars
    <3>1. UNCHANGED secret
      BY <2>4 DEF Start, Toggle, Consume, Abandon, Purge, Claim, Reserve, WriteRange, RecordWrite, TimeOut, Fail, vars, connectionVars
    <3> QED
      BY <3>1
  <2> QED
    BY <2>1, <2>2, <2>3, <2>4 DEF Next
<1> QED
  BY SheetInitial, <1>1, <1>2, PTL DEF Spec, ConnectionsAreNewest

-----------------------------------------------------------------------------
(***************************************************************************)
(* OperationsMonitor: every notice is mailed once, and no checkpoint is lost. *)
(***************************************************************************)
\* What becomes of an attempt.
Outcomes == {"queued", "executing", "cancelled", "superseded", "stateless", "failed", "observed"}
\* Runs, notices, checkpoints and artifacts without any bound.
Run == [mode : {"run", "initialize", "external"}, tick : Nat, turns : Seq(Outcomes)]
Notice == [id : Nat \X Nat, kind : {"incident", "recovery"}]
Checkpoint == [failures : 0..Threshold, incident : Nat \X Nat, pending : Seq(Notice), seen : BOOLEAN, at : Nat]
Artifact == [run : Nat, attempt : Nat, phase : 0..2, state : Checkpoint]

\* The attempts of a run, and what became of the last.
Num(R, r) == Len(R[r].turns)
How(R, r) == R[r].turns[Len(R[r].turns)]

\* The steps before an observation is made.
Early == {"select", "resume", "retry", "observe"}
Steps == Early \cup {"prepare", "deliver", "finish"}
\* The phase of what an attempt uploads next.
Due(t) == IF t \in {"select", "resume"} THEN 0 ELSE IF t \in {"retry", "observe", "prepare"} THEN 1 ELSE 2

Earlier(x, y) ==
  \/ x.run < y.run
  \/ x.run = y.run /\ x.attempt < y.attempt
  \/ x.run = y.run /\ x.attempt = y.attempt /\ x.phase < y.phase

\* Uploads are of attempts there are, in the order of these and of their phases; an attempt that
\* has not selected yet has made none.
Placed(R, A) == \A i \in DOMAIN A : A[i].run \in DOMAIN R /\ A[i].attempt \in 1..Num(R, A[i].run)
Ordered(A) == \A i, j \in DOMAIN A : i < j => Earlier(A[i], A[j])
NotStarted(R, t, r) == How(R, r) = "queued" \/ (t = "select" /\ How(R, r) = "executing")
Unstarted(R, t, A) == \A i \in DOMAIN A : NotStarted(R, t, A[i].run) => A[i].attempt < Num(R, A[i].run)

\* An attempt has given this id to a notice, the executing one in its observation.
Given(R, t, id) ==
  /\ id[1] \in DOMAIN R /\ id[2] \in 1..Num(R, id[1])
  /\ id[2] = Num(R, id[1]) => How(R, id[1]) # "queued" /\ (How(R, id[1]) = "executing" => t \notin Early)

\* Notice n opens an incident of a new id, or closes the one before it.
Opens(s, n) == s[n].kind = "incident" /\ \A m \in 1..n - 1 : s[m].id # s[n].id
Closes(s, n) == s[n] = [id |-> s[n - 1].id, kind |-> "recovery"]
Alternate(s) == \A n \in DOMAIN s : IF n % 2 = 1 THEN Opens(s, n) ELSE Closes(s, n)

\* The incident that is open after these notices.
Says(c, s) == c.incident = IF Len(s) % 2 = 1 THEN s[Len(s)].id ELSE NoIncident

\* At most one notice is unsent: the incident that is open, or the recovery of one that was.
OneNotice(c) ==
  /\ Len(c.pending) <= 1
  /\ c.pending # <<>> => c.incident = NoIncident \/ c.pending[1] = [id |-> c.incident, kind |-> "incident"]

\* The notices of all artifacts, those the last one owes, and what was mailed or is owed.
Ever(A) == UNION {Range(A[i].state.pending) : i \in DOMAIN A}
OwedBy(A, m) == IF A = <<>> THEN <<>> ELSE Unmailed(Last(A).state.pending, m)
Log(A, m) == m \o OwedBy(A, m)

\* What runs, artifacts and mail say together.
History(R, t, A, m, ag, k) ==
  /\ Placed(R, A) /\ Ordered(A) /\ Unstarted(R, t, A)
  /\ Ever(A) = Range(Log(A, m)) /\ Alternate(Log(A, m))
  /\ \A n \in Ever(A) : Given(R, t, n.id)
  /\ ag \subseteq Ever(A)
  /\ A # <<>> => OneNotice(Last(A).state) /\ Says(Last(A).state, Log(A, m)) /\ Last(A).state.at <= k

\* Every variable has its type.
TypesInv ==
  /\ runs \in Seq(Run) /\ artifacts \in Seq(Artifact) /\ mailed \in Seq(Notice)
  /\ file \in Checkpoint /\ turn \in Steps \cup {"none"}
  /\ expired \in 0..Len(artifacts) /\ tick \in Nat /\ faults \in 0..MaxFaults

\* One attempt at most waits and one at most executes, as turn says.
RunsInv ==
  /\ \A r \in DOMAIN runs : Num(runs, r) # 0 /\ runs[r].tick <= tick
  /\ \A r, d \in DOMAIN runs : How(runs, r) \in {"queued", "executing"} /\ How(runs, d) = How(runs, r) => d = r
  /\ turn = "none" => \A r \in DOMAIN runs : How(runs, r) # "executing"
  /\ turn # "none" => \E r \in DOMAIN runs : How(runs, r) = "executing"

\* The executing attempt's uploads come last.
ComesLast(A, r, a, p) ==
  \A i \in DOMAIN A : Earlier([run |-> A[i].run, attempt |-> A[i].attempt, phase |-> A[i].phase], [run |-> r, attempt |-> a, phase |-> p])

LastInv ==
  \A r \in DOMAIN runs : How(runs, r) = "executing" /\ turn # "select" => ComesLast(artifacts, r, Num(runs, r), Due(turn))

\* The checkpoint on the runner says what artifacts and mail say, and before its upload what
\* they will say.
Same(c, t, A, m) ==
  /\ Says(c, Log(A, m))
  /\ IF c.pending = <<>> THEN OwedBy(A, m) = <<>> ELSE c.pending = Last(A).state.pending
  /\ t # "observe" => A # <<>>
  /\ t = "resume" => c.pending = Last(A).state.pending
  /\ t \in {"observe", "finish"} => c.pending = <<>>
Ahead(c, R, t, A, m) ==
  /\ OwedBy(A, m) = <<>> /\ Alternate(m \o c.pending) /\ Says(c, m \o c.pending)
  /\ \A n \in Range(c.pending) : Given(R, t, n.id)
Fits(c, R, t, A, m) == IF t = "prepare" THEN Ahead(c, R, t, A, m) ELSE Same(c, t, A, m)

\* The runner's checkpoint is fresh, or fits the history.
FileInv ==
  /\ OneNotice(file) /\ file.at <= tick
  /\ turn \in {"none", "select"} => file = Fresh
  /\ turn \notin {"none", "select"} => Fits(file, runs, turn, artifacts, mailed)

\* The inductive invariant.
MonitorInv == TypesInv /\ RunsInv /\ History(runs, turn, artifacts, mailed, aged, tick) /\ LastInv /\ FileInv

\* Of one notice at most, it is owed unless it was sent.
LEMMA UnmailedOne ==
  ASSUME NEW s \in Seq(Notice), Len(s) <= 1, NEW sent \in Seq(Notice)
  PROVE  Unmailed(s, sent) = IF s = <<>> \/ s[1] \in Range(sent) THEN <<>> ELSE s
<1>1. CASE s = <<>>
  BY <1>1 DEF Unmailed
<1>2. CASE s # <<>> /\ s[1] \in Range(sent)
  <2>1. DOMAIN s = {1}
    BY <1>2
  <2> QED
    BY <1>2, <2>1 DEF Unmailed
<1>3. CASE s # <<>> /\ s[1] \notin Range(sent)
  <2>1. Len(s) \in Nat /\ DOMAIN s = 1..Len(s) /\ Len(s) # 0
    BY <1>3
  <2>2. DOMAIN s = {1} /\ Len(s) = 1
    BY <2>1
  <2>3. {n \in DOMAIN s : s[n] \notin Range(sent)} = {1}
    BY <1>3, <2>2
  <2>4. Min({1}) = 1
    BY DEF Min
  <2>5. SubSeq(s, 1, Len(s)) = s
    BY SubSeqFull
  <2> QED
    BY <1>3, <2>2, <2>3, <2>4, <2>5 DEF Unmailed
<1> QED
  BY <1>1, <1>2, <1>3

\* A sequence of one notice.
LEMMA OneSeq ==
  ASSUME NEW s \in Seq(Notice), Len(s) <= 1, s # <<>>
  PROVE  s = <<s[1]>> /\ s[1] \in Notice /\ Len(s) = 1 /\ Head(s) = s[1] /\ Tail(s) = <<>>
<1>1. Len(s) \in Nat /\ Len(s) # 0 /\ s \in [1..Len(s) -> Notice]
  OBVIOUS
<1>2. Len(s) = 1 /\ s[1] \in Notice
  BY <1>1
<1>3. s = <<s[1]>>
  BY <1>2, SeqEqual
<1>4. Len(Tail(s)) = 0 /\ Tail(s) \in Seq(Notice)
  BY <1>2
<1>5. Tail(s) = <<>>
  BY <1>4, EmptySeq
<1>6. Head(s) = s[1]
  BY <1>2
<1> QED
  BY <1>2, <1>3, <1>5, <1>6

\* Where notices alternate, none is the same as an earlier one.
LEMMA FreshLast ==
  ASSUME NEW s \in Seq(Notice), NEW n \in Notice, Alternate(s \o <<n>>)
  PROVE  n \notin Range(s)
<1>0. PICK t : t = s \o <<n>>
  OBVIOUS
<1>1. Len(s) \in Nat /\ DOMAIN t = 1..Len(s) + 1 /\ DOMAIN s = 1..Len(s)
      /\ t[Len(s) + 1] = n /\ \A i \in 1..Len(s) : t[i] = s[i]
  BY <1>0
<1>2. SUFFICES ASSUME NEW m \in 1..Len(s), s[m] = n PROVE FALSE
  BY <1>1 DEF Range
<1>3. Alternate(t)
  BY <1>0
<1>4. CASE (Len(s) + 1) % 2 = 1
  <2>1. Opens(t, Len(s) + 1)
    BY <1>1, <1>3, <1>4 DEF Alternate
  <2> QED
    BY <1>1, <1>2, <2>1 DEF Opens
<1>5. CASE (Len(s) + 1) % 2 # 1
  <2>1. Len(s) % 2 = 1
    BY <1>1, <1>5
  <2>2. Closes(t, Len(s) + 1)
    BY <1>1, <1>3, <1>5 DEF Alternate
  <2>3. n.kind = "recovery" /\ n.id = t[Len(s)].id
    BY <1>1, <2>2 DEF Closes
  <2>4. m % 2 # 1
    <3>1. Opens(t, m) => t[m].kind = "incident"
      BY DEF Opens
    <3> QED
      BY <1>1, <1>2, <1>3, <2>3, <3>1 DEF Alternate
  <2>5. Closes(t, m)
    BY <1>1, <1>3, <2>4 DEF Alternate
  <2>6. m - 1 \in 1..Len(s) - 1 /\ Len(s) \in DOMAIN t
    BY <1>1, <2>4
  <2>7. Opens(t, Len(s))
    BY <1>3, <2>1, <2>6 DEF Alternate
  <2>8. t[m].id = t[m - 1].id
    BY <2>5 DEF Closes
  <2> QED
    BY <1>1, <1>2, <2>3, <2>6, <2>7, <2>8 DEF Opens
<1> QED
  BY <1>4, <1>5

\* What alternates still does with the incident or the recovery that is due.
LEMMA OneMore ==
  ASSUME NEW s \in Seq(Notice), Alternate(s), NEW n \in Notice,
         IF Len(s) % 2 = 0 THEN n.kind = "incident" /\ \A m \in 1..Len(s) : s[m].id # n.id
         ELSE n = [id |-> s[Len(s)].id, kind |-> "recovery"]
  PROVE  Alternate(s \o <<n>>)
<1>0. PICK t : t = s \o <<n>>
  OBVIOUS
<1>1. Len(s) \in Nat /\ DOMAIN t = 1..Len(s) + 1 /\ DOMAIN s = 1..Len(s)
      /\ t[Len(s) + 1] = n /\ \A i \in 1..Len(s) : t[i] = s[i]
  BY <1>0
<1>2. ASSUME NEW i \in 1..Len(s), i % 2 = 1 PROVE Opens(t, i)
  <2>1. Opens(s, i)
    BY <1>1, <1>2 DEF Alternate
  <2> QED
    BY <1>1, <2>1 DEF Opens
<1>3. ASSUME NEW i \in 1..Len(s), i % 2 # 1 PROVE Closes(t, i)
  <2>1. i - 1 \in 1..Len(s)
    BY <1>1, <1>3
  <2>2. Closes(s, i)
    BY <1>1, <1>3 DEF Alternate
  <2> QED
    BY <1>1, <2>1, <2>2 DEF Closes
<1>4. IF (Len(s) + 1) % 2 = 1 THEN Opens(t, Len(s) + 1) ELSE Closes(t, Len(s) + 1)
  <2>1. CASE Len(s) % 2 = 0
    <3>1. (Len(s) + 1) % 2 = 1
      BY <1>1, <2>1
    <3>2. n.kind = "incident" /\ \A m \in 1..Len(s) : s[m].id # n.id
      BY <2>1
    <3>3. Opens(t, Len(s) + 1)
      BY <1>1, <3>2 DEF Opens
    <3> QED
      BY <3>1, <3>3
  <2>2. CASE Len(s) % 2 # 0
    <3>1. (Len(s) + 1) % 2 # 1 /\ Len(s) \in 1..Len(s)
      BY <1>1, <2>2
    <3>2. Closes(t, Len(s) + 1)
      BY <1>1, <2>2, <3>1 DEF Closes
    <3> QED
      BY <3>1, <3>2
  <2> QED
    BY <2>1, <2>2
<1>5. \A i \in DOMAIN t : i \in 1..Len(s) \/ i = Len(s) + 1
  BY <1>1
<1>6. Alternate(t)
  BY <1>2, <1>3, <1>4, <1>5 DEF Alternate
<1> QED
  BY <1>0, <1>6

\* What a run of a sequence of runs is made of.
LEMMA RunParts ==
  ASSUME NEW R \in Seq(Run), NEW r \in DOMAIN R
  PROVE  /\ Len(R) \in Nat /\ DOMAIN R = 1..Len(R) /\ r \in 1..Len(R)
         /\ R[r] \in Run /\ R[r].turns \in Seq(Outcomes) /\ R[r].tick \in Nat
         /\ Num(R, r) \in Nat /\ R[r].turns \in [1..Num(R, r) -> Outcomes]
         /\ Num(R, r) # 0 => How(R, r) \in Outcomes /\ How(R, r) = R[r].turns[Num(R, r)]
<1>1. R[r] \in Run
  OBVIOUS
<1>2. R[r].turns \in Seq(Outcomes) /\ R[r].tick \in Nat
  BY <1>1 DEF Run
<1> QED
  BY <1>1, <1>2 DEF Num, How

\* The words of the model, in these.
LEMMA RunWords ==
  /\ \A r : Turns(r) = Num(runs, r) /\ Latest(r) = How(runs, r)
  /\ Executing = {r \in DOMAIN runs : How(runs, r) = "executing"}
  /\ \A r : Waiting(r) <=> How(runs, r) \in {"queued", "executing"}
  BY DEF Turns, Num, Latest, How, Last, Executing, Waiting

\* A run's last attempt becomes something else.
Becomes(R, S, r, how) ==
  /\ S \in Seq(Run) /\ DOMAIN S = DOMAIN R
  /\ \A d \in DOMAIN R : Num(S, d) = Num(R, d) /\ S[d].tick = R[d].tick
  /\ How(S, r) = how /\ \A d \in DOMAIN R \ {r} : How(S, d) = How(R, d)

\* Changing what became of a run's last attempt changes nothing else.
LEMMA LastBecomes ==
  ASSUME NEW R \in Seq(Run), NEW r \in DOMAIN R, Num(R, r) # 0, NEW how \in Outcomes,
         NEW S, S = [R EXCEPT ![r].turns[Num(R, r)] = how]
  PROVE  Becomes(R, S, r, how)
<1>1. R[r] \in Run /\ R[r].turns \in [1..Num(R, r) -> Outcomes] /\ Num(R, r) \in 1..Num(R, r) /\ DOMAIN R = 1..Len(R)
      /\ Len(R) \in Nat /\ Num(R, r) \in Nat /\ R[r].turns \in Seq(Outcomes) /\ Len(R[r].turns) = Num(R, r)
  BY RunParts DEF Num
<1>2. PICK v : v = [R[r].turns EXCEPT ![Num(R, r)] = how]
  OBVIOUS
<1>3. v \in Seq(Outcomes) /\ Len(v) = Num(R, r) /\ v[Num(R, r)] = how
  <2>1. PICK w : w = R[r].turns
    OBVIOUS
  <2>2. PICK n : n = Num(R, r)
    OBVIOUS
  <2>3. w \in Seq(Outcomes) /\ n \in 1..Len(w) /\ Len(w) = n
    BY <1>1, <2>1, <2>2
  <2>4. [w EXCEPT ![n] = how] \in Seq(Outcomes) /\ Len([w EXCEPT ![n] = how]) = Len(w)
        /\ \A j \in 1..Len(w) : [w EXCEPT ![n] = how][j] = IF j = n THEN how ELSE w[j]
    BY <2>3, ExceptSeq
  <2> QED
    BY <1>2, <2>1, <2>2, <2>3, <2>4
<1>4. PICK x : x = [R[r] EXCEPT !.turns = v]
  OBVIOUS
<1>5. x \in Run /\ x.turns = v /\ x.tick = R[r].tick
  BY <1>1, <1>3, <1>4 DEF Run
<1>6. S = [R EXCEPT ![r] = x]
  BY <1>1, <1>2, <1>4 DEF Run
<1>7. S \in Seq(Run) /\ Len(S) = Len(R) /\ \A d \in 1..Len(R) : S[d] = IF d = r THEN x ELSE R[d]
  <2>1. r \in 1..Len(R)
    BY <1>1
  <2>2. [R EXCEPT ![r] = x] \in Seq(Run) /\ Len([R EXCEPT ![r] = x]) = Len(R)
        /\ \A j \in 1..Len(R) : [R EXCEPT ![r] = x][j] = IF j = r THEN x ELSE R[j]
    BY <1>5, <2>1, ExceptSeq
  <2> QED
    BY <1>6, <2>2
<1>8. DOMAIN S = 1..Len(R)
  BY <1>1, <1>7
<1> QED
  BY <1>1, <1>3, <1>5, <1>7, <1>8 DEF Becomes, Num, How

\* An attempt is queued, a run's first or its next, and what was queued is cancelled.
Queues(R, S, q, t) ==
  /\ S \in Seq(Run) /\ DOMAIN S = DOMAIN R \cup {q}
  /\ q \in DOMAIN R => How(R, q) \notin {"queued", "executing"}
  /\ Num(S, q) = (IF q \in DOMAIN R THEN Num(R, q) ELSE 0) + 1 /\ How(S, q) = "queued"
  /\ S[q].tick <= t
  /\ \A d \in DOMAIN R \ {q} :
       Num(S, d) = Num(R, d) /\ S[d].tick = R[d].tick /\ How(S, d) = IF How(R, d) = "queued" THEN "cancelled" ELSE How(R, d)

\* What is cancelled by the next to wait, and what is left alone.
LEMMA DisplacedRuns ==
  ASSUME runs \in Seq(Run), \A r \in DOMAIN runs : Num(runs, r) # 0
  PROVE  /\ Displaced \in Seq(Run) /\ Len(Displaced) = Len(runs) /\ DOMAIN Displaced = DOMAIN runs
         /\ \A r \in DOMAIN runs : /\ Num(Displaced, r) = Num(runs, r) /\ Displaced[r].tick = runs[r].tick
                                   /\ How(Displaced, r) = IF How(runs, r) = "queued" THEN "cancelled" ELSE How(runs, r)
                                   /\ How(runs, r) # "queued" => Displaced[r] = runs[r]
<1>1. Len(runs) \in Nat /\ DOMAIN runs = 1..Len(runs)
  OBVIOUS
<1> DEFINE D(r) == IF Latest(r) = "queued" THEN [runs[r] EXCEPT !.turns[Turns(r)] = "cancelled"] ELSE runs[r]
<1>2. ASSUME NEW r \in 1..Len(runs)
      PROVE  /\ D(r) \in Run /\ Len(D(r).turns) = Num(runs, r) /\ D(r).tick = runs[r].tick
             /\ D(r).turns[Len(D(r).turns)] = IF How(runs, r) = "queued" THEN "cancelled" ELSE How(runs, r)
             /\ How(runs, r) # "queued" => D(r) = runs[r]
  <2>1. runs[r] \in Run /\ runs[r].turns \in [1..Num(runs, r) -> Outcomes] /\ Num(runs, r) \in 1..Num(runs, r)
        /\ Num(runs, r) \in Nat /\ runs[r].turns \in Seq(Outcomes)
    BY <1>1, RunParts
  <2>2. Turns(r) = Num(runs, r) /\ Latest(r) = How(runs, r)
    BY RunWords
  <2>3. CASE How(runs, r) # "queued"
    BY <2>1, <2>2, <2>3 DEF Num, How
  <2>4. CASE How(runs, r) = "queued"
    <3>1. PICK v : v = [runs[r].turns EXCEPT ![Num(runs, r)] = "cancelled"]
      OBVIOUS
    <3>2. v \in Seq(Outcomes) /\ Len(v) = Num(runs, r) /\ v[Num(runs, r)] = "cancelled"
      BY <2>1, <3>1 DEF Outcomes
    <3>3. D(r) = [runs[r] EXCEPT !.turns = v]
      BY <2>1, <2>2, <2>4, <3>1 DEF Run
    <3>4. D(r) \in Run /\ D(r).turns = v /\ D(r).tick = runs[r].tick
      BY <2>1, <3>2, <3>3 DEF Run
    <3> QED
      BY <2>4, <3>2, <3>4
  <2> QED
    BY <2>3, <2>4
<1>3. Displaced = [r \in 1..Len(runs) |-> D(r)]
  BY <1>1 DEF Displaced
<1> HIDE DEF D
<1>4. Displaced \in Seq(Run) /\ Len(Displaced) = Len(runs)
  BY <1>1, <1>2, <1>3
<1> QED
  BY <1>1, <1>2, <1>3, <1>4 DEF Num, How

\* A new run is queued.
LEMMA QueuesNew ==
  ASSUME runs \in Seq(Run), \A r \in DOMAIN runs : Num(runs, r) # 0, NEW mode \in {"run", "initialize", "external"},
         NEW t \in Nat, t <= tick, tick \in Nat, runs' = Append(Displaced, [mode |-> mode, tick |-> t, turns |-> <<"queued">>])
  PROVE  Queues(runs, runs', Len(runs) + 1, tick) /\ Len(runs) + 1 \notin DOMAIN runs
<1>1. PICK x : x = [mode |-> mode, tick |-> t, turns |-> <<"queued">>]
  OBVIOUS
<1>2. <<"queued">> \in Seq(Outcomes)
  BY DEF Outcomes
<1>3. x \in Run /\ x.turns = <<"queued">> /\ x.tick = t
  BY <1>1, <1>2 DEF Run
<1>4. Len(runs) \in Nat /\ DOMAIN runs = 1..Len(runs)
  OBVIOUS
<1>5. PICK D : D = Displaced
  OBVIOUS
<1>6. D \in Seq(Run) /\ Len(D) = Len(runs) /\ DOMAIN D = DOMAIN runs
  BY <1>5, DisplacedRuns
<1>7. runs' = Append(D, x)
  BY <1>1, <1>5
<1>8. runs' \in Seq(Run) /\ Len(runs') = Len(runs) + 1 /\ runs'[Len(runs) + 1] = x /\ \A d \in 1..Len(runs) : runs'[d] = D[d]
  <2>1. Append(D, x) \in Seq(Run) /\ Len(Append(D, x)) = Len(D) + 1 /\ Append(D, x)[Len(D) + 1] = x
        /\ \A d \in 1..Len(D) : Append(D, x)[d] = D[d]
    BY <1>3, <1>6, AppendProperties
  <2> QED
    BY <1>6, <1>7, <2>1
<1>9. DOMAIN runs' = 1..Len(runs) + 1
  BY <1>4, <1>8
<1>10. Num(runs', Len(runs) + 1) = 1 /\ How(runs', Len(runs) + 1) = "queued" /\ runs'[Len(runs) + 1].tick <= tick
  BY <1>3, <1>8 DEF Num, How
<1>11. \A d \in DOMAIN runs : Num(runs', d) = Num(D, d) /\ How(runs', d) = How(D, d) /\ runs'[d].tick = D[d].tick
  BY <1>4, <1>8 DEF Num, How
<1>12. \A d \in DOMAIN runs : Num(D, d) = Num(runs, d) /\ D[d].tick = runs[d].tick
                              /\ How(D, d) = IF How(runs, d) = "queued" THEN "cancelled" ELSE How(runs, d)
  BY <1>5, DisplacedRuns
<1>13. Len(runs) + 1 \notin DOMAIN runs
  BY <1>4
<1>14. DOMAIN runs' = DOMAIN runs \cup {Len(runs) + 1} /\ DOMAIN runs \ {Len(runs) + 1} = DOMAIN runs
  BY <1>4, <1>9
<1>15. Num(runs', Len(runs) + 1) = 0 + 1
  BY <1>10
<1>16. runs' \in Seq(Run)
  BY <1>8
<1> QED
  BY <1>10, <1>11, <1>12, <1>13, <1>14, <1>15, <1>16 DEF Queues

\* A run is queued again.
LEMMA QueuesAgain ==
  ASSUME runs \in Seq(Run), \A d \in DOMAIN runs : Num(runs, d) # 0, NEW r \in DOMAIN runs, tick \in Nat,
         How(runs, r) \notin {"queued", "executing"}, runs[r].tick <= tick,
         runs' = [Displaced EXCEPT ![r].turns = Append(@, "queued")]
  PROVE  Queues(runs, runs', r, tick)
<1>1. PICK D : D = Displaced
  OBVIOUS
<1>2. D \in Seq(Run) /\ Len(D) = Len(runs) /\ DOMAIN D = DOMAIN runs /\ D[r] = runs[r]
  BY <1>1, DisplacedRuns
<1>3. runs[r] \in Run /\ runs[r].turns \in Seq(Outcomes) /\ Len(runs) \in Nat /\ DOMAIN runs = 1..Len(runs)
  BY RunParts
<1>4. PICK v : v = Append(runs[r].turns, "queued")
  OBVIOUS
<1>5. v \in Seq(Outcomes) /\ Len(v) = Num(runs, r) + 1 /\ v[Num(runs, r) + 1] = "queued"
  BY <1>3, <1>4, AppendProperties DEF Outcomes, Num
<1>6. PICK x : x = [runs[r] EXCEPT !.turns = v]
  OBVIOUS
<1>7. x \in Run /\ x.turns = v /\ x.tick = runs[r].tick
  BY <1>3, <1>5, <1>6 DEF Run
<1>8. runs' = [D EXCEPT ![r] = x]
  BY <1>1, <1>2, <1>3, <1>4, <1>6 DEF Run
<1>9. runs' \in Seq(Run) /\ Len(runs') = Len(runs) /\ \A d \in 1..Len(runs) : runs'[d] = IF d = r THEN x ELSE D[d]
  <2>1. r \in 1..Len(D)
    BY <1>2, <1>3
  <2>2. [D EXCEPT ![r] = x] \in Seq(Run) /\ Len([D EXCEPT ![r] = x]) = Len(D)
        /\ \A j \in 1..Len(D) : [D EXCEPT ![r] = x][j] = IF j = r THEN x ELSE D[j]
    BY <1>2, <1>7, <2>1, ExceptSeq
  <2> QED
    BY <1>2, <1>8, <2>2
<1>10. DOMAIN runs' = DOMAIN runs
  BY <1>3, <1>9
<1>11. Num(runs', r) = Num(runs, r) + 1 /\ How(runs', r) = "queued" /\ runs'[r].tick <= tick
  BY <1>3, <1>5, <1>7, <1>9 DEF Num, How
<1>12. \A d \in DOMAIN runs \ {r} : Num(runs', d) = Num(D, d) /\ How(runs', d) = How(D, d) /\ runs'[d].tick = D[d].tick
  BY <1>3, <1>9 DEF Num, How
<1>13. \A d \in DOMAIN runs : Num(D, d) = Num(runs, d) /\ D[d].tick = runs[d].tick
                              /\ How(D, d) = IF How(runs, d) = "queued" THEN "cancelled" ELSE How(runs, d)
  BY <1>1, DisplacedRuns
<1> QED
  BY <1>9, <1>10, <1>11, <1>12, <1>13 DEF Queues

\* What an artifact of a sequence of them is made of.
LEMMA ArtifactParts ==
  ASSUME NEW A \in Seq(Artifact), NEW i \in DOMAIN A
  PROVE  /\ Len(A) \in Nat /\ DOMAIN A = 1..Len(A) /\ A[i] \in Artifact /\ A[i].run \in Nat /\ A[i].attempt \in Nat
         /\ A[i].phase \in Nat /\ A[i].state \in Checkpoint /\ A[i].state.pending \in Seq(Notice)
<1>1. A[i] \in Artifact
  OBVIOUS
<1>2. A[i].run \in Nat /\ A[i].attempt \in Nat /\ A[i].phase \in 0..2 /\ A[i].state \in Checkpoint
  BY <1>1 DEF Artifact
<1>3. A[i].state.pending \in Seq(Notice)
  BY <1>2 DEF Checkpoint
<1> QED
  BY <1>1, <1>2, <1>3

\* What the last artifact owes, when it has one notice at most.
LEMMA OwedOne ==
  ASSUME NEW A \in Seq(Artifact), A # <<>>, Len(Last(A).state.pending) <= 1, NEW m \in Seq(Notice)
  PROVE  /\ Len(A) \in DOMAIN A /\ Last(A) = A[Len(A)] /\ Last(A).state \in Checkpoint /\ Last(A).state.pending \in Seq(Notice)
         /\ OwedBy(A, m) = IF Last(A).state.pending = <<>> \/ Last(A).state.pending[1] \in Range(m) THEN <<>> ELSE Last(A).state.pending
<1>1. Len(A) \in DOMAIN A
  OBVIOUS
<1>2. Last(A) = A[Len(A)]
  BY DEF Last
<1>3. Last(A).state \in Checkpoint /\ Last(A).state.pending \in Seq(Notice)
  BY <1>1, <1>2, ArtifactParts
<1>4. PICK s : s = Last(A).state.pending
  OBVIOUS
<1>5. Unmailed(s, m) = IF s = <<>> \/ s[1] \in Range(m) THEN <<>> ELSE s
  BY <1>3, <1>4, UnmailedOne
<1>6. OwedBy(A, m) = Unmailed(s, m)
  BY <1>4 DEF OwedBy
<1> QED
  BY <1>1, <1>2, <1>3, <1>4, <1>5, <1>6

\* What is said stands when an attempt ends,
LEMMA HistoryEnds ==
  ASSUME NEW R \in Seq(Run), NEW S, NEW r \in DOMAIN R, NEW how, how \notin {"queued", "executing"}, Becomes(R, S, r, how),
         NEW t, NEW A, NEW m, NEW ag, NEW k, History(R, t, A, m, ag, k)
  PROVE  History(S, "none", A, m, ag, k)
<1>1. Placed(S, A)
  BY DEF History, Placed, Becomes
<1>2. Unstarted(S, "none", A)
  <2> SUFFICES ASSUME NEW i \in DOMAIN A, How(S, A[i].run) = "queued" PROVE A[i].attempt < Num(S, A[i].run)
    BY DEF Unstarted, NotStarted
  <2>1. A[i].run \in DOMAIN R /\ A[i].run # r
    BY DEF History, Placed, Becomes
  <2>2. NotStarted(R, t, A[i].run)
    BY <2>1 DEF Becomes, NotStarted
  <2> QED
    BY <2>1, <2>2 DEF History, Unstarted, Becomes
<1>3. ASSUME NEW n \in Ever(A) PROVE Given(S, "none", n.id)
  <2>1. Given(R, t, n.id)
    BY DEF History
  <2>2. "none" \notin Early
    BY DEF Early
  <2> QED
    BY <2>1, <2>2 DEF Given, Becomes
<1> QED
  BY <1>1, <1>2, <1>3 DEF History

\* when another is queued,
LEMMA HistoryQueues ==
  ASSUME NEW R \in Seq(Run), NEW S, NEW q, NEW t, NEW A \in Seq(Artifact), NEW m, NEW ag, NEW k, Queues(R, S, q, k),
         History(R, t, A, m, ag, k)
  PROVE  History(S, t, A, m, ag, k)
<1>1. ASSUME NEW r \in DOMAIN R
      PROVE  r \in DOMAIN S /\ Num(R, r) \in Nat /\ Num(S, r) = IF r = q THEN Num(R, r) + 1 ELSE Num(R, r)
  BY RunParts DEF Queues
<1>2. ASSUME NEW i \in DOMAIN A PROVE A[i].run \in DOMAIN R /\ A[i].attempt \in 1..Num(R, A[i].run)
  BY DEF History, Placed
<1>3. Placed(S, A)
  BY <1>1, <1>2 DEF Placed
<1>4. Unstarted(S, t, A)
  <2> SUFFICES ASSUME NEW i \in DOMAIN A, NotStarted(S, t, A[i].run) PROVE A[i].attempt < Num(S, A[i].run)
    BY DEF Unstarted
  <2>1. CASE A[i].run = q
    BY <1>1, <1>2, <2>1
  <2>2. CASE A[i].run # q
    <3>1. How(S, A[i].run) = IF How(R, A[i].run) = "queued" THEN "cancelled" ELSE How(R, A[i].run)
      BY <1>2, <2>2 DEF Queues
    <3>2. NotStarted(R, t, A[i].run)
      BY <3>1 DEF NotStarted
    <3> QED
      BY <1>1, <1>2, <2>2, <3>2 DEF History, Unstarted
  <2> QED
    BY <2>1, <2>2
<1>5. ASSUME NEW n \in Ever(A) PROVE Given(S, t, n.id)
  <2>1. Given(R, t, n.id)
    BY DEF History
  <2>2. PICK d, a : d = n.id[1] /\ a = n.id[2]
    OBVIOUS
  <2>3. d \in DOMAIN R /\ a \in 1..Num(R, d) /\ (a = Num(R, d) => How(R, d) # "queued" /\ (How(R, d) = "executing" => t \notin Early))
    BY <2>1, <2>2 DEF Given
  <2>4. d \in DOMAIN S /\ a \in 1..Num(S, d)
    BY <1>1, <2>3
  <2>5. ASSUME a = Num(S, d) PROVE How(S, d) # "queued" /\ (How(S, d) = "executing" => t \notin Early)
    <3>1. d # q
      BY <1>1, <2>3, <2>5
    <3>2. a = Num(R, d) /\ How(S, d) = IF How(R, d) = "queued" THEN "cancelled" ELSE How(R, d)
      BY <1>1, <2>3, <2>5, <3>1 DEF Queues
    <3> QED
      BY <2>3, <3>2
  <2> QED
    BY <2>2, <2>4, <2>5 DEF Given
<1> QED
  BY <1>3, <1>4, <1>5 DEF History

\* when it begins,
LEMMA HistoryBegins ==
  ASSUME NEW R \in Seq(Run), NEW S, NEW r \in DOMAIN R, Becomes(R, S, r, "executing"), How(R, r) = "queued",
         \A d \in DOMAIN R : How(R, d) # "executing",
         NEW t, NEW A, NEW m, NEW ag, NEW k, History(R, t, A, m, ag, k)
  PROVE  History(S, "select", A, m, ag, k)
<1>1. Placed(S, A)
  BY DEF History, Placed, Becomes
<1>2. Unstarted(S, "select", A)
  <2> SUFFICES ASSUME NEW i \in DOMAIN A, NotStarted(S, "select", A[i].run) PROVE A[i].attempt < Num(S, A[i].run)
    BY DEF Unstarted
  <2>1. A[i].run \in DOMAIN R
    BY DEF History, Placed
  <2>2. How(R, A[i].run) = "queued"
    BY <2>1 DEF Becomes, NotStarted
  <2> QED
    BY <2>1, <2>2 DEF History, Unstarted, NotStarted, Becomes
<1>3. ASSUME NEW n \in Ever(A) PROVE Given(S, "select", n.id)
  <2>1. Given(R, t, n.id)
    BY DEF History
  <2> QED
    BY <2>1 DEF Given, Becomes
<1> QED
  BY <1>1, <1>2, <1>3 DEF History

\* and when it goes on.
LEMMA HistorySteps ==
  ASSUME NEW R, NEW t, NEW u, u # "select", u \in Early => t \in Early, NEW A, NEW m, NEW ag, NEW k, History(R, t, A, m, ag, k)
  PROVE  History(R, u, A, m, ag, k)
<1>1. Unstarted(R, u, A)
  BY DEF History, Unstarted, NotStarted
<1>2. ASSUME NEW n \in Ever(A) PROVE Given(R, u, n.id)
  <2>1. Given(R, t, n.id)
    BY DEF History
  <2> QED
    BY <2>1 DEF Given
<1> QED
  BY <1>1, <1>2 DEF History

\* What was sent is not sent again.
Mailing(m, n) == IF n \in Range(m) THEN m ELSE Append(m, n)

\* The one notice that is pending is sent, if it was not before.
LEMMA HistorySends ==
  ASSUME NEW R, NEW t, NEW A \in Seq(Artifact), NEW m \in Seq(Notice), NEW ag, NEW k, History(R, t, A, m, ag, k),
         A # <<>>, Last(A).state.pending # <<>>, NEW v,
         v = Mailing(m, Last(A).state.pending[1])
  PROVE  v \in Seq(Notice) /\ History(R, t, A, v, ag, k) /\ OwedBy(A, v) = <<>> /\ Log(A, v) = Log(A, m)
<1>1. PICK s : s = Last(A).state.pending
  OBVIOUS
<1>2. s \in Seq(Notice) /\ Len(s) <= 1 /\ s # <<>> /\ Len(Last(A).state.pending) <= 1
  BY <1>1, ArtifactParts DEF History, OneNotice, Last
<1>3. s = <<s[1]>> /\ s[1] \in Notice
  BY <1>2, OneSeq
<1>4. OwedBy(A, m) = IF s[1] \in Range(m) THEN <<>> ELSE s
  BY <1>1, <1>2, OwedOne
<1>5. v \in Seq(Notice) /\ s[1] \in Range(v) /\ Log(A, v) = Log(A, m) /\ OwedBy(A, v) = <<>>
  <2>1. CASE s[1] \in Range(m)
    BY <1>1, <1>4, <2>1 DEF Log, Mailing
  <2>2. CASE s[1] \notin Range(m)
    <3>1. v = Append(m, s[1])
      BY <1>1, <2>2 DEF Mailing
    <3>2. v \in Seq(Notice) /\ v = m \o <<s[1]>> /\ Len(m) + 1 \in DOMAIN v /\ v[Len(m) + 1] = s[1]
      BY <1>3, <3>1, AppendIsConcat
    <3>3. s[1] \in Range(v)
      BY <3>2 DEF Range
    <3>4. OwedBy(A, v) = <<>>
      BY <1>1, <1>2, <3>2, <3>3, OwedOne
    <3>5. v \o <<>> = v
      BY <3>2, ConcatEmptySeq
    <3> QED
      BY <1>3, <1>4, <2>2, <3>2, <3>3, <3>4, <3>5 DEF Log
  <2> QED
    BY <2>1, <2>2
<1>6. History(R, t, A, v, ag, k)
  BY <1>5 DEF History
<1> QED
  BY <1>5, <1>6

\* B is A with x uploaded last.
Adds(A, x, B) == B = Append(A, x)

\* One artifact more.
LEMMA Appended ==
  ASSUME NEW A \in Seq(Artifact), NEW x \in Artifact, NEW B, Adds(A, x, B)
  PROVE  /\ B \in Seq(Artifact) /\ B # <<>> /\ Len(A) \in Nat /\ Len(B) = Len(A) + 1 /\ DOMAIN A = 1..Len(A) /\ DOMAIN B = 1..Len(A) + 1
         /\ Last(B) = x /\ B[Len(A) + 1] = x /\ \A i \in DOMAIN A : i # Len(A) + 1 /\ B[i] = A[i]
         /\ Ever(B) = Ever(A) \cup Range(x.state.pending)
<1>1. /\ B \in Seq(Artifact) /\ B # <<>> /\ Len(A) \in Nat /\ Len(B) = Len(A) + 1 /\ DOMAIN A = 1..Len(A) /\ DOMAIN B = 1..Len(A) + 1
      /\ B[Len(A) + 1] = x /\ \A i \in DOMAIN A : i # Len(A) + 1 /\ B[i] = A[i]
  BY AppendProperties DEF Adds
<1>2. Last(B) = x
  BY <1>1 DEF Last
<1>3. DOMAIN B = DOMAIN A \cup {Len(A) + 1}
  BY <1>1
<1>4. \A n : n \in Ever(B) <=> \E i \in DOMAIN B : n \in Range(B[i].state.pending)
  BY DEF Ever
<1>5. \A n : n \in Ever(A) <=> \E i \in DOMAIN A : n \in Range(A[i].state.pending)
  BY DEF Ever
<1>6. Ever(B) = Ever(A) \cup Range(x.state.pending)
  <2>1. ASSUME NEW n \in Ever(B) PROVE n \in Ever(A) \/ n \in Range(x.state.pending)
    BY <1>1, <1>3, <1>4, <1>5, <2>1
  <2>2. ASSUME NEW n \in Ever(A) PROVE n \in Ever(B)
    <3>1. PICK i \in DOMAIN A : n \in Range(A[i].state.pending)
      BY <1>5
    <3>2. i \in DOMAIN B /\ B[i] = A[i]
      BY <1>1, <1>3
    <3> QED
      BY <1>4, <3>1, <3>2
  <2>3. ASSUME NEW n \in Range(x.state.pending) PROVE n \in Ever(B)
    BY <1>1, <1>3, <1>4
  <2> QED
    BY <2>1, <2>2, <2>3
<1> QED
  BY <1>1, <1>2, <1>6

\* An attempt that uploads keeps the order of attempts and phases.
LEMMA UploadsInOrder ==
  ASSUME NEW R \in Seq(Run), NEW A \in Seq(Artifact), NEW t, t # "select", Placed(R, A), Ordered(A), Unstarted(R, t, A),
         NEW r \in DOMAIN R, How(R, r) = "executing", Num(R, r) # 0, NEW x \in Artifact, x.run = r, x.attempt = Num(R, r),
         ComesLast(A, r, Num(R, r), x.phase), NEW B, Adds(A, x, B), NEW p \in Nat, x.phase < p
  PROVE  Placed(R, B) /\ Ordered(B) /\ Unstarted(R, t, B) /\ ComesLast(B, r, Num(R, r), p)
<1>1. /\ Len(A) \in Nat /\ DOMAIN A = 1..Len(A) /\ DOMAIN B = 1..Len(A) + 1
      /\ B[Len(A) + 1] = x /\ \A i \in DOMAIN A : B[i] = A[i]
  BY Appended
<1>2. \A i \in DOMAIN B : i \in DOMAIN A \/ (i = Len(A) + 1 /\ i \notin DOMAIN A)
  BY <1>1
<1>3. Num(R, r) \in Nat /\ r \in Nat /\ x.phase \in Nat
  BY RunParts DEF Artifact
<1>4. Placed(R, B)
  BY <1>1, <1>2, <1>3 DEF Placed
<1>5. ASSUME NEW i \in DOMAIN A
      PROVE  \/ A[i].run < r
             \/ A[i].run = r /\ A[i].attempt < Num(R, r)
             \/ A[i].run = r /\ A[i].attempt = Num(R, r) /\ A[i].phase < x.phase
  BY DEF ComesLast, Earlier
<1>6. Ordered(B)
  <2> SUFFICES ASSUME NEW i \in DOMAIN B, NEW j \in DOMAIN B, i < j PROVE Earlier(B[i], B[j])
    BY DEF Ordered
  <2>1. CASE j \in DOMAIN A
    BY <1>1, <2>1 DEF Ordered
  <2>2. CASE j = Len(A) + 1
    <3>1. i \in DOMAIN A /\ B[i] = A[i] /\ B[j] = x
      BY <1>1, <2>2
    <3> QED
      BY <1>5, <3>1 DEF Earlier
  <2> QED
    BY <1>2, <2>1, <2>2
<1>7. ~NotStarted(R, t, r)
  BY DEF NotStarted
<1>8. Unstarted(R, t, B)
  BY <1>1, <1>2, <1>7 DEF Unstarted
<1>9. ComesLast(B, r, Num(R, r), p)
  <2> SUFFICES ASSUME NEW i \in DOMAIN B
               PROVE  \/ B[i].run < r
                      \/ B[i].run = r /\ B[i].attempt < Num(R, r)
                      \/ B[i].run = r /\ B[i].attempt = Num(R, r) /\ B[i].phase < p
    BY DEF ComesLast, Earlier
  <2>1. CASE i \in DOMAIN A
    <3>1. B[i] = A[i] /\ A[i].phase \in Nat
      BY <1>1, <2>1, ArtifactParts
    <3> QED
      BY <1>3, <1>5, <2>1, <3>1
  <2>2. CASE i = Len(A) + 1
    BY <1>1, <1>3, <2>2
  <2> QED
    BY <1>2, <2>1, <2>2
<1> QED
  BY <1>4, <1>6, <1>8, <1>9

\* A checkpoint that says what is said already, or one notice more, may be uploaded.
LEMMA HistoryUploads ==
  ASSUME NEW R \in Seq(Run), NEW A \in Seq(Artifact), NEW m \in Seq(Notice), NEW ag, NEW k,
         NEW t \in {"resume", "prepare", "finish"}, History(R, t, A, m, ag, k),
         NEW r \in DOMAIN R, How(R, r) = "executing", Num(R, r) # 0, NEW x \in Artifact, x.run = r, x.attempt = Num(R, r),
         ComesLast(A, r, Num(R, r), x.phase), NEW B, Adds(A, x, B),
         OneNotice(x.state), x.state.at <= k,
         Fits(x.state, R, t, A, m)
  PROVE  History(R, t, B, m, ag, k) /\ Says(x.state, Log(B, m)) /\ (x.state.pending = <<>> => OwedBy(B, m) = <<>>)
<1>1. PICK s : s = x.state.pending
  OBVIOUS
<1>2. s \in Seq(Notice) /\ Len(s) <= 1
  BY <1>1 DEF Artifact, Checkpoint, OneNotice
<1>3. B \in Seq(Artifact) /\ B # <<>> /\ Last(B) = x /\ Ever(B) = Ever(A) \cup Range(s)
  <2>1. B \in Seq(Artifact) /\ B # <<>> /\ Last(B) = x /\ Ever(B) = Ever(A) \cup Range(x.state.pending)
    BY Appended
  <2> QED
    BY <1>1, <2>1
<1>4. Placed(R, B) /\ Ordered(B) /\ Unstarted(R, t, B)
  <2>1. x.phase \in Nat /\ x.phase < x.phase + 1 /\ x.phase + 1 \in Nat
    BY DEF Artifact
  <2> QED
    BY <2>1, UploadsInOrder DEF History
<1>5. OwedBy(B, m) = IF s = <<>> \/ s[1] \in Range(m) THEN <<>> ELSE s
  BY <1>1, <1>2, <1>3, OwedOne
<1>6. CASE t = "resume"
  <2>1. A # <<>> /\ s = Last(A).state.pending /\ Says(x.state, Log(A, m))
    BY <1>1, <1>6 DEF Same, Fits
  <2>2. OwedBy(B, m) = OwedBy(A, m)
    BY <1>2, <1>5, <2>1, OwedOne
  <2>3. Range(s) \subseteq Ever(A)
    <3>1. Len(A) \in DOMAIN A /\ Last(A) = A[Len(A)]
      BY <1>2, <2>1, OwedOne
    <3> QED
      BY <2>1, <3>1 DEF Ever
  <2>4. Ever(B) = Ever(A) /\ Log(B, m) = Log(A, m)
    BY <1>3, <2>2, <2>3 DEF Log
  <2> QED
    BY <1>1, <1>3, <1>4, <1>5, <2>1, <2>4 DEF History
<1>7. CASE t = "finish"
  <2>1. s = <<>> /\ Says(x.state, Log(A, m)) /\ OwedBy(A, m) = <<>>
    BY <1>1, <1>7 DEF Same, Fits
  <2>2. Range(s) = {}
    BY <2>1 DEF Range
  <2>3. Ever(B) = Ever(A) /\ Log(B, m) = Log(A, m) /\ OwedBy(B, m) = <<>>
    BY <1>3, <1>5, <2>1, <2>2 DEF Log
  <2> QED
    BY <1>3, <1>4, <2>1, <2>3 DEF History
<1>8. CASE t = "prepare"
  <2>1. OwedBy(A, m) = <<>> /\ Alternate(m \o s) /\ Says(x.state, m \o s) /\ \A n \in Range(s) : Given(R, t, n.id)
    BY <1>1, <1>8 DEF Ahead, Fits
  <2>2. s # <<>> => s[1] \notin Range(m)
    <3> SUFFICES ASSUME s # <<>> PROVE s[1] \notin Range(m)
      OBVIOUS
    <3>1. s = <<s[1]>> /\ s[1] \in Notice
      BY <1>2, OneSeq
    <3>2. PICK n \in Notice : n = s[1]
      BY <3>1
    <3>3. Alternate(m \o <<n>>)
      BY <2>1, <3>1, <3>2
    <3> QED
      BY <3>2, <3>3, FreshLast
  <2>3. OwedBy(B, m) = s
    BY <1>5, <2>2
  <2>4. Log(B, m) = m \o s
    BY <2>3 DEF Log
  <2>5. Log(A, m) = m
    BY <2>1, ConcatEmptySeq DEF Log
  <2>6. Range(m \o s) = Range(m) \cup Range(s)
    <3>1. PICK u : u = m \o s
      OBVIOUS
    <3>2. Len(m) \in Nat /\ Len(s) \in Nat /\ DOMAIN m = 1..Len(m) /\ DOMAIN s = 1..Len(s) /\ DOMAIN u = 1..Len(m) + Len(s)
          /\ \A i \in 1..Len(m) + Len(s) : u[i] = IF i <= Len(m) THEN m[i] ELSE s[i - Len(m)]
      BY <1>2, <3>1, ConcatProperties
    <3>3. ASSUME NEW n \in Range(u) PROVE n \in Range(m) \cup Range(s)
      <4>1. PICK i \in DOMAIN u : n = u[i]
        BY DEF Range
      <4>2. CASE i <= Len(m)
        BY <3>2, <4>1, <4>2 DEF Range
      <4>3. CASE ~(i <= Len(m))
        <5>1. i - Len(m) \in DOMAIN s /\ n = s[i - Len(m)]
          BY <3>2, <4>1, <4>3
        <5> QED
          BY <5>1 DEF Range
      <4> QED
        BY <4>2, <4>3
    <3>4. ASSUME NEW n \in Range(m) PROVE n \in Range(u)
      <4>1. PICK i \in DOMAIN m : n = m[i]
        BY DEF Range
      <4>2. i \in DOMAIN u /\ u[i] = n
        BY <3>2, <4>1
      <4> QED
        BY <4>2 DEF Range
    <3>5. ASSUME NEW n \in Range(s) PROVE n \in Range(u)
      <4>1. PICK i \in DOMAIN s : n = s[i]
        BY DEF Range
      <4>2. Len(m) + i \in DOMAIN u /\ u[Len(m) + i] = n
        BY <3>2, <4>1
      <4> QED
        BY <4>2 DEF Range
    <3>6. Range(u) = Range(m) \cup Range(s)
      BY <3>3, <3>4, <3>5
    <3> QED
      BY <3>1, <3>6
  <2>7. Ever(A) = Range(m)
    BY <2>5 DEF History
  <2>8. Ever(B) = Range(Log(B, m))
    BY <1>3, <2>4, <2>6, <2>7
  <2>9. \A n \in Ever(B) : Given(R, t, n.id)
    BY <1>3, <2>1 DEF History
  <2>10. ag \subseteq Ever(B)
    BY <1>3 DEF History
  <2> QED
    BY <1>1, <1>3, <1>4, <2>1, <2>3, <2>4, <2>8, <2>9, <2>10 DEF History
<1> QED
  BY <1>6, <1>7, <1>8

\* What an observation makes of a checkpoint whose notices were all sent.
LEMMA Advances ==
  ASSUME TypesInv, RunsInv, History(runs, "observe", artifacts, mailed, aged, tick), Same(file, "observe", artifacts, mailed),
         OneNotice(file), file.at <= tick,
         NEW r \in DOMAIN runs, How(runs, r) = "executing", NEW down \in BOOLEAN, NEW trouble \in BOOLEAN,
         NEW c \in {file, Advanced(r, down, trouble)}
  PROVE  c \in Checkpoint /\ OneNotice(c) /\ c.at <= tick /\ Ahead(c, runs, "prepare", artifacts, mailed)
<1>1. mailed \in Seq(Notice) /\ file \in Checkpoint /\ file.pending = <<>> /\ OwedBy(artifacts, mailed) = <<>> /\ Len(mailed) \in Nat
      /\ tick \in Nat
  BY DEF TypesInv, Same
<1>2. Log(artifacts, mailed) = mailed
  BY <1>1, ConcatEmptySeq DEF Log
<1>3. Says(file, mailed) /\ Alternate(mailed) /\ Ever(artifacts) = Range(mailed)
  BY <1>2 DEF Same, History
<1>4. mailed \o <<>> = mailed /\ Range(<<>>) = {}
  BY <1>1, ConcatEmptySeq DEF Range
<1>5. Num(runs, r) \in 1..Num(runs, r) /\ r \in Nat /\ Num(runs, r) \in Nat
  BY RunParts DEF TypesInv, RunsInv
<1>6. CASE c = file
  BY <1>1, <1>3, <1>4, <1>6 DEF Ahead
<1>7. CASE c = Advanced(r, down, trouble)
  <2> DEFINE failures == IF ~down THEN 0 ELSE IF file.failures < Threshold THEN file.failures + 1 ELSE Threshold
             opens == file.incident = NoIncident /\ (failures >= Threshold \/ trouble)
             closes == file.incident # NoIncident /\ ~down /\ ~trouble
  <2>1. PICK id : id = <<r, Num(runs, r)>>
    OBVIOUS
  <2>2. id \in Nat \X Nat /\ id # NoIncident /\ id[1] = r /\ id[2] = Num(runs, r)
    BY <1>5, <2>1 DEF NoIncident
  <2>3. Turns(r) = Num(runs, r)
    BY RunWords
  <2>4. file.failures \in 0..Threshold /\ file.incident \in Nat \X Nat /\ Threshold \in Nat
    BY <1>1, MonitorAssumption DEF Checkpoint
  <2>5. failures \in 0..Threshold
    BY <2>4
  <2>6. Given(runs, "prepare", id)
    BY <1>5, <2>2 DEF Given, Early
  <2>7. ASSUME NEW n \in Range(mailed) PROVE n.id # id /\ Given(runs, "prepare", n.id)
    <3>1. Given(runs, "observe", n.id)
      BY <1>3 DEF History
    <3>2. "observe" \in Early
      BY DEF Early
    <3> QED
      BY <2>2, <3>1, <3>2 DEF Given
  <2>8. ASSUME NEW n \in Notice, n = IF opens THEN [id |-> id, kind |-> "incident"] ELSE [id |-> file.incident, kind |-> "recovery"],
               opens \/ closes
        PROVE  Alternate(mailed \o <<n>>) /\ Given(runs, "prepare", n.id)
    <3>1. CASE opens
      <4>1. Len(mailed) % 2 # 1
        <5> SUFFICES ASSUME Len(mailed) % 2 = 1 PROVE FALSE
          OBVIOUS
        <5>1. file.incident = mailed[Len(mailed)].id /\ Len(mailed) \in DOMAIN mailed
          BY <1>1, <1>3 DEF Says
        <5>2. mailed[Len(mailed)] \in Range(mailed)
          BY <5>1 DEF Range
        <5>3. Given(runs, "observe", NoIncident)
          BY <1>3, <3>1, <5>1, <5>2 DEF History
        <5> QED
          BY <5>3, RunParts DEF Given, NoIncident, TypesInv
      <4>2. Len(mailed) % 2 = 0
        BY <1>1, <4>1
      <4>3. n.kind = "incident" /\ n.id = id
        BY <2>8, <3>1
      <4>4. \A i \in 1..Len(mailed) : mailed[i].id # n.id
        BY <1>1, <2>7, <4>3 DEF Range
      <4> HIDE DEF opens, closes, failures
      <4> QED
        BY <1>1, <1>3, <2>6, <4>2, <4>3, <4>4, OneMore
    <3>2. CASE ~opens
      <4>1. file.incident # NoIncident /\ n = [id |-> file.incident, kind |-> "recovery"]
        BY <2>8, <3>2
      <4>2. Len(mailed) % 2 # 0 /\ file.incident = mailed[Len(mailed)].id /\ Len(mailed) \in DOMAIN mailed
        BY <1>1, <1>3, <4>1 DEF Says
      <4>3. n = [id |-> mailed[Len(mailed)].id, kind |-> "recovery"]
        BY <4>1, <4>2
      <4>4. Given(runs, "prepare", n.id)
        BY <2>7, <4>2, <4>3 DEF Range
      <4> HIDE DEF opens, closes, failures
      <4> QED
        BY <1>1, <1>3, <4>2, <4>3, <4>4, OneMore
    <3> QED
      BY <3>1, <3>2
  <2>9. CASE opens
    <3>1. PICK n : n = [id |-> id, kind |-> "incident"]
      OBVIOUS
    <3>2. n \in Notice /\ n.id = id
      BY <2>2, <3>1 DEF Notice
    <3>3. c = [failures |-> failures, seen |-> TRUE, at |-> tick, incident |-> id, pending |-> Append(file.pending, n)]
      BY <1>7, <2>1, <2>3, <2>9, <3>1 DEF Advanced
    <3>4. Append(file.pending, n) = <<n>> /\ <<n>> \in Seq(Notice)
      BY <1>1, <3>2
    <3>5. c.pending = <<n>> /\ c.incident = id /\ c.at = tick /\ c \in Checkpoint
      BY <1>1, <2>2, <2>5, <3>3, <3>4 DEF Checkpoint
    <3>6. Alternate(mailed \o <<n>>) /\ Given(runs, "prepare", n.id)
      BY <2>8, <2>9, <3>1, <3>2
    <3>7. Says(c, mailed \o <<n>>)
      <4>1. PICK u : u = mailed \o <<n>>
        OBVIOUS
      <4>2. Len(u) = Len(mailed) + 1 /\ u[Len(mailed) + 1] = n
        BY <1>1, <3>2, <4>1
      <4>3. Len(mailed) % 2 # 1
        <5>1. NoIncident = (IF Len(mailed) % 2 = 1 THEN mailed[Len(mailed)].id ELSE NoIncident)
          BY <1>3, <2>9 DEF Says
        <5> SUFFICES ASSUME Len(mailed) % 2 = 1 PROVE FALSE
          OBVIOUS
        <5>2. NoIncident = mailed[Len(mailed)].id /\ Len(mailed) \in DOMAIN mailed
          BY <1>1, <5>1
        <5>3. mailed[Len(mailed)] \in Range(mailed)
          BY <5>2 DEF Range
        <5>4. Given(runs, "prepare", NoIncident)
          BY <2>7, <5>2, <5>3
        <5> QED
          BY <5>4, RunParts DEF Given, NoIncident, TypesInv
      <4>4. (Len(mailed) + 1) % 2 = 1
        BY <1>1, <4>3
      <4>5. Says(c, u)
        BY <3>2, <3>5, <4>2, <4>4 DEF Says
      <4> QED
        BY <4>1, <4>5
    <3>8. OneNotice(c)
      BY <3>1, <3>2, <3>5 DEF OneNotice
    <3>9. \A x \in Range(<<n>>) : x = n
      BY DEF Range
    <3> QED
      BY <1>1, <3>5, <3>6, <3>7, <3>8, <3>9 DEF Ahead
  <2>10. CASE ~opens /\ closes
    <3>1. PICK n : n = [id |-> file.incident, kind |-> "recovery"]
      OBVIOUS
    <3>2. n \in Notice
      BY <2>4, <3>1 DEF Notice
    <3>3. c = [failures |-> failures, seen |-> TRUE, at |-> tick, incident |-> NoIncident, pending |-> Append(file.pending, n)]
      BY <1>7, <2>1, <2>3, <2>10, <3>1 DEF Advanced
    <3>4. Append(file.pending, n) = <<n>> /\ <<n>> \in Seq(Notice)
      BY <1>1, <3>2
    <3>5. c.pending = <<n>> /\ c.incident = NoIncident /\ c.at = tick /\ c \in Checkpoint
      BY <1>1, <2>5, <3>3, <3>4 DEF Checkpoint, NoIncident
    <3>6. Alternate(mailed \o <<n>>) /\ Given(runs, "prepare", n.id)
      BY <2>8, <2>10, <3>1, <3>2
    <3>7. Says(c, mailed \o <<n>>)
      <4>1. PICK u : u = mailed \o <<n>>
        OBVIOUS
      <4>2. Len(u) = Len(mailed) + 1
        BY <1>1, <3>2, <4>1
      <4>3. Len(mailed) % 2 = 1
        BY <1>3, <2>10 DEF Says
      <4>4. (Len(mailed) + 1) % 2 # 1
        BY <1>1, <4>3
      <4>5. Says(c, u)
        BY <3>5, <4>2, <4>4 DEF Says
      <4> QED
        BY <4>1, <4>5
    <3>8. OneNotice(c)
      BY <3>5 DEF OneNotice
    <3>9. \A x \in Range(<<n>>) : x = n
      BY DEF Range
    <3> QED
      BY <1>1, <3>5, <3>6, <3>7, <3>8, <3>9 DEF Ahead
  <2>11. CASE ~opens /\ ~closes
    <3>1. c = [failures |-> failures, seen |-> TRUE, at |-> tick, incident |-> file.incident, pending |-> file.pending]
      BY <1>7, <2>1, <2>3, <2>11 DEF Advanced
    <3>2. c.pending = <<>> /\ c.incident = file.incident /\ c.at = tick /\ c \in Checkpoint
      BY <1>1, <2>4, <2>5, <3>1 DEF Checkpoint
    <3>3. Says(c, mailed)
      BY <1>3, <3>2 DEF Says
    <3>4. OneNotice(c)
      BY <3>2 DEF OneNotice
    <3> QED
      BY <1>1, <1>3, <1>4, <3>2, <3>3, <3>4 DEF Ahead
  <2> QED
    BY <2>9, <2>10, <2>11
<1> QED
  BY <1>6, <1>7

\* The highest attempt's latest phase is the upload made last, if that is of this run.
LEMMA TheLatest ==
  ASSUME artifacts \in Seq(Artifact), Ordered(artifacts), artifacts # <<>>, NEW r, NEW a,
         artifacts[Len(artifacts)].run = r, artifacts[Len(artifacts)].attempt <= a
  PROVE  Authoritative(r, a) = Len(artifacts)
<1>1. PICK l : l = Len(artifacts)
  OBVIOUS
<1>2. l \in DOMAIN artifacts /\ \A i \in DOMAIN artifacts : i = l \/ i < l
  BY <1>1
<1>3. l \in Uploaded(r, a)
  BY <1>1, <1>2 DEF Uploaded
<1>4. ASSUME NEW i \in Uploaded(r, a), i # l
      PROVE  \/ artifacts[l].attempt > artifacts[i].attempt
             \/ artifacts[l].attempt = artifacts[i].attempt /\ artifacts[l].phase > artifacts[i].phase
  <2>1. i \in DOMAIN artifacts /\ i < l /\ artifacts[i].run = artifacts[l].run
    BY <1>1, <1>2, <1>4 DEF Uploaded
  <2>2. Earlier(artifacts[i], artifacts[l])
    BY <1>2, <2>1 DEF Ordered
  <2>3. artifacts[i].run \in Nat /\ artifacts[i].attempt \in Nat /\ artifacts[i].phase \in Nat
    BY <2>1, ArtifactParts
  <2>4. artifacts[l].run \in Nat /\ artifacts[l].attempt \in Nat /\ artifacts[l].phase \in Nat
    BY <1>2, ArtifactParts
  <2> QED
    BY <2>1, <2>2, <2>3, <2>4 DEF Earlier
<1> DEFINE Highest(i) == \A j \in Uploaded(r, a) :
    \/ artifacts[i].attempt > artifacts[j].attempt
    \/ artifacts[i].attempt = artifacts[j].attempt /\ artifacts[i].phase >= artifacts[j].phase
<1>5. \A i \in Uploaded(r, a) : artifacts[i].attempt \in Nat /\ artifacts[i].phase \in Nat
  BY ArtifactParts DEF Uploaded
<1>6. Highest(l)
  BY <1>3, <1>4, <1>5
<1>7. ASSUME NEW i \in Uploaded(r, a), Highest(i) PROVE i = l
  BY <1>3, <1>4, <1>5, <1>7
<1>8. Authoritative(r, a) = CHOOSE i \in Uploaded(r, a) : Highest(i)
  BY DEF Authoritative
<1> HIDE DEF Highest
<1> QED
  BY <1>1, <1>3, <1>6, <1>7, <1>8

\* An attempt of the newest run goes on from the upload made last.
LEMMA GoesOnFromTheLast ==
  ASSUME TypesInv, RunsInv, History(runs, "select", artifacts, mailed, aged, tick), turn = "select",
         NEW r \in DOMAIN runs, How(runs, r) = "executing", ~Newer(r), NEW c \in Checkpoints(r)
  PROVE  artifacts # <<>> /\ c = Last(artifacts).state
<1>1. PICK p \in Predecessor(r) : Uploaded(p[1], p[2]) # {} /\ c = artifacts[Authoritative(p[1], p[2])].state
  BY DEF Checkpoints
<1>2. PICK i \in DOMAIN artifacts : artifacts[i].run = p[1] /\ artifacts[i].attempt <= p[2]
  BY <1>1 DEF Uploaded
<1>3. artifacts \in Seq(Artifact) /\ runs \in Seq(Run) /\ artifacts # <<>>
  BY <1>2 DEF TypesInv
<1>4. PICK l : l = Len(artifacts)
  OBVIOUS
<1>5. l \in DOMAIN artifacts /\ (i = l \/ i < l)
  BY <1>3, <1>4
<1>6. PICK x : x = artifacts[l]
  OBVIOUS
<1>7. PICK y : y = artifacts[i]
  OBVIOUS
<1>8. x.run \in DOMAIN runs /\ x.attempt \in 1..Num(runs, x.run) /\ (i = l => x = y) /\ (i < l => Earlier(y, x))
  BY <1>2, <1>5, <1>6, <1>7 DEF History, Placed, Ordered
<1>9. x.run \in Nat /\ y.run \in Nat /\ x.attempt \in Nat /\ y.attempt \in Nat
  BY <1>2, <1>3, <1>5, <1>6, <1>7, ArtifactParts
<1>10. y.run <= x.run
  BY <1>5, <1>8, <1>9 DEF Earlier
<1>11. DOMAIN runs = 1..Len(runs) /\ Len(runs) \in Nat /\ r = Len(runs)
  BY <1>3 DEF Newer
<1>12. x.run <= r
  BY <1>8, <1>11
<1>13. Num(runs, r) \in Nat /\ Turns(r) = Num(runs, r) /\ Num(runs, r) # 0 /\ Num(runs, x.run) \in Nat
  BY <1>3, <1>8, RunParts, RunWords DEF RunsInv
<1>14. x.run = r => x.attempt < Num(runs, r)
  BY <1>5, <1>6 DEF History, Unstarted, NotStarted
<1>15. x.run = p[1] /\ x.attempt <= p[2]
  <2>1. CASE Turns(r) > 1
    <3>1. p = <<r, Turns(r) - 1>>
      BY <2>1 DEF Predecessor
    <3>2. p[1] = r /\ p[2] = Num(runs, r) - 1
      BY <1>13, <3>1
    <3> QED
      BY <1>2, <1>7, <1>9, <1>10, <1>11, <1>12, <1>13, <1>14, <3>2
  <2>2. CASE ~(Turns(r) > 1)
    <3>1. Num(runs, r) = 1
      BY <1>13, <2>2
    <3>2. x.run # r
      BY <1>8, <1>9, <1>14, <3>1
    <3> DEFINE before == {c0 \in 1..r - 1 : ~PassedOver(c0)}
    <3>3. PICK b \in before : (\A d \in before : d <= b) /\ p = <<b, Turns(b)>>
      BY <2>2 DEF Predecessor
    <3>4. x.run \in 1..r - 1
      BY <1>8, <1>11, <1>12, <3>2
    <3>5. ~PassedOver(x.run)
      <4> SUFFICES ASSUME PassedOver(x.run) PROVE FALSE
        OBVIOUS
      <4>1. Num(runs, x.run) = 1 /\ Uploaded(x.run, 1) = {}
        BY RunWords DEF PassedOver
      <4>2. x.attempt <= 1
        BY <1>8, <1>9, <4>1
      <4> QED
        BY <1>5, <1>6, <4>1, <4>2 DEF Uploaded
    <3>6. x.run <= b
      BY <3>3, <3>4, <3>5
    <3>7. p[1] = b /\ p[2] = Num(runs, b)
      BY <3>3, RunWords
    <3>8. b \in Nat
      BY <1>11, <3>3
    <3>9. x.run = b
      BY <1>2, <1>7, <1>9, <1>10, <3>6, <3>7, <3>8
    <3> QED
      BY <1>8, <1>9, <1>13, <3>7, <3>9
  <2> QED
    BY <2>1, <2>2
<1>16. Authoritative(p[1], p[2]) = l
  BY <1>3, <1>4, <1>6, <1>15, TheLatest DEF History
<1> QED
  BY <1>1, <1>3, <1>4, <1>16 DEF Last

\* The order of the steps.
LEMMA NextStages ==
  /\ After("resume") = "retry" /\ After("retry") = "observe" /\ After("observe") = "prepare"
  /\ After("prepare") = "deliver" /\ After("deliver") = "finish"
<1>1. Stages[1] = "resume" /\ Stages[2] = "retry" /\ Stages[3] = "observe" /\ Stages[4] = "prepare"
      /\ Stages[5] = "deliver" /\ Stages[6] = "finish"
  BY DEF Stages
<1>2. \A n \in 2..6 : n = 2 \/ n = 3 \/ n = 4 \/ n = 5 \/ n = 6
  OBVIOUS
<1>3. 2 - 1 = 1 /\ 3 - 1 = 2 /\ 4 - 1 = 3 /\ 5 - 1 = 4 /\ 6 - 1 = 5
  OBVIOUS
<1>4. ASSUME NEW k \in 2..6 PROVE After(Stages[k - 1]) = Stages[k]
  <2>1. PICK n : n = CHOOSE j \in 2..6 : Stages[j - 1] = Stages[k - 1]
    OBVIOUS
  <2>2. n \in 2..6 /\ Stages[n - 1] = Stages[k - 1]
    BY <2>1
  <2>3. n = k
    BY <1>1, <1>2, <1>3, <2>2
  <2> QED
    BY <2>1, <2>3 DEF After
<1> QED
  BY <1>1, <1>3, <1>4

\* The attempt that executes ends, whatever it had uploaded and sent.
LEMMA EndStep ==
  ASSUME MonitorInv, NEW r \in DOMAIN runs, How(runs, r) = "executing", NEW how \in Outcomes \ {"queued", "executing"}, End(r, how),
         artifacts' \in Seq(Artifact), mailed' \in Seq(Notice), expired' \in 0..Len(artifacts'), faults' \in 0..MaxFaults,
         UNCHANGED <<aged, tick>>, NEW t, History(runs, t, artifacts', mailed', aged, tick)
  PROVE  MonitorInv'
<1>1. runs \in Seq(Run) /\ Num(runs, r) # 0 /\ tick \in Nat
  BY DEF MonitorInv, TypesInv, RunsInv
<1>2. runs' = [runs EXCEPT ![r].turns[Num(runs, r)] = how] /\ turn' = "none" /\ file' = Fresh
  BY RunWords DEF End
<1>3. Becomes(runs, runs', r, how)
  BY <1>1, <1>2, LastBecomes
<1>4. Fresh \in Checkpoint /\ Fresh.at = 0 /\ Fresh.pending = <<>>
  <2>1. <<>> \in Seq(Notice) /\ 0 \in 0..Threshold /\ <<0, 0>> \in Nat \X Nat
    BY MonitorAssumption
  <2> QED
    BY <2>1 DEF Fresh, NoIncident, Checkpoint
<1>5. TypesInv'
  BY <1>1, <1>2, <1>3, <1>4 DEF TypesInv, Becomes
<1>6. RunsInv'
  <2>1. \A d \in DOMAIN runs : How(runs, d) = "executing" => d = r
    BY DEF MonitorInv, RunsInv
  <2>2. ASSUME NEW d \in DOMAIN runs' PROVE Num(runs', d) # 0 /\ runs'[d].tick <= tick
    BY <1>3 DEF MonitorInv, RunsInv, Becomes
  <2>3. ASSUME NEW d \in DOMAIN runs'
        PROVE  d \in DOMAIN runs /\ How(runs', d) # "executing" /\ (How(runs', d) = "queued" => How(runs, d) = "queued")
    BY <1>3, <2>1 DEF Becomes
  <2>4. \A d, e \in DOMAIN runs : How(runs, d) = "queued" /\ How(runs, e) = "queued" => e = d
    BY DEF MonitorInv, RunsInv
  <2>5. ASSUME NEW d \in DOMAIN runs', NEW e \in DOMAIN runs', How(runs', d) \in {"queued", "executing"}, How(runs', e) = How(runs', d)
        PROVE  e = d
    BY <2>3, <2>4, <2>5
  <2>6. tick' = tick
    OBVIOUS
  <2> QED
    BY <1>2, <2>2, <2>3, <2>5, <2>6 DEF RunsInv
<1>7. History(runs', turn', artifacts', mailed', aged', tick')
  <2>1. History(runs', "none", artifacts', mailed', aged, tick)
    BY <1>1, <1>3, HistoryEnds
  <2> QED
    BY <1>2, <2>1
<1>8. LastInv'
  BY <1>2, <1>6 DEF LastInv, RunsInv
<1>9. FileInv'
  BY <1>1, <1>2, <1>4 DEF FileInv, OneNotice
<1> QED
  BY <1>5, <1>6, <1>7, <1>8, <1>9 DEF MonitorInv

\* The attempt that executes goes on.
LEMMA MoveStep ==
  ASSUME MonitorInv, NEW r \in DOMAIN runs, How(runs, r) = "executing", turn' \in Steps \ {"select"},
         artifacts' \in Seq(Artifact), mailed' \in Seq(Notice), expired' \in 0..Len(artifacts'),
         UNCHANGED <<runs, aged, tick, faults>>, History(runs, turn', artifacts', mailed', aged, tick),
         file' \in Checkpoint, OneNotice(file'), file'.at <= tick, ComesLast(artifacts', r, Num(runs, r), Due(turn')),
         Fits(file', runs, turn', artifacts', mailed')
  PROVE  MonitorInv'
<1>1. TypesInv'
  BY DEF MonitorInv, TypesInv
<1>2. turn' # "none"
  BY DEF Steps, Early
<1>3. RunsInv'
  BY <1>2 DEF MonitorInv, RunsInv
<1>4. \A d \in DOMAIN runs : How(runs, d) = "executing" => d = r
  BY DEF MonitorInv, RunsInv
<1>5. LastInv'
  BY <1>4 DEF LastInv
<1>6. FileInv'
  BY <1>2 DEF FileInv
<1> QED
  BY <1>1, <1>3, <1>5, <1>6 DEF MonitorInv

\* An attempt is queued.
LEMMA QueueStep ==
  ASSUME MonitorInv, NEW q, Queues(runs, runs', q, tick), q \notin DOMAIN runs \/ How(runs, q) # "executing",
         UNCHANGED <<turn, file, artifacts, expired, mailed, aged, tick, faults>>
  PROVE  MonitorInv'
<1>1. TypesInv'
  BY DEF MonitorInv, TypesInv, Queues
<1>2. ASSUME NEW d \in DOMAIN runs'
      PROVE  /\ d = q => How(runs', d) = "queued"
             /\ d # q => d \in DOMAIN runs /\ How(runs', d) # "queued" /\ (How(runs', d) = "executing" <=> How(runs, d) = "executing")
  BY DEF Queues
<1>3. \A d \in DOMAIN runs : How(runs, d) = "executing" => d # q /\ d \in DOMAIN runs' /\ How(runs', d) = "executing" /\ Num(runs', d) = Num(runs, d)
  BY DEF Queues
<1>4. RunsInv'
  <2>1. ASSUME NEW d \in DOMAIN runs' PROVE Num(runs', d) # 0 /\ runs'[d].tick <= tick
    <3>1. CASE d = q
      <4>1. q \in DOMAIN runs => Num(runs, q) \in Nat
        BY RunParts DEF MonitorInv, TypesInv
      <4> QED
        BY <3>1, <4>1 DEF Queues
    <3>2. CASE d # q
      BY <3>2 DEF Queues, MonitorInv, RunsInv
    <3> QED
      BY <3>1, <3>2
  <2>2. ASSUME NEW d \in DOMAIN runs', NEW e \in DOMAIN runs', How(runs', d) \in {"queued", "executing"}, How(runs', e) = How(runs', d)
        PROVE  e = d
    BY <1>2, <2>2 DEF MonitorInv, RunsInv
  <2>3. turn = "none" => \A d \in DOMAIN runs' : How(runs', d) # "executing"
    BY <1>2 DEF MonitorInv, RunsInv
  <2>4. turn # "none" => \E d \in DOMAIN runs' : How(runs', d) = "executing"
    BY <1>3 DEF MonitorInv, RunsInv
  <2> QED
    BY <2>1, <2>2, <2>3, <2>4 DEF RunsInv
<1>5. History(runs', turn', artifacts', mailed', aged', tick')
  BY HistoryQueues DEF MonitorInv, TypesInv
<1>6. LastInv'
  BY <1>2, <1>3 DEF MonitorInv, LastInv
<1>7. FileInv'
  <2>1. ASSUME turn = "prepare", NEW n \in Range(file.pending) PROVE Given(runs', turn, n.id)
    <3>1. Given(runs, turn, n.id)
      BY <2>1 DEF MonitorInv, FileInv, Fits, Ahead
    <3>2. PICK d, a : d = n.id[1] /\ a = n.id[2]
      OBVIOUS
    <3>3. d \in DOMAIN runs /\ a \in 1..Num(runs, d) /\ (a = Num(runs, d) => How(runs, d) # "queued" /\ (How(runs, d) = "executing" => turn \notin Early))
      BY <3>1, <3>2 DEF Given
    <3>4. d \in DOMAIN runs' /\ Num(runs, d) \in Nat /\ Num(runs', d) = IF d = q THEN Num(runs, d) + 1 ELSE Num(runs, d)
      BY <3>3, RunParts DEF Queues, MonitorInv, TypesInv
    <3>5. turn \notin Early
      BY <2>1 DEF Early
    <3>6. d # q => How(runs', d) # "queued"
      BY <1>2, <3>4
    <3> QED
      BY <3>2, <3>3, <3>4, <3>5, <3>6 DEF Given
  <2>2. ASSUME turn \notin {"none", "select"} PROVE Fits(file, runs', turn, artifacts, mailed)
    BY <2>1, <2>2 DEF MonitorInv, FileInv, Fits, Ahead
  <2> QED
    BY <2>2 DEF MonitorInv, FileInv
<1> QED
  BY <1>1, <1>4, <1>5, <1>6, <1>7 DEF MonitorInv

\* The attempt that waits begins.
LEMMA BeginStep ==
  ASSUME MonitorInv, NEW r \in DOMAIN runs, Begin(r) PROVE MonitorInv'
<1>1. runs \in Seq(Run) /\ Num(runs, r) # 0 /\ "executing" \in Outcomes /\ \A d \in DOMAIN runs : How(runs, d) # "executing"
  BY RunWords DEF MonitorInv, TypesInv, RunsInv, Begin, Outcomes
<1>2. How(runs, r) = "queued" /\ runs' = [runs EXCEPT ![r].turns[Num(runs, r)] = "executing"] /\ turn' = "select"
      /\ UNCHANGED <<file, artifacts, expired, mailed, aged, tick, faults>>
  BY RunWords DEF Begin
<1>3. Becomes(runs, runs', r, "executing")
  BY <1>1, <1>2, LastBecomes
<1>4. turn = "none"
  BY <1>1 DEF MonitorInv, RunsInv
<1>5. TypesInv'
  BY <1>2, <1>3 DEF MonitorInv, TypesInv, Becomes, Steps, Early
<1>6. RunsInv'
  <2>1. ASSUME NEW d \in DOMAIN runs' PROVE Num(runs', d) # 0 /\ runs'[d].tick <= tick
    BY <1>3 DEF MonitorInv, RunsInv, Becomes
  <2>2. \A d, e \in DOMAIN runs : How(runs, d) = "queued" /\ How(runs, e) = "queued" => e = d
    BY DEF MonitorInv, RunsInv
  <2>3. ASSUME NEW d \in DOMAIN runs'
        PROVE  /\ d \in DOMAIN runs /\ (d = r => How(runs', d) = "executing") /\ (d # r => How(runs', d) = How(runs, d))
    BY <1>3 DEF Becomes
  <2>4. \A d \in DOMAIN runs' : How(runs', d) # "queued"
    BY <1>2, <2>2, <2>3
  <2>5. \A d \in DOMAIN runs' : How(runs', d) = "executing" => d = r
    BY <1>1, <2>3
  <2>6. r \in DOMAIN runs' /\ How(runs', r) = "executing"
    BY <1>3 DEF Becomes
  <2> QED
    BY <1>2, <2>1, <2>4, <2>5, <2>6 DEF RunsInv
<1>7. History(runs', "select", artifacts, mailed, aged, tick)
  BY <1>1, <1>2, <1>3, HistoryBegins DEF MonitorInv
<1>8. History(runs', turn', artifacts', mailed', aged', tick')
  BY <1>2, <1>7
<1>9. LastInv'
  BY <1>2 DEF LastInv
<1>10. FileInv'
  BY <1>2, <1>4 DEF MonitorInv, FileInv
<1> QED
  BY <1>5, <1>6, <1>8, <1>9, <1>10 DEF MonitorInv

\* What the invariant says of the attempt that executes.
LEMMA Runner ==
  ASSUME MonitorInv, NEW r \in Executing
  PROVE  /\ r \in DOMAIN runs /\ How(runs, r) = "executing" /\ Num(runs, r) # 0 /\ Turns(r) = Num(runs, r) /\ turn \in Steps
         /\ runs \in Seq(Run) /\ artifacts \in Seq(Artifact) /\ mailed \in Seq(Notice) /\ file \in Checkpoint
         /\ MaxFaults \in Nat /\ faults \in 0..MaxFaults /\ expired \in 0..Len(artifacts) /\ tick \in Nat
         /\ History(runs, turn, artifacts, mailed, aged, tick) /\ OneNotice(file) /\ file.at <= tick
         /\ turn # "select" => ComesLast(artifacts, r, Num(runs, r), Due(turn))
         /\ turn # "select" => Fits(file, runs, turn, artifacts, mailed)
<1>1. r \in DOMAIN runs /\ How(runs, r) = "executing" /\ Turns(r) = Num(runs, r)
  BY RunWords
<1>2. MaxFaults \in Nat
  BY MonitorAssumption
<1>3. turn # "none"
  BY <1>1 DEF MonitorInv, RunsInv
<1> QED
  BY <1>1, <1>2, <1>3 DEF MonitorInv, TypesInv, RunsInv, LastInv, FileInv

\* A run is dispatched.
LEMMA NewRunStep ==
  ASSUME MonitorInv, NEW mode \in {"run", "initialize", "external"}, NEW t \in Nat, t <= tick, NewRun(mode, t),
         UNCHANGED <<turn, file, artifacts, expired, mailed, aged, tick, faults>>
  PROVE  MonitorInv'
<1>1. runs' = Append(Displaced, [mode |-> mode, tick |-> t, turns |-> <<"queued">>]) /\ runs \in Seq(Run) /\ tick \in Nat
      /\ \A r \in DOMAIN runs : Num(runs, r) # 0
  BY DEF NewRun, MonitorInv, TypesInv, RunsInv
<1>2. Queues(runs, runs', Len(runs) + 1, tick) /\ Len(runs) + 1 \notin DOMAIN runs
  BY <1>1, QueuesNew
<1> QED
  BY <1>2, QueueStep

\* A run is repeated.
LEMMA RerunStep ==
  ASSUME MonitorInv, NEW r \in DOMAIN runs, Rerun(r) PROVE MonitorInv'
<1>1. runs' = [Displaced EXCEPT ![r].turns = Append(@, "queued")] /\ How(runs, r) \notin {"queued", "executing"}
      /\ UNCHANGED <<turn, file, artifacts, expired, mailed, aged, tick, faults>>
  BY RunWords DEF Rerun
<1>2. runs \in Seq(Run) /\ tick \in Nat /\ runs[r].tick <= tick /\ \A d \in DOMAIN runs : Num(runs, d) # 0
  BY DEF MonitorInv, TypesInv, RunsInv
<1>3. Queues(runs, runs', r, tick)
  BY <1>1, <1>2, QueuesAgain
<1> QED
  BY <1>1, <1>3, QueueStep

\* The external timer ticks.
LEMMA TickStep ==
  ASSUME MonitorInv, Tick PROVE MonitorInv'
<1>1. tick' = tick + 1 /\ tick \in Nat /\ UNCHANGED <<runs, turn, file, artifacts, expired, mailed, aged, faults>>
  BY DEF Tick, MonitorInv, TypesInv
<1>2. TypesInv'
  BY <1>1 DEF MonitorInv, TypesInv
<1>3. RunsInv'
  <2>1. ASSUME NEW d \in DOMAIN runs PROVE runs[d].tick <= tick + 1
    BY <1>1, RunParts DEF MonitorInv, TypesInv, RunsInv
  <2> QED
    BY <1>1, <2>1 DEF MonitorInv, RunsInv
<1>4. History(runs', turn', artifacts', mailed', aged', tick')
  <2>1. ASSUME artifacts # <<>> PROVE Last(artifacts).state.at <= tick + 1
    <3>1. Last(artifacts).state.at <= tick /\ Len(Last(artifacts).state.pending) <= 1
      BY <2>1 DEF MonitorInv, History, OneNotice
    <3>2. Last(artifacts).state \in Checkpoint
      BY <2>1, <3>1, OwedOne DEF MonitorInv, TypesInv
    <3>3. Last(artifacts).state.at \in Nat
      BY <3>2 DEF Checkpoint
    <3> QED
      BY <1>1, <3>1, <3>3
  <2> QED
    BY <1>1, <2>1 DEF MonitorInv, History
<1>5. LastInv'
  BY <1>1 DEF MonitorInv, LastInv
<1>6. FileInv'
  <2>1. file.at \in Nat
    BY DEF MonitorInv, TypesInv, Checkpoint
  <2>2. file.at <= tick + 1
    BY <1>1, <2>1 DEF MonitorInv, FileInv
  <2> QED
    BY <1>1, <2>2 DEF MonitorInv, FileInv
<1> QED
  BY <1>2, <1>3, <1>4, <1>5, <1>6 DEF MonitorInv

\* Notices grow old and uploads expire.
LEMMA TimeStep ==
  ASSUME MonitorInv, NEW quarter, TimePasses(quarter) PROVE MonitorInv'
<1>1. aged' = Ever(artifacts) /\ expired' \in {Len(artifacts), expired} /\ UNCHANGED <<runs, turn, file, artifacts, mailed, tick, faults>>
  BY DEF TimePasses, Committed, Ever
<1>2. TypesInv'
  <2>1. Len(artifacts) \in Nat
    BY DEF MonitorInv, TypesInv
  <2> QED
    BY <1>1, <2>1 DEF MonitorInv, TypesInv
<1>3. RunsInv' /\ LastInv' /\ FileInv'
  BY <1>1 DEF MonitorInv, RunsInv, LastInv, FileInv
<1>4. History(runs', turn', artifacts', mailed', aged', tick')
  BY <1>1 DEF MonitorInv, History
<1> QED
  BY <1>2, <1>3, <1>4 DEF MonitorInv

\* A checkpoint is selected, the last one, or a first run begins from nothing.
LEMMA SelectStep ==
  ASSUME MonitorInv, NEW r, Select(r) PROVE MonitorInv'
<1>1. r \in Executing /\ turn = "select" /\ ~Newer(r) /\ UNCHANGED <<runs, artifacts, expired, mailed, aged, tick, faults>>
  BY DEF Select, Selecting
<1>2. r \in DOMAIN runs /\ How(runs, r) = "executing" /\ Num(runs, r) # 0 /\ Turns(r) = Num(runs, r)
      /\ runs \in Seq(Run) /\ artifacts \in Seq(Artifact) /\ mailed \in Seq(Notice)
      /\ expired \in 0..Len(artifacts) /\ tick \in Nat /\ History(runs, "select", artifacts, mailed, aged, tick)
  BY <1>1, Runner
<1>3. Num(runs, r) \in Nat /\ DOMAIN runs = 1..Len(runs) /\ Len(runs) \in Nat /\ r = Len(runs)
  BY <1>1, <1>2, RunParts DEF Newer
<1>4. ASSUME NEW i \in DOMAIN artifacts
      PROVE  artifacts[i].run \in 1..r /\ artifacts[i].attempt \in Nat \ {0} /\ (artifacts[i].run = r => artifacts[i].attempt < Num(runs, r))
  <2>1. artifacts[i].run \in DOMAIN runs /\ artifacts[i].attempt \in 1..Num(runs, artifacts[i].run)
    BY <1>2 DEF History, Placed
  <2>2. artifacts[i].run = r => artifacts[i].attempt < Num(runs, r)
    BY <1>2 DEF History, Unstarted, NotStarted
  <2> QED
    BY <1>3, <2>1, <2>2
<1>5. ASSUME NEW p PROVE ComesLast(artifacts, r, Num(runs, r), p)
  BY <1>3, <1>4 DEF ComesLast, Earlier
<1>6. "select" \in Early /\ "resume" # "select" /\ "observe" # "select" /\ {"resume", "observe"} \subseteq Steps \ {"select"}
  BY DEF Early, Steps
<1>7. CASE file' \in Checkpoints(r) /\ turn' = "resume"
  <2>1. artifacts # <<>> /\ file' = Last(artifacts).state
    BY <1>1, <1>2, <1>7, GoesOnFromTheLast DEF MonitorInv
  <2>2. OneNotice(file') /\ Says(file', Log(artifacts, mailed)) /\ file'.at <= tick
    BY <1>2, <2>1 DEF History
  <2>3. file' \in Checkpoint /\ (file'.pending = <<>> => OwedBy(artifacts, mailed) = <<>>)
    BY <1>2, <2>1, <2>2, OwedOne DEF OneNotice
  <2>4. Fits(file', runs, "resume", artifacts, mailed)
    BY <2>1, <2>2, <2>3 DEF Same, Fits
  <2>5. History(runs, "resume", artifacts, mailed, aged, tick)
    BY <1>2, <1>6, HistorySteps
  <2> QED
    BY <1>1, <1>2, <1>5, <1>6, <1>7, <2>2, <2>3, <2>4, <2>5, MoveStep
<1>8. CASE MayInitialize(r) /\ file' = Fresh /\ turn' = "observe"
  <2>1. r = 1 /\ Num(runs, r) = 1
    BY <1>2, <1>8 DEF MayInitialize
  <2>2. ASSUME NEW i \in DOMAIN artifacts PROVE FALSE
    BY <1>4, <2>1
  <2>3. artifacts = <<>>
    <3>1. Len(artifacts) \in Nat /\ DOMAIN artifacts = 1..Len(artifacts)
      BY <1>2
    <3>2. Len(artifacts) = 0
      <4> SUFFICES ASSUME Len(artifacts) # 0 PROVE FALSE
        OBVIOUS
      <4>1. 1 \in DOMAIN artifacts
        BY <3>1
      <4> QED
        BY <2>2, <4>1
    <3> QED
      BY <1>2, <3>2, EmptySeq
  <2>4. OwedBy(artifacts, mailed) = <<>> /\ Log(artifacts, mailed) = mailed
    BY <1>2, <2>3, ConcatEmptySeq DEF OwedBy, Log
  <2>5. Ever(artifacts) = {}
    BY <2>2 DEF Ever
  <2>6. Range(mailed) = {}
    BY <1>2, <2>4, <2>5 DEF History
  <2>7. Len(mailed) = 0
    <3> SUFFICES ASSUME Len(mailed) # 0 PROVE FALSE
      OBVIOUS
    <3>1. 1 \in DOMAIN mailed
      BY <1>2
    <3> QED
      BY <2>6, <3>1 DEF Range
  <2>8. Fresh \in Checkpoint /\ Fresh.at = 0 /\ Fresh.pending = <<>> /\ Fresh.incident = NoIncident
    <3>1. <<>> \in Seq(Notice) /\ 0 \in 0..Threshold /\ <<0, 0>> \in Nat \X Nat
      BY MonitorAssumption
    <3> QED
      BY <3>1 DEF Fresh, NoIncident, Checkpoint
  <2>9. Fits(Fresh, runs, "observe", artifacts, mailed) /\ OneNotice(Fresh)
    BY <2>4, <2>7, <2>8 DEF Same, Fits, Says, OneNotice
  <2>10. History(runs, "observe", artifacts, mailed, aged, tick)
    BY <1>2, <1>6, HistorySteps
  <2> QED
    BY <1>1, <1>2, <1>5, <1>6, <1>8, <2>8, <2>9, <2>10, MoveStep
<1> QED
  BY <1>7, <1>8 DEF Select

\* An attempt that ends with nothing uploaded or sent in that step.
LEMMA StopStep ==
  ASSUME MonitorInv, NEW r \in Executing, NEW how \in {"superseded", "stateless", "failed"}, End(r, how),
         faults' \in 0..MaxFaults, UNCHANGED <<artifacts, expired, mailed, aged, tick>>
  PROVE  MonitorInv'
<1>1. how \in Outcomes \ {"queued", "executing"}
  BY DEF Outcomes
<1> QED
  BY <1>1, Runner, EndStep

\* A newer run takes over.
LEMMA SupersededStep ==
  ASSUME MonitorInv, NEW r, Superseded(r) PROVE MonitorInv'
<1>1. r \in Executing /\ End(r, "superseded") /\ UNCHANGED <<artifacts, expired, mailed, aged, tick, faults>>
  BY DEF Superseded, Selecting
<1> QED
  BY <1>1, Runner, StopStep

\* An attempt may not go on.
LEMMA RefuseStep ==
  ASSUME MonitorInv, NEW r, Refuse(r) PROVE MonitorInv'
<1>1. r \in Executing /\ (End(r, "stateless") \/ End(r, "failed")) /\ UNCHANGED <<artifacts, expired, mailed, aged, tick, faults>>
  BY DEF Refuse, Selecting, Delivering
<1> QED
  BY <1>1, Runner, StopStep

\* A step fails.
LEMMA BreakStep ==
  ASSUME MonitorInv, NEW r, NEW how \in {"failed", "stateless"}, Break(r, how) PROVE MonitorInv'
<1>1. r \in Executing /\ End(r, how) /\ UNCHANGED <<artifacts, expired, mailed, aged, tick>> /\ faults < MaxFaults /\ faults' = faults + 1
  BY DEF Break, Fault
<1>2. faults' \in 0..MaxFaults
  BY <1>1, Runner
<1> QED
  BY <1>1, <1>2, StopStep

\* Nothing is left to deliver.
LEMMA DeliveredStep ==
  ASSUME MonitorInv, NEW r, Delivered(r) PROVE MonitorInv'
<1>1. r \in Executing /\ turn \in {"retry", "deliver"} /\ file.pending = <<>> /\ turn' = After(turn)
      /\ UNCHANGED <<runs, file, artifacts, expired, mailed, aged, tick, faults>>
  BY DEF Delivered, Delivering
<1>2. turn' = IF turn = "retry" THEN "observe" ELSE "finish"
  BY <1>1, NextStages
<1>3. Fits(file, runs, turn, artifacts, mailed)
  BY <1>1, Runner
<1>4. Fits(file, runs, turn', artifacts, mailed)
  BY <1>1, <1>2, <1>3 DEF Same, Fits
<1>5. turn' \in Steps \ {"select"} /\ turn' # "prepare" /\ (turn' \in Early => turn \in Early) /\ Due(turn') = Due(turn)
  BY <1>1, <1>2 DEF Steps, Early, Due
<1>6. History(runs, turn', artifacts, mailed, aged, tick)
  <2>1. turn' # "select"
    BY <1>2
  <2> QED
    BY <1>1, <1>5, <2>1, Runner, HistorySteps
<1>7. ComesLast(artifacts, r, Num(runs, r), Due(turn'))
  BY <1>1, <1>5, Runner
<1> QED
  BY <1>1, <1>4, <1>5, <1>6, <1>7, Runner, MoveStep

\* A notice is sent, its answer kept or lost.
LEMMA SendStep ==
  ASSUME MonitorInv, NEW r, SendNotice(r) PROVE MonitorInv'
<1>1. r \in Executing /\ turn \in {"retry", "deliver"} /\ file.pending # <<>> /\ Head(file.pending) \notin aged
      /\ mailed' = Sent(Head(file.pending)) /\ UNCHANGED <<artifacts, expired, aged, tick>>
  BY DEF SendNotice, Delivering, MaySend
<1>2. Fits(file, runs, turn, artifacts, mailed) /\ artifacts \in Seq(Artifact) /\ mailed \in Seq(Notice) /\ file \in Checkpoint /\ OneNotice(file)
      /\ History(runs, turn, artifacts, mailed, aged, tick) /\ file.at <= tick /\ r \in DOMAIN runs /\ How(runs, r) = "executing"
      /\ expired \in 0..Len(artifacts) /\ ComesLast(artifacts, r, Num(runs, r), Due(turn)) /\ faults \in 0..MaxFaults /\ MaxFaults \in Nat
  BY <1>1, Runner
<1>3. artifacts # <<>> /\ file.pending = Last(artifacts).state.pending /\ Says(file, Log(artifacts, mailed))
  BY <1>1, <1>2 DEF Same, Fits
<1>4. PICK s : s = file.pending
  OBVIOUS
<1>5. s \in Seq(Notice) /\ Len(s) <= 1 /\ s # <<>>
  BY <1>1, <1>2, <1>4 DEF Checkpoint, OneNotice
<1>6. Head(s) = s[1] /\ Tail(s) = <<>>
  BY <1>5, OneSeq
<1>7. PICK v : v = mailed'
  OBVIOUS
<1>8. v = Mailing(mailed, Last(artifacts).state.pending[1])
  BY <1>1, <1>3, <1>4, <1>6, <1>7 DEF Sent, Mailing
<1>9. v \in Seq(Notice) /\ History(runs, turn, artifacts, v, aged, tick) /\ OwedBy(artifacts, v) = <<>> /\ Log(artifacts, v) = Log(artifacts, mailed)
  <2>1. artifacts # <<>> /\ Last(artifacts).state.pending # <<>> /\ artifacts \in Seq(Artifact) /\ mailed \in Seq(Notice)
        /\ History(runs, turn, artifacts, mailed, aged, tick)
    BY <1>1, <1>2, <1>3
  <2> QED
    BY <1>8, <2>1, HistorySends
<1>10. CASE file' = [file EXCEPT !.pending = Tail(@)] /\ UNCHANGED <<runs, turn, faults>>
  <2>1. file' \in Checkpoint /\ file'.pending = <<>> /\ file'.incident = file.incident /\ file'.at = file.at
    <3>1. <<>> \in Seq(Notice)
      OBVIOUS
    <3>2. file' = [file EXCEPT !.pending = <<>>]
      BY <1>4, <1>6, <1>10
    <3> QED
      BY <1>2, <3>1, <3>2 DEF Checkpoint
  <2>2. OneNotice(file') /\ file'.at <= tick
    BY <1>2, <2>1 DEF OneNotice
  <2>3. Says(file', Log(artifacts, v))
    BY <1>3, <1>9, <2>1 DEF Says
  <2>4. Fits(file', runs, turn, artifacts, v)
    BY <1>1, <1>3, <1>9, <2>1, <2>3 DEF Same, Fits
  <2>5. turn \in Steps \ {"select"} /\ turn # "prepare"
    BY <1>1 DEF Steps, Early
  <2> QED
    BY <1>1, <1>2, <1>7, <1>9, <1>10, <2>1, <2>2, <2>4, <2>5, MoveStep
<1>11. CASE Fault /\ End(r, "failed")
  <2>1. faults' \in 0..MaxFaults
    BY <1>2, <1>11 DEF Fault
  <2>2. "failed" \in Outcomes \ {"queued", "executing"}
    BY DEF Outcomes
  <2> QED
    BY <1>1, <1>2, <1>7, <1>9, <1>11, <2>1, <2>2, EndStep
<1> QED
  BY <1>10, <1>11 DEF SendNotice

\* The application is observed.
LEMMA ObserveStep ==
  ASSUME MonitorInv, NEW r, NEW down \in BOOLEAN, NEW trouble \in BOOLEAN, Observe(r, down, trouble) PROVE MonitorInv'
<1>1. r \in Executing /\ turn = "observe" /\ turn' = "prepare" /\ file' \in {file, Advanced(r, down, trouble)}
      /\ UNCHANGED <<runs, artifacts, expired, mailed, aged, tick, faults>>
  BY NextStages DEF Observe
<1>2. PICK c : c = file'
  OBVIOUS
<1>3. c \in Checkpoint /\ OneNotice(c) /\ c.at <= tick /\ Fits(c, runs, "prepare", artifacts, mailed)
  <2>1. TypesInv /\ RunsInv /\ History(runs, "observe", artifacts, mailed, aged, tick) /\ Same(file, "observe", artifacts, mailed)
        /\ OneNotice(file) /\ file.at <= tick /\ r \in DOMAIN runs /\ How(runs, r) = "executing"
    BY <1>1, Runner DEF MonitorInv, Fits
  <2>2. c \in {file, Advanced(r, down, trouble)}
    BY <1>1, <1>2
  <2> QED
    BY <2>1, <2>2, Advances DEF Fits
<1>4. History(runs, "prepare", artifacts, mailed, aged, tick)
  <2>1. "prepare" # "select" /\ "prepare" \notin Early
    BY DEF Early
  <2> QED
    BY <1>1, <2>1, Runner, HistorySteps
<1>5. ComesLast(artifacts, r, Num(runs, r), Due("prepare")) /\ "prepare" \in Steps \ {"select"}
  <2>1. Due("observe") = Due("prepare") /\ "prepare" \in Steps \ {"select"} /\ "observe" # "select"
    BY DEF Due, Steps, Early
  <2> QED
    BY <1>1, <2>1, Runner
<1> QED
  BY <1>1, <1>2, <1>3, <1>4, <1>5, Runner, MoveStep

\* A checkpoint is uploaded, and the attempt goes on, ends or fails.
LEMMA UploadStep ==
  ASSUME MonitorInv, NEW r, NEW s \in DOMAIN Phase, Upload(r, s) PROVE MonitorInv'
<1>1. r \in Executing /\ turn = s /\ s \in {"resume", "prepare", "finish"} /\ UNCHANGED <<expired, mailed, aged, tick>>
      /\ artifacts' = Append(artifacts, [run |-> r, attempt |-> Turns(r), phase |-> Phase[s], state |-> file])
  BY DEF Upload, Phase
<1>2. r \in DOMAIN runs /\ How(runs, r) = "executing" /\ Num(runs, r) # 0 /\ Turns(r) = Num(runs, r) /\ runs \in Seq(Run)
      /\ artifacts \in Seq(Artifact) /\ mailed \in Seq(Notice) /\ file \in Checkpoint /\ OneNotice(file) /\ file.at <= tick
      /\ History(runs, s, artifacts, mailed, aged, tick) /\ ComesLast(artifacts, r, Num(runs, r), Due(s))
      /\ expired \in 0..Len(artifacts) /\ faults \in 0..MaxFaults /\ MaxFaults \in Nat
      /\ Fits(file, runs, s, artifacts, mailed)
  BY <1>1, Runner
<1>3. Phase[s] = Due(s) /\ Due(s) \in 0..2
  BY <1>1 DEF Phase, Due
<1>4. PICK x : x = [run |-> r, attempt |-> Num(runs, r), phase |-> Due(s), state |-> file]
  OBVIOUS
<1>5. r \in Nat /\ Num(runs, r) \in Nat
  BY <1>2, RunParts
<1>6. x \in Artifact /\ x.run = r /\ x.attempt = Num(runs, r) /\ x.phase = Due(s) /\ x.state = file
  BY <1>2, <1>3, <1>4, <1>5 DEF Artifact
<1>7. PICK B : B = artifacts'
  OBVIOUS
<1>8. Adds(artifacts, x, B)
  BY <1>1, <1>2, <1>3, <1>4, <1>7 DEF Adds
<1>9. B \in Seq(Artifact) /\ B # <<>> /\ Last(B) = x /\ Len(B) = Len(artifacts) + 1 /\ Len(artifacts) \in Nat
  <2>1. artifacts \in Seq(Artifact) /\ x \in Artifact
    BY <1>2, <1>6
  <2> QED
    BY <1>8, <2>1, Appended
<1>10. History(runs, s, B, mailed, aged, tick) /\ Says(file, Log(B, mailed)) /\ (file.pending = <<>> => OwedBy(B, mailed) = <<>>)
  <2>2. Fits(x.state, runs, s, artifacts, mailed)
    BY <1>2, <1>6
  <2>3. ComesLast(artifacts, r, Num(runs, r), x.phase) /\ OneNotice(x.state) /\ x.state.at <= tick
    BY <1>2, <1>6
  <2>4. /\ runs \in Seq(Run) /\ artifacts \in Seq(Artifact) /\ mailed \in Seq(Notice) /\ r \in DOMAIN runs
        /\ How(runs, r) = "executing" /\ Num(runs, r) # 0 /\ x \in Artifact /\ x.run = r /\ x.attempt = Num(runs, r)
        /\ s \in {"resume", "prepare", "finish"} /\ History(runs, s, artifacts, mailed, aged, tick)
    BY <1>1, <1>2, <1>6
  <2>5. History(runs, s, B, mailed, aged, tick) /\ Says(x.state, Log(B, mailed)) /\ (x.state.pending = <<>> => OwedBy(B, mailed) = <<>>)
    BY <1>8, <2>2, <2>3, <2>4, HistoryUploads
  <2> QED
    BY <1>6, <2>5
<1>11. expired' \in 0..Len(B)
  BY <1>1, <1>2, <1>9
<1>12. ASSUME NEW how \in {"observed", "failed"}, End(r, how), faults' \in 0..MaxFaults PROVE MonitorInv'
  <2>1. how \in Outcomes \ {"queued", "executing"}
    BY DEF Outcomes
  <2> QED
    BY <1>1, <1>2, <1>7, <1>9, <1>10, <1>11, <1>12, <2>1, EndStep
<1>13. CASE s # "finish" /\ turn' = After(s) /\ UNCHANGED <<runs, file, faults>>
  <2>1. turn' = IF s = "resume" THEN "retry" ELSE "deliver"
    BY <1>1, <1>13, NextStages
  <2>2. turn' \in Steps \ {"select"} /\ turn' # "prepare" /\ turn' # "select" /\ (turn' \in Early => s \in Early)
        /\ Due(turn') \in Nat /\ Due(s) < Due(turn')
    BY <1>1, <1>13, <2>1 DEF Steps, Early, Due
  <2>3. History(runs, turn', B, mailed, aged, tick)
    BY <1>10, <2>2, HistorySteps
  <2>4. ComesLast(B, r, Num(runs, r), Due(turn'))
    <3>1. s # "select" /\ Placed(runs, artifacts) /\ Ordered(artifacts) /\ Unstarted(runs, s, artifacts)
      BY <1>1, <1>2 DEF History
    <3>2. PICK p \in Nat : p = Due(turn')
      BY <2>2
    <3>3. ComesLast(artifacts, r, Num(runs, r), x.phase) /\ x.phase < p
      BY <1>2, <1>6, <2>2, <3>2
    <3> QED
      BY <1>2, <1>6, <1>8, <3>1, <3>2, <3>3, UploadsInOrder
  <2>5. Fits(file, runs, turn', B, mailed)
    BY <1>6, <1>9, <1>10, <2>1 DEF Same, Fits
  <2> QED
    BY <1>1, <1>2, <1>7, <1>9, <1>11, <1>13, <2>2, <2>3, <2>4, <2>5, MoveStep
<1>14. CASE s = "finish" /\ End(r, "observed") /\ UNCHANGED faults
  BY <1>2, <1>12, <1>14
<1>15. CASE Fault /\ End(r, "failed")
  <2>1. faults' \in 0..MaxFaults
    BY <1>2, <1>15 DEF Fault
  <2> QED
    BY <1>12, <1>15, <2>1
<1> QED
  BY <1>13, <1>14, <1>15 DEF Upload

\* The invariant holds initially.
LEMMA MonitorInitial ==
  ASSUME MonitorInit PROVE MonitorInv
<1>1. runs = <<>> /\ turn = "none" /\ file = Fresh /\ artifacts = <<>> /\ expired = 0
      /\ mailed = <<>> /\ aged = {} /\ tick = 0 /\ faults = 0
  BY DEF MonitorInit
<1>2. Fresh \in Checkpoint /\ Fresh.at = 0 /\ Fresh.pending = <<>> /\ OneNotice(Fresh)
  <2>1. <<>> \in Seq(Notice) /\ 0 \in 0..Threshold /\ <<0, 0>> \in Nat \X Nat
    BY MonitorAssumption
  <2> QED
    BY <2>1 DEF Fresh, NoIncident, Checkpoint, OneNotice
<1>3. TypesInv
  <2>1. <<>> \in Seq(Run) /\ <<>> \in Seq(Artifact) /\ <<>> \in Seq(Notice) /\ 0 \in 0..Len(<<>>) /\ 0 \in 0..MaxFaults
    BY MonitorAssumption
  <2> QED
    BY <1>1, <1>2, <2>1 DEF TypesInv
<1>4. RunsInv /\ LastInv
  BY <1>1 DEF RunsInv, LastInv
<1>5. History(runs, turn, artifacts, mailed, aged, tick)
  <2>1. Log(<<>>, <<>>) = <<>> /\ Ever(<<>>) = {}
    <3>1. <<>> \o <<>> = <<>>
      OBVIOUS
    <3> QED
      BY <3>1 DEF Log, OwedBy, Ever
  <2>2. Range(<<>>) = {} /\ Alternate(<<>>)
    BY DEF Range, Alternate
  <2>3. Placed(<<>>, <<>>) /\ Ordered(<<>>) /\ Unstarted(<<>>, "none", <<>>)
    BY DEF Placed, Ordered, Unstarted
  <2> QED
    BY <1>1, <2>1, <2>2, <2>3 DEF History
<1>6. FileInv
  BY <1>1, <1>2 DEF FileInv
<1> QED
  BY <1>3, <1>4, <1>5, <1>6 DEF MonitorInv

\* Every action preserves the invariant.
LEMMA MonitorStep ==
  ASSUME MonitorInv, [MonitorNext]_monitorVars PROVE MonitorInv'
<1>0. tick \in Nat
  BY DEF MonitorInv, TypesInv
<1>1. ASSUME NEW mode \in {"run", "initialize"}, Dispatch(mode) PROVE MonitorInv'
  <2>1. NewRun(mode, 0) /\ UNCHANGED <<turn, file, artifacts, expired, mailed, aged, tick, faults>> /\ 0 <= tick
        /\ mode \in {"run", "initialize", "external"}
    BY <1>0, <1>1 DEF Dispatch
  <2> QED
    BY <2>1, NewRunStep
<1>2. CASE PostTick
  <2>1. NewRun("external", tick) /\ UNCHANGED <<turn, file, artifacts, expired, mailed, aged, tick, faults>> /\ tick <= tick
    BY <1>0, <1>2 DEF PostTick
  <2> QED
    BY <1>0, <2>1, NewRunStep
<1>3. ASSUME NEW r \in DOMAIN runs, RunStep(r) PROVE MonitorInv'
  BY <1>3, RerunStep, BeginStep, SelectStep, SupersededStep, RefuseStep, SendStep, DeliveredStep, BreakStep, UploadStep,
     ObserveStep DEF RunStep
<1>4. CASE UNCHANGED monitorVars
  BY <1>4 DEF monitorVars, MonitorInv, TypesInv, RunsInv, LastInv, FileInv
<1> QED
  BY <1>1, <1>2, <1>3, <1>4, TickStep, TimeStep DEF MonitorNext

\* The invariant holds always.
LEMMA MonitorKeeps == MonitorSpec => []MonitorInv
<1>1. MonitorInit => MonitorInv
  BY MonitorInitial
<1>2. MonitorInv /\ [MonitorNext]_monitorVars => MonitorInv'
  BY MonitorStep
<1> QED
  BY <1>1, <1>2, PTL DEF MonitorSpec

\* EveryNoticeOnce is part of the invariant.
LEMMA NoticesOnce ==
  ASSUME MonitorInv PROVE EveryNoticeOnce
<1>1. Committed = Ever(artifacts) /\ mailed \o Owed = Log(artifacts, mailed)
  BY DEF Committed, Ever, Owed, OwedBy, Log
<1>2. PICK s : s = mailed \o Owed
  OBVIOUS
<1>3. Committed = Range(s) /\ Alternate(s)
  BY <1>1, <1>2 DEF MonitorInv, History
<1> QED
  BY <1>2, <1>3 DEF EveryNoticeOnce, Alternate, Opens, Closes

\* Incidents and recoveries are mailed in turn, each exactly once, and every notice an artifact
\* ever held was mailed or is owed by the last: for any number of runs, attempts, ticks and
\* failures, whatever the threshold (advance, deliverPending, selectMonitorArtifact and the
\* workflow's order of uploads and deliveries).
THEOREM MailedOnce == MonitorSpec => []EveryNoticeOnce
<1>1. MonitorInv => EveryNoticeOnce
  BY NoticesOnce
<1> QED
  BY <1>1, MonitorKeeps, PTL

\* What is given has the id of an attempt there is.
LEMMA GivenAttempt ==
  ASSUME MonitorInv, NEW n \in Notice, NEW t, Given(runs, t, n.id) PROVE n \in Notices /\ n.id \in Ids
<1>1. PICK i : i = n.id
  OBVIOUS
<1>2. i \in Nat \X Nat /\ n = [id |-> i, kind |-> n.kind] /\ n.kind \in {"incident", "recovery"}
  BY <1>1 DEF Notice
<1>3. i[1] \in DOMAIN runs /\ i[2] \in 1..Num(runs, i[1]) /\ i = <<i[1], i[2]>>
  BY <1>1, <1>2 DEF Given
<1>4. i \in {i[1]} \X (1..Turns(i[1]))
  BY <1>3, RunWords
<1>5. i \in Ids
  BY <1>3, <1>4 DEF Ids, Attempts
<1> QED
  BY <1>1, <1>2, <1>5 DEF Notices

\* What is owed is one notice at most.
LEMMA LogParts ==
  ASSUME MonitorInv
  PROVE  /\ mailed \in Seq(Notice) /\ artifacts \in Seq(Artifact) /\ Log(artifacts, mailed) \in Seq(Notice)
         /\ OwedBy(artifacts, mailed) \in Seq(Notice) /\ Len(OwedBy(artifacts, mailed)) <= 1
<1>1. mailed \in Seq(Notice) /\ artifacts \in Seq(Artifact)
  BY DEF MonitorInv, TypesInv
<1>2. PICK o : o = OwedBy(artifacts, mailed)
  OBVIOUS
<1>3. o \in Seq(Notice) /\ Len(o) <= 1
  <2>1. CASE artifacts = <<>>
    <3>1. o = <<>>
      BY <1>2, <2>1 DEF OwedBy
    <3> QED
      BY <3>1
  <2>2. CASE artifacts # <<>>
    <3>1. PICK s : s = Last(artifacts).state.pending
      OBVIOUS
    <3>2. Len(s) <= 1
      BY <2>2, <3>1 DEF MonitorInv, History, OneNotice
    <3>3. s \in Seq(Notice) /\ (o = <<>> \/ o = s)
      BY <1>1, <1>2, <2>2, <3>1, <3>2, OwedOne
    <3>4. CASE o = <<>>
      BY <3>4
    <3> QED
      BY <3>2, <3>3, <3>4
  <2> QED
    BY <2>1, <2>2
<1>4. mailed \o o \in Seq(Notice)
  BY <1>1, <1>3
<1> QED
  BY <1>1, <1>2, <1>3, <1>4 DEF Log

\* Every notice of artifacts and mail has the id of an attempt.
LEMMA EverNotices ==
  ASSUME MonitorInv
  PROVE  /\ Ever(artifacts) \subseteq Notices /\ aged \subseteq Notices /\ Range(mailed) \subseteq Notices
         /\ \A n \in Range(Log(artifacts, mailed)) : n.id \in Ids
<1>1. ASSUME NEW n \in Ever(artifacts) PROVE n \in Notices /\ n.id \in Ids
  <2>1. PICK i \in DOMAIN artifacts : n \in Range(artifacts[i].state.pending)
    BY DEF Ever
  <2>2. artifacts[i].state.pending \in Seq(Notice)
    BY ArtifactParts DEF MonitorInv, TypesInv
  <2>3. n \in Notice
    BY <2>1, <2>2 DEF Range
  <2>4. Given(runs, turn, n.id)
    BY DEF MonitorInv, History
  <2> QED
    BY <2>3, <2>4, GivenAttempt
<1>2. Ever(artifacts) = Range(Log(artifacts, mailed)) /\ aged \subseteq Ever(artifacts)
  BY DEF MonitorInv, History
<1>3. Range(mailed) \subseteq Range(Log(artifacts, mailed))
  <2>1. PICK o : o = OwedBy(artifacts, mailed)
    OBVIOUS
  <2>2. mailed \in Seq(Notice) /\ o \in Seq(Notice)
    BY <2>1, LogParts
  <2>3. ASSUME NEW i \in DOMAIN mailed PROVE i \in DOMAIN (mailed \o o) /\ (mailed \o o)[i] = mailed[i]
    BY <2>2
  <2>4. ASSUME NEW n \in Range(mailed) PROVE n \in Range(mailed \o o)
    BY <2>3 DEF Range
  <2> QED
    BY <2>1, <2>4 DEF Log
<1> QED
  BY <1>1, <1>2, <1>3

\* A checkpoint with one notice at most, of ids there are, is as checkpoints are.
LEMMA CheckpointTypes ==
  ASSUME NEW c \in Checkpoint, OneNotice(c), c.incident \in Ids, Range(c.pending) \subseteq Notices
  PROVE  CheckpointOK(c)
<1>1. c.failures \in 0..Threshold /\ c.pending \in Seq(Notice) /\ Len(c.pending) <= 1
  BY DEF Checkpoint, OneNotice
<1>2. \A n \in 1..Len(c.pending) - 1 : c.pending[n].kind # c.pending[n + 1].kind
  BY <1>1
<1>3. ASSUME c.pending # <<>> PROVE Last(c.pending) = c.pending[1]
  BY <1>1, <1>3, OneSeq DEF Last
<1> QED
  BY <1>1, <1>2, <1>3 DEF CheckpointOK, OneNotice

\* The incident that notices leave open is one they tell of.
LEMMA SaysGiven ==
  ASSUME NEW c, NEW s \in Seq(Notice), Says(c, s), \A n \in Range(s) : n.id \in Ids PROVE c.incident \in Ids
<1>1. Len(s) \in Nat /\ DOMAIN s = 1..Len(s)
  OBVIOUS
<1>2. CASE Len(s) % 2 = 1
  <2>1. Len(s) \in DOMAIN s
    BY <1>1, <1>2
  <2> QED
    BY <1>2, <2>1 DEF Says, Range
<1>3. CASE Len(s) % 2 # 1
  BY <1>3 DEF Says, Ids
<1> QED
  BY <1>2, <1>3

\* The checkpoint on the runner is as checkpoints are,
LEMMA FileTypes ==
  ASSUME MonitorInv PROVE CheckpointOK(file) /\ file.at \in 0..tick
<1>1. file \in Checkpoint /\ OneNotice(file) /\ file.at <= tick /\ tick \in Nat /\ turn \in Steps \cup {"none"}
  BY DEF MonitorInv, TypesInv, FileInv
<1>2. file.at \in Nat /\ file.pending \in Seq(Notice) /\ mailed \in Seq(Notice)
  BY <1>1, LogParts DEF Checkpoint
<1>3. file.incident \in Ids /\ Range(file.pending) \subseteq Notices
  <2>1. CASE turn \in {"none", "select"}
    <3>1. file = Fresh
      BY <2>1 DEF MonitorInv, FileInv
    <3>2. file.pending = <<>> /\ file.incident = NoIncident
      BY <3>1 DEF Fresh
    <3> QED
      BY <3>2 DEF Range, Ids
  <2>2. CASE turn = "prepare"
    <3>1. Says(file, mailed \o file.pending) /\ (\A n \in Range(file.pending) : Given(runs, turn, n.id))
      BY <2>2 DEF MonitorInv, FileInv, Fits, Ahead
    <3>2. \A n \in Range(file.pending) : n \in Notice
      BY <1>2 DEF Range
    <3>3. \A n \in Range(file.pending) : n \in Notices /\ n.id \in Ids
      BY <3>1, <3>2, GivenAttempt
    <3>4. \A n \in Range(mailed) : n.id \in Ids
      BY EverNotices DEF Notices
    <3>5. PICK u : u = mailed \o file.pending
      OBVIOUS
    <3>6. u \in Seq(Notice) /\ \A n \in Range(u) : n \in Range(mailed) \/ n \in Range(file.pending)
      <4>1. PICK s : s = file.pending
        OBVIOUS
      <4>2. s \in Seq(Notice) /\ u = mailed \o s
        BY <1>2, <3>5, <4>1
      <4>3. ASSUME NEW i \in DOMAIN u PROVE (i \in DOMAIN mailed /\ u[i] = mailed[i]) \/ (i - Len(mailed) \in DOMAIN s /\ u[i] = s[i - Len(mailed)])
        BY <1>2, <4>2
      <4>4. \A n \in Range(u) : n \in Range(mailed) \/ n \in Range(s)
        BY <4>3 DEF Range
      <4>5. u \in Seq(Notice)
        BY <1>2, <4>2
      <4> QED
        BY <4>1, <4>4, <4>5
    <3>7. Says(file, u) /\ \A n \in Range(u) : n.id \in Ids
      BY <3>1, <3>3, <3>4, <3>5, <3>6
    <3> QED
      BY <3>3, <3>6, <3>7, SaysGiven
  <2>3. CASE turn \notin {"none", "select", "prepare"}
    <3>1. Same(file, turn, artifacts, mailed)
      BY <2>3 DEF MonitorInv, FileInv, Fits
    <3>2. file.incident \in Ids
      <4>1. PICK s : s = Log(artifacts, mailed)
        OBVIOUS
      <4>2. Says(file, s) /\ s \in Seq(Notice) /\ \A n \in Range(s) : n.id \in Ids
        BY <3>1, <4>1, LogParts, EverNotices DEF Same
      <4> QED
        BY <4>2, SaysGiven
    <3>3. CASE file.pending = <<>>
      BY <3>2, <3>3 DEF Range
    <3>4. CASE file.pending # <<>>
      <4>1. file.pending = Last(artifacts).state.pending /\ artifacts # <<>>
        <5>1. file.pending = Last(artifacts).state.pending /\ (turn # "observe" => artifacts # <<>>) /\ turn # "observe"
          BY <3>1, <3>4 DEF Same
        <5> QED
          BY <5>1
      <4>2. Len(artifacts) \in DOMAIN artifacts /\ Last(artifacts) = artifacts[Len(artifacts)]
        BY <4>1, LogParts DEF Last
      <4>3. Range(file.pending) \subseteq Ever(artifacts)
        BY <4>1, <4>2 DEF Ever
      <4> QED
        BY <3>2, <4>3, EverNotices
    <3> QED
      BY <3>3, <3>4
  <2> QED
    BY <2>1, <2>2, <2>3
<1> QED
  BY <1>1, <1>2, <1>3, CheckpointTypes

\* and so is the one uploaded last.
LEMMA LastTypes ==
  ASSUME MonitorInv, artifacts # <<>>
  PROVE  Last(artifacts).run \in DOMAIN runs /\ CheckpointOK(Last(artifacts).state) /\ Last(artifacts).state.at \in 0..tick
<1>1. PICK c : c = Last(artifacts).state
  OBVIOUS
<1>2. artifacts \in Seq(Artifact) /\ Len(artifacts) \in DOMAIN artifacts /\ Last(artifacts) = artifacts[Len(artifacts)] /\ tick \in Nat
  BY LogParts DEF Last, MonitorInv, TypesInv
<1>3. c \in Checkpoint /\ OneNotice(c) /\ c.at <= tick /\ Says(c, Log(artifacts, mailed)) /\ Last(artifacts).run \in DOMAIN runs
  BY <1>1, <1>2, ArtifactParts DEF MonitorInv, History, Placed
<1>4. c.at \in Nat
  BY <1>3 DEF Checkpoint
<1>5. Range(c.pending) \subseteq Notices
  <2>1. Range(c.pending) \subseteq Ever(artifacts)
    BY <1>1, <1>2 DEF Ever
  <2> QED
    BY <2>1, EverNotices
<1>6. c.incident \in Ids
  <2>1. PICK s : s = Log(artifacts, mailed)
    OBVIOUS
  <2>2. Says(c, s) /\ s \in Seq(Notice) /\ \A n \in Range(s) : n.id \in Ids
    BY <1>3, <2>1, LogParts, EverNotices
  <2> QED
    BY <2>2, SaysGiven
<1> QED
  BY <1>1, <1>2, <1>3, <1>4, <1>5, <1>6, CheckpointTypes

\* Runs are of their kinds.
LEMMA RunTypes ==
  ASSUME MonitorInv
  PROVE  /\ \A r \in DOMAIN runs : runs[r].tick \in 0..tick /\ runs[r].turns # <<>> /\ (Waiting(r) => \A d \in DOMAIN runs : Latest(d) = Latest(r) => d = r)
         /\ (turn # "none") = (Executing # {})
<1>1. runs \in Seq(Run) /\ tick \in Nat /\ RunsInv
  BY DEF MonitorInv, TypesInv
<1>2. ASSUME NEW r \in DOMAIN runs PROVE runs[r].tick \in 0..tick /\ runs[r].turns # <<>>
  BY <1>1, RunParts DEF RunsInv, Num
<1>3. ASSUME NEW r \in DOMAIN runs, Waiting(r), NEW d \in DOMAIN runs, Latest(d) = Latest(r) PROVE d = r
  BY <1>1, <1>3, RunWords DEF RunsInv
<1>4. turn # "none" <=> Executing # {}
  BY <1>1, RunWords DEF RunsInv
<1> QED
  BY <1>2, <1>3, <1>4

\* Runs, artifacts, mail and the runner's checkpoint are of their kinds, at most one attempt
\* waits and one executes, and every notice has the id of an attempt that was made (what
\* validateState asks of a checkpoint that is read, and the workflow's concurrency group).
THEOREM MonitorTypes == MonitorSpec => []MonitorTypeOK
<1>1. ASSUME MonitorInv PROVE MonitorTypeOK
  <2>1. expired \in 0..Len(artifacts) /\ faults \in 0..MaxFaults
    BY <1>1 DEF MonitorInv, TypesInv
  <2>2. Range(mailed) \cup aged \subseteq Notices
    BY <1>1, EverNotices
  <2> QED
    BY <1>1, <2>1, <2>2, FileTypes, LastTypes, RunTypes DEF MonitorTypeOK
<1> QED
  BY <1>1, MonitorKeeps, PTL

\* Neither the runner's checkpoint nor what is owed ever has a second notice, so the limit of 16
\* (advance's notification_backlog_limit) stops no attempt.
THEOREM BacklogIsShort == MonitorSpec => []BacklogStaysShort
<1>1. ASSUME MonitorInv PROVE BacklogStaysShort
  <2>1. Owed = OwedBy(artifacts, mailed)
    BY DEF Owed, OwedBy
  <2> QED
    BY <1>1, <2>1, LogParts DEF BacklogStaysShort, MonitorInv, FileInv, OneNotice
<1> QED
  BY <1>1, MonitorKeeps, PTL

\* No attempt goes on from an older checkpoint than the newest, whatever was rerun, overtaken,
\* cancelled or passed over (selectMonitorArtifact).
THEOREM GoesOnFromTheNewest == MonitorSpec => []GoesOnFromLast
<1>1. ASSUME MonitorInv PROVE GoesOnFromLast
  <2> SUFFICES ASSUME NEW r \in Executing, Selecting(r), ~Newer(r), NEW c \in Checkpoints(r)
               PROVE  artifacts # <<>> /\ c = Last(artifacts).state
    BY DEF GoesOnFromLast
  <2>1. r \in DOMAIN runs /\ How(runs, r) = "executing" /\ turn = "select"
    BY RunWords DEF Selecting
  <2> QED
    BY <1>1, <2>1, GoesOnFromTheLast DEF MonitorInv
<1> QED
  BY <1>1, MonitorKeeps, PTL

\* What PromisesKept says of a step.
Kept ==
  \/ mailed' = mailed /\ (Owed = <<>> \/ Owed' = Owed)
  \/ Owed # <<>> /\ mailed' = Append(mailed, Head(Owed)) /\ Owed' = Tail(Owed)

\* Steps that neither upload nor send leave every promise as it is.
LEMMA QuietKeeps ==
  ASSUME UNCHANGED <<artifacts, mailed>> PROVE Kept
  BY DEF Kept, Owed

\* An upload has the notice that is owed, or none is owed.
LEMMA UploadKeeps ==
  ASSUME MonitorInv, NEW r, NEW s \in DOMAIN Phase, Upload(r, s) PROVE Kept
<1>1. r \in Executing /\ turn = s /\ s \in {"resume", "prepare", "finish"} /\ UNCHANGED mailed
      /\ artifacts' = Append(artifacts, [run |-> r, attempt |-> Turns(r), phase |-> Phase[s], state |-> file])
  BY DEF Upload, Phase
<1>2. Fits(file, runs, turn, artifacts, mailed) /\ artifacts \in Seq(Artifact) /\ file \in Checkpoint
  BY <1>1, Runner
<1>3. Owed = OwedBy(artifacts, mailed)
  BY DEF Owed, OwedBy
<1>4. CASE s = "prepare"
  BY <1>1, <1>2, <1>3, <1>4 DEF Fits, Ahead, Kept
<1>5. CASE s = "finish"
  BY <1>1, <1>2, <1>3, <1>5 DEF Fits, Same, Kept
<1>6. CASE s = "resume"
  <2>1. artifacts # <<>> /\ file.pending = Last(artifacts).state.pending
    BY <1>1, <1>2, <1>6 DEF Fits, Same
  <2>2. PICK x : x = [run |-> r, attempt |-> Turns(r), phase |-> Phase[s], state |-> file]
    OBVIOUS
  <2>3. PICK B : B = Append(artifacts, x)
    OBVIOUS
  <2>4. B # <<>> /\ B[Len(B)] = x /\ artifacts' = B /\ x.state = file
    BY <1>1, <1>2, <2>2, <2>3
  <2>5. Last(B).state.pending = file.pending
    BY <2>4 DEF Last
  <2>6. OwedBy(B, mailed) = OwedBy(artifacts, mailed)
    BY <2>1, <2>4, <2>5 DEF OwedBy
  <2>7. Owed' = OwedBy(B, mailed)
    BY <1>1, <2>4 DEF Owed, OwedBy
  <2> QED
    BY <1>1, <1>3, <2>6, <2>7 DEF Kept
<1> QED
  BY <1>1, <1>4, <1>5, <1>6

\* The notice that is sent is the one owed, or was sent before.
LEMMA SendKeeps ==
  ASSUME MonitorInv, NEW r, SendNotice(r) PROVE Kept
<1>1. r \in Executing /\ turn \in {"retry", "deliver"} /\ file.pending # <<>> /\ Head(file.pending) \notin aged
      /\ mailed' = Sent(Head(file.pending)) /\ UNCHANGED artifacts
  BY DEF SendNotice, Delivering, MaySend
<1>2. Fits(file, runs, turn, artifacts, mailed) /\ artifacts \in Seq(Artifact) /\ mailed \in Seq(Notice) /\ file \in Checkpoint /\ OneNotice(file)
  BY <1>1, Runner
<1>3. artifacts # <<>> /\ file.pending = Last(artifacts).state.pending
  BY <1>1, <1>2 DEF Same, Fits
<1>4. PICK s : s = file.pending
  OBVIOUS
<1>5. s \in Seq(Notice) /\ Len(s) <= 1 /\ s # <<>>
  BY <1>1, <1>2, <1>4 DEF Checkpoint, OneNotice
<1>6. Head(s) = s[1] /\ Tail(s) = <<>> /\ s[1] \in Notice
  BY <1>5, OneSeq
<1>7. Owed = IF s[1] \in Range(mailed) THEN <<>> ELSE s
  <2>1. Owed = OwedBy(artifacts, mailed)
    BY DEF Owed, OwedBy
  <2> QED
    BY <1>2, <1>3, <1>4, <1>5, <2>1, OwedOne
<1>8. CASE s[1] \in Range(mailed)
  BY <1>1, <1>4, <1>6, <1>7, <1>8 DEF Sent, Kept
<1>9. CASE s[1] \notin Range(mailed)
  <2>1. PICK v : v = Append(mailed, s[1])
    OBVIOUS
  <2>2. mailed' = v
    BY <1>1, <1>4, <1>6, <1>9, <2>1 DEF Sent
  <2>3. v \in Seq(Notice) /\ s[1] \in Range(v)
    <3>1. Len(mailed) + 1 \in DOMAIN v /\ v[Len(mailed) + 1] = s[1] /\ v \in Seq(Notice)
      BY <1>2, <1>6, <2>1
    <3> QED
      BY <3>1 DEF Range
  <2>4. OwedBy(artifacts, v) = <<>>
    BY <1>2, <1>3, <1>4, <1>5, <2>3, OwedOne
  <2>5. Owed' = OwedBy(artifacts, v)
    BY <1>1, <2>2 DEF Owed, OwedBy
  <2> QED
    BY <1>5, <1>6, <1>7, <1>9, <2>1, <2>2, <2>4, <2>5 DEF Kept
<1> QED
  BY <1>8, <1>9

\* So does every step keep what is promised.
LEMMA StepKeeps ==
  ASSUME MonitorInv, MonitorNext PROVE Kept
<1>1. ASSUME NEW r \in DOMAIN runs, RunStep(r) PROVE Kept
  <2>1. ASSUME NEW s \in DOMAIN Phase, Upload(r, s) PROVE Kept
    BY <2>1, UploadKeeps
  <2>2. CASE SendNotice(r)
    BY <2>2, SendKeeps
  <2>3. CASE Rerun(r) \/ Begin(r) \/ Select(r) \/ Superseded(r) \/ Refuse(r) \/ Delivered(r)
    <3>1. UNCHANGED <<artifacts, mailed>>
      BY <2>3 DEF Rerun, Begin, Select, Superseded, Refuse, Delivered
    <3> QED
      BY <3>1, QuietKeeps
  <2>4. ASSUME NEW how, Break(r, how) PROVE Kept
    <3>1. UNCHANGED <<artifacts, mailed>>
      BY <2>4 DEF Break
    <3> QED
      BY <3>1, QuietKeeps
  <2>5. ASSUME NEW down, NEW trouble, Observe(r, down, trouble) PROVE Kept
    <3>1. UNCHANGED <<artifacts, mailed>>
      BY <2>5 DEF Observe
    <3> QED
      BY <3>1, QuietKeeps
  <2> QED
    BY <1>1, <2>1, <2>2, <2>3, <2>4, <2>5 DEF RunStep
<1>2. ASSUME NEW mode, Dispatch(mode) PROVE Kept
  <2>1. UNCHANGED <<artifacts, mailed>>
    BY <1>2 DEF Dispatch
  <2> QED
    BY <2>1, QuietKeeps
<1>3. ASSUME NEW quarter, TimePasses(quarter) PROVE Kept
  <2>1. UNCHANGED <<artifacts, mailed>>
    BY <1>3 DEF TimePasses
  <2> QED
    BY <2>1, QuietKeeps
<1>4. CASE Tick \/ PostTick
  <2>1. UNCHANGED <<artifacts, mailed>>
    BY <1>4 DEF Tick, PostTick
  <2> QED
    BY <2>1, QuietKeeps
<1> QED
  BY <1>1, <1>2, <1>3, <1>4 DEF MonitorNext

\* A notice that is owed is owed by each next artifact until it is mailed, none is promised
\* meanwhile, and nothing else is mailed (deliverPending and the uploads around it).
THEOREM PromisesAreKept == MonitorSpec => PromisesKept
<1>1. MonitorInv /\ [MonitorNext]_monitorVars => [Kept]_monitorVars
  BY StepKeeps
<1>2. MonitorSpec => [][Kept]_monitorVars
  BY <1>1, MonitorKeeps, PTL DEF MonitorSpec
<1> QED
  BY <1>2 DEF PromisesKept, Kept

-----------------------------------------------------------------------------
(***************************************************************************)
(* Both.                                                                   *)
(***************************************************************************)
\* Behaviours of the two parts together are behaviours of the monitor, so its theorems hold of them,
THEOREM OutsideIsMonitor == OutsideSpec => MonitorSpec
<1>1. OutsideInit => MonitorInit
  BY DEF OutsideInit
<1>2. [OutsideNext]_<<part, vars, monitorVars>> => [MonitorNext]_monitorVars
  BY DEF OutsideNext
<1> QED
  BY <1>1, <1>2, PTL DEF OutsideSpec, MonitorSpec

\* and of the sheet.
THEOREM OutsideIsSheet == OutsideSpec => Spec
<1>1. OutsideInit => Init
  BY DEF OutsideInit
<1>2. [OutsideNext]_<<part, vars, monitorVars>> => [Next]_vars
  BY DEF OutsideNext
<1> QED
  BY <1>1, <1>2, PTL DEF OutsideSpec, Spec
=============================================================================
