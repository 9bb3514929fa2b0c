--------------------------- MODULE History_proofs ---------------------------
(* Proofs about templates (TemplateChanges) for every set of editors and of   *)
(* request ids, and about split documents (StoredSplits) for files of any     *)
(* length, any piece sizes and ranges, requests and invocations.              *)
EXTENDS TemplateChanges, StoredSplits, SequenceTheorems, FiniteSetTheorems, TLAPS

-----------------------------------------------------------------------------
(***************************************************************************)
(* TemplateChanges: what is shown is the receipt's state, and a receipt is *)
(* never changed; what was sent, or soon will be, the browser has stored.  *)
(***************************************************************************)
Changes == [op : {"create", "update", "delete"}, schema : 0..MaxSchema, revision : 0..MaxRevision]
Shapes == [pending : Saves \cup {None}, body : BOOLEAN, task : Tasks]

\* Whatever names a request names one that was made.
Made ==
  /\ \A e \in Editors :
       /\ editor[e].pending # None => requests[editor[e].pending] \in Changes
       /\ editor[e].task # Idle => requests[editor[e].task.save] \in Changes
  /\ storage # None => requests[storage] \in Changes
  /\ \A call \in late : requests[call.save] \in Changes

\* An answer on its way, and one that was shown, is the state of the receipt.
AnswersAreReceipts ==
  /\ \A e \in Editors : editor[e].task.answer \in {"accepted", "closed"} =>
       receipts[editor[e].task.save] = editor[e].task.answer
  /\ \A q \in Saves : told[q] # "none" => receipts[q] = told[q]

EffectsAreReceipts == \A q \in Saves : effects[q] = IF receipts[q] = "accepted" THEN 1 ELSE 0

\* Sent, or looked up in order to be sent.
Underway(q) == Sent(q) \/ \E e \in Editors : editor[e].task.kind = "save" /\ editor[e].task.save = q
Remembered == \A q \in Saves : Underway(q) /\ told[q] = "none" => storage = q

TemplatesInv ==
  TemplatesTypeOK /\ Made /\ AnswersAreReceipts /\ EffectsAreReceipts /\ Remembered

LEMMA TemplatesInitInv == TemplatesInit => TemplatesInv
<1> SUFFICES ASSUME TemplatesInit PROVE TemplatesInv
  OBVIOUS
<1>1. \A e \in Editors : editor[e] = [pending |-> None, body |-> FALSE, task |-> Idle]
  BY DEF TemplatesInit
<1>2. TemplatesTypeOK
  <2>1. schema \in 1..MaxSchema /\ revision \in 0..MaxRevision
    BY TemplatesAssumption DEF TemplatesInit
  <2>2. editor \in [Editors -> Shapes]
    <3>1. [pending |-> None, body |-> FALSE, task |-> Idle] \in Shapes
      BY DEF Shapes, Tasks
    <3> QED
      BY <1>1, <3>1 DEF TemplatesInit
  <2> QED
    BY <2>1, <2>2 DEF TemplatesInit, TemplatesTypeOK, Shapes
<1>3. Made /\ AnswersAreReceipts /\ EffectsAreReceipts
  BY <1>1 DEF TemplatesInit, Made, AnswersAreReceipts, EffectsAreReceipts, Idle
<1>4. Remembered
  BY <1>1, TemplatesAssumption DEF TemplatesInit, Remembered, Underway, Sent, Idle
<1> QED
  BY <1>2, <1>3, <1>4 DEF TemplatesInv

\* A call of a request that was made keeps the receipts: it gives one to a request without.
LEMMA CallKeepsReceipts ==
  ASSUME TemplatesTypeOK, EffectsAreReceipts, NEW q \in Saves, requests[q] \in Changes,
         NEW call \in {"put", "close"}, Call(call, q)
  PROVE  /\ schema' \in 1..MaxSchema /\ revision' \in 0..MaxRevision /\ effects' \in [Saves -> Nat]
         /\ receipts' \in [Saves -> {"none", "accepted", "closed"}]
         /\ \A p \in Saves : receipts[p] # "none" => receipts'[p] = receipts[p]
         /\ \A p \in Saves : p # q => receipts'[p] = receipts[p]
         /\ EffectsAreReceipts'
         /\ \A p \in Saves : p # q \/ call = "close" => effects'[p] = effects[p]
<1> USE DEF TemplatesTypeOK
<1>1. requests[q] \in [op : {"create", "update", "delete"}, schema : 0..MaxSchema, revision : 0..MaxRevision]
  BY DEF Changes
<1>2. CASE Close(q) /\ call = "close"
  BY <1>2 DEF Close, EffectsAreReceipts
<1>3. CASE Mutate(q) /\ call = "put"
  <2>1. CASE Open(q) /\ Applies(q)
    <3>1. revision' \in 0..MaxRevision
      BY <1>1, <1>3, <2>1, TemplatesAssumption DEF Mutate, Applies, Open
    <3>2. /\ receipts' = [receipts EXCEPT ![q] = "accepted"] /\ schema' = schema
          /\ effects' = [effects EXCEPT ![q] = @ + 1]
      BY <1>3, <2>1 DEF Mutate
    <3> QED
      BY <1>3, <2>1, <3>1, <3>2 DEF EffectsAreReceipts, Open
  <2>2. CASE ~(Open(q) /\ Applies(q))
    BY <1>3, <2>2 DEF Mutate, serverVars, EffectsAreReceipts
  <2> QED
    BY <2>1, <2>2
<1> QED
  BY <1>2, <1>3 DEF Call

\* What a step of an editor must respect: the stored id, the calls under way, what was shown.
Keeps(e) ==
  /\ storage' \in Saves \cup {None} /\ (storage' # None => requests[storage'] \in Changes)
  /\ late \subseteq late' /\ late' \subseteq late \cup Abandoned(e)
  /\ told' \in [Saves -> {"none", "accepted", "closed"}]
  /\ \A p \in Saves : told'[p] # "none" => receipts[p] = told'[p]
  /\ \A p \in Saves : told'[p] = "none" => told[p] = "none" /\ (storage = p => storage' = p)

\* A step of one editor that asks nothing of the server and makes no request: what it keeps
\* follows from what its new state names and from what it does to the stored id.
LEMMA EditorStep ==
  ASSUME TemplatesInv, UNCHANGED <<serverVars, requests>>,
         NEW e \in Editors, NEW s \in Shapes, editor' = [editor EXCEPT ![e] = s],
         s.pending # None => requests[s.pending] \in Changes,
         s.task # Idle => requests[s.task.save] \in Changes,
         s.task.answer \in {"accepted", "closed"} => receipts[s.task.save] = s.task.answer,
         Keeps(e),
         (s.task.kind = "save" \/ s.task.call = "put") /\ told'[s.task.save] = "none" => storage' = s.task.save
  PROVE  TemplatesInv'
<1> USE TemplatesAssumption DEF Keeps
<1>1. /\ editor \in [Editors -> Shapes] /\ editor'[e] = s
      /\ \A f \in Editors : f # e => editor'[f] = editor[f]
  BY DEF TemplatesInv, TemplatesTypeOK, Shapes
<1>2. Abandoned(e) \subseteq [call : {"put", "close"}, save : Saves]
      /\ \A call \in Abandoned(e) : requests[call.save] \in Changes /\ call.call = editor[e].task.call /\ call.save = editor[e].task.save
  <2>1. CASE Waits(e, "put") \/ Waits(e, "close")
    <3>1. editor[e].task \in Tasks /\ editor[e].task # Idle /\ editor[e].task.call \in {"put", "close"}
      BY <1>1, <2>1 DEF Waits, Shapes, Idle
    <3>2. editor[e].task.save \in Saves
      BY <3>1 DEF Tasks
    <3>3. requests[editor[e].task.save] \in Changes
      BY <3>1 DEF TemplatesInv, Made
    <3> QED
      BY <2>1, <3>1, <3>2, <3>3 DEF Abandoned
  <2>2. CASE ~(Waits(e, "put") \/ Waits(e, "close"))
    BY <2>2 DEF Abandoned
  <2> QED
    BY <2>1, <2>2
<1>3. TemplatesTypeOK'
  <2>1. editor' \in [Editors -> Shapes]
    BY <1>1
  <2>2. late' \subseteq [call : {"put", "close"}, save : Saves]
    BY <1>2 DEF TemplatesInv, TemplatesTypeOK
  <2> QED
    BY <2>1, <2>2 DEF TemplatesInv, TemplatesTypeOK, Shapes, serverVars
<1>4. Made'
  BY <1>1, <1>2 DEF TemplatesInv, Made
<1>5. AnswersAreReceipts' /\ EffectsAreReceipts'
  BY <1>1 DEF TemplatesInv, AnswersAreReceipts, EffectsAreReceipts, serverVars
<1>6. Remembered'
  <2> SUFFICES ASSUME NEW p \in Saves, Underway(p)', told'[p] = "none" PROVE storage' = p
    BY DEF Remembered
  <2>1. CASE (s.task.kind = "save" \/ s.task.call = "put") /\ s.task.save = p
    BY <2>1
  <2>2. CASE ~((s.task.kind = "save" \/ s.task.call = "put") /\ s.task.save = p)
    <3>1. Underway(p)
      <4>1. CASE effects'[p] > 0
        BY <4>1 DEF Underway, Sent, serverVars
      <4>2. CASE [call |-> "put", save |-> p] \in late'
        <5>1. CASE [call |-> "put", save |-> p] \in late
          BY <5>1 DEF Underway, Sent
        <5>2. CASE [call |-> "put", save |-> p] \in Abandoned(e)
          <6>1. editor[e].task.call = "put" /\ editor[e].task.save = p
            BY <1>2, <5>2
          <6> QED
            BY <6>1 DEF Underway, Sent
        <5> QED
          BY <4>2, <5>1, <5>2
      <4>3. CASE \E f \in Editors : editor'[f].task.save = p /\ (editor'[f].task.call = "put" \/ editor'[f].task.kind = "save")
        BY <1>1, <2>2, <4>3 DEF Underway, Sent
      <4> QED
        BY <4>1, <4>2, <4>3 DEF Underway, Sent
    <3> QED
      BY <3>1 DEF TemplatesInv, Remembered
  <2> QED
    BY <2>1, <2>2
<1> QED
  BY <1>3, <1>4, <1>5, <1>6 DEF TemplatesInv

LEMMA TemplatesStepInv == TemplatesInv /\ [TemplatesNext]_templateVars => TemplatesInv'
<1> SUFFICES ASSUME TemplatesInv, [TemplatesNext]_templateVars PROVE TemplatesInv'
  OBVIOUS
<1> USE TemplatesAssumption
<1> USE DEF TemplatesInv
<1>t. TemplatesTypeOK /\ Made /\ AnswersAreReceipts /\ EffectsAreReceipts /\ Remembered
  OBVIOUS
<1>1. ASSUME NEW e \in Editors, Serve(e) PROVE TemplatesInv'
  <2> DEFINE q == editor[e].task.save
             call == editor[e].task.call
  <2>1. /\ q \in Saves /\ call \in {"put", "close"} /\ requests[q] \in Changes /\ Call(call, q)
        /\ editor[e].task.answer = "none"
    BY <1>1 DEF Serve, TemplatesTypeOK, Tasks, Idle, Made
  <2>2. /\ schema' \in 1..MaxSchema /\ revision' \in 0..MaxRevision /\ effects' \in [Saves -> Nat]
        /\ receipts' \in [Saves -> {"none", "accepted", "closed"}]
        /\ \A p \in Saves : receipts[p] # "none" => receipts'[p] = receipts[p]
        /\ \A p \in Saves : p # q => receipts'[p] = receipts[p]
        /\ EffectsAreReceipts'
        /\ \A p \in Saves : p # q \/ call = "close" => effects'[p] = effects[p]
    BY <2>1, CallKeepsReceipts
  <2>3. /\ editor' = [editor EXCEPT ![e].task.answer = AnswerOf(call, q)]
        /\ UNCHANGED <<requests, storage, late, told>>
    BY <1>1 DEF Serve
  <2>4. AnswerOf(call, q) \in {"none", "accepted", "closed", "error"}
        /\ (AnswerOf(call, q) \in {"accepted", "closed"} => AnswerOf(call, q) = receipts'[q])
    BY <2>1, <2>2 DEF AnswerOf
  <2>5. TemplatesTypeOK'
    BY <2>1, <2>2, <2>3, <2>4 DEF TemplatesTypeOK, Tasks, Idle
  <2>6. \A f \in Editors : /\ editor'[f].pending = editor[f].pending /\ editor'[f].task.save = editor[f].task.save
                           /\ editor'[f].task.call = editor[f].task.call /\ editor'[f].task.kind = editor[f].task.kind
                           /\ f # e => editor'[f] = editor[f]
    BY <2>3 DEF TemplatesTypeOK
  <2>7. editor'[e].task.answer = AnswerOf(call, q) /\ editor[e].task # Idle
    BY <2>1, <2>3 DEF TemplatesTypeOK, Idle
  <2>8. Made'
    BY <2>3, <2>6, <2>7 DEF Made
  <2>9. AnswersAreReceipts'
    BY <2>2, <2>3, <2>4, <2>6, <2>7, <2>1 DEF AnswersAreReceipts, TemplatesTypeOK, Tasks, Idle
  <2>10. \A p \in Saves : Underway(p)' => Underway(p)
    BY <2>1, <2>2, <2>3, <2>6 DEF Underway, Sent, TemplatesTypeOK
  <2>11. Remembered'
    BY <2>3, <2>10 DEF Remembered
  <2> QED
    BY <2>2, <2>5, <2>8, <2>9, <2>11
<1>2. ASSUME NEW call \in late, ServeLate(call) PROVE TemplatesInv'
  <2>1. /\ call.save \in Saves /\ call.call \in {"put", "close"} /\ requests[call.save] \in Changes
        /\ Call(call.call, call.save) /\ UNCHANGED <<requests, storage, editor, late, told>>
    BY <1>2 DEF ServeLate, TemplatesTypeOK, Made
  <2>2. /\ schema' \in 1..MaxSchema /\ revision' \in 0..MaxRevision /\ effects' \in [Saves -> Nat]
        /\ receipts' \in [Saves -> {"none", "accepted", "closed"}]
        /\ \A p \in Saves : receipts[p] # "none" => receipts'[p] = receipts[p]
        /\ EffectsAreReceipts'
        /\ \A p \in Saves : p # call.save \/ call.call = "close" => effects'[p] = effects[p]
    BY <2>1, CallKeepsReceipts
  <2>3. TemplatesTypeOK' /\ Made'
    BY <2>1, <2>2 DEF TemplatesTypeOK, Made
  <2>4. AnswersAreReceipts'
    BY <2>1, <2>2 DEF AnswersAreReceipts, TemplatesTypeOK, Tasks, Idle
  <2>5. call.call = "put" => Sent(call.save)
    <3>1. call = [call |-> call.call, save |-> call.save]
      BY DEF TemplatesTypeOK
    <3> QED
      BY <3>1 DEF Sent
  <2>6. \A p \in Saves : Underway(p)' => Underway(p)
    BY <2>1, <2>2, <2>5 DEF Underway, Sent, TemplatesTypeOK
  <2>7. Remembered'
    BY <2>1, <2>6 DEF Remembered
  <2> QED
    BY <2>2, <2>3, <2>4, <2>7
<1>3. CASE ChangeElsewhere
  <2>1. TemplatesTypeOK'
    BY <1>3 DEF ChangeElsewhere, TemplatesTypeOK
  <2> QED
    BY <1>3, <2>1 DEF ChangeElsewhere, Made, AnswersAreReceipts, EffectsAreReceipts, Remembered, Underway, Sent
<1>4. ASSUME NEW e \in Editors, NEW q \in Saves, NEW op \in {"create", "update", "delete"}, Save(e, q, op)
      PROVE  TemplatesInv'
  <2> DEFINE r == [op |-> op, schema |-> IF op = "delete" THEN 0 ELSE schema,
                   revision |-> IF op = "create" THEN 0 ELSE revision]
             s == [pending |-> q, body |-> TRUE, task |-> Sends("save", q, "find")]
  <2>1. /\ UNCHANGED <<serverVars, late, told>> /\ storage' = q /\ storage \in {None, q}
        /\ requests' = [requests EXCEPT ![q] = r] /\ r \in Changes
    BY <1>4 DEF Save, MayStore, TemplatesTypeOK, Changes
  <2>2. /\ editor' = [editor EXCEPT ![e] = s] /\ s \in Shapes
    <3>1. Sends("save", q, "find") \in Tasks
      BY DEF Sends, Tasks
    <3>2. editor' = [editor EXCEPT ![e] = s]
      BY <1>4 DEF Save
    <3> QED
      BY <3>1, <3>2 DEF Shapes
  <2> HIDE DEF r
  <2>3. TemplatesTypeOK'
    <3>1. requests' \in [Saves -> {None} \cup Changes]
      BY <2>1 DEF TemplatesTypeOK, Changes
    <3>2. editor' \in [Editors -> Shapes]
      BY <2>2 DEF TemplatesTypeOK, Shapes
    <3> QED
      BY <2>1, <3>1, <3>2 DEF TemplatesTypeOK, serverVars, Changes, Shapes
  <2>4. /\ editor'[e] = s /\ \A f \in Editors : f # e => editor'[f] = editor[f]
        /\ \A p \in Saves : requests[p] \in Changes => requests'[p] \in Changes
        /\ requests'[q] \in Changes
    BY <2>1, <2>2 DEF TemplatesTypeOK
  <2>5. Made'
    <3>1. \A f \in Editors :
            /\ editor'[f].pending # None => requests'[editor'[f].pending] \in Changes
            /\ editor'[f].task # Idle => requests'[editor'[f].task.save] \in Changes
      BY <2>4 DEF Made, TemplatesTypeOK, Sends, Tasks, Idle
    <3> QED
      BY <2>1, <2>4, <3>1 DEF Made, TemplatesTypeOK
  <2>6. AnswersAreReceipts' /\ EffectsAreReceipts'
    BY <2>1, <2>4 DEF AnswersAreReceipts, EffectsAreReceipts, serverVars, Sends
  <2>7. Remembered'
    BY <2>1, <2>4 DEF Remembered, Underway, Sent, serverVars, Sends
  <2> QED
    BY <2>3, <2>5, <2>6, <2>7
<1>5. ASSUME NEW e \in Editors, RetrySave(e) PROVE TemplatesInv'
  <2> DEFINE q == editor[e].pending
             s == [editor[e] EXCEPT !.task = Sends("save", q, "find")]
  <2>1. /\ q \in Saves /\ requests[q] \in Changes /\ storage \in {None, q} /\ storage' = q
        /\ UNCHANGED <<serverVars, requests, late, told>> /\ editor' = [editor EXCEPT ![e] = s]
    BY <1>5 DEF RetrySave, MayStore, Task, Made, TemplatesTypeOK
  <2>2. s \in Shapes /\ s.pending = q /\ s.task = Sends("save", q, "find")
    BY <2>1 DEF TemplatesTypeOK, Shapes, Tasks, Sends
  <2>3. s.task.save = q /\ s.task.answer = "none"
    BY <2>2 DEF Sends
  <2>4. Keeps(e)
    BY <2>1 DEF Keeps, TemplatesTypeOK, AnswersAreReceipts
  <2> HIDE DEF s
  <2> QED
    BY <2>1, <2>2, <2>3, <2>4, EditorStep
<1>6. ASSUME NEW e \in Editors, CheckSaved(e) \/ CloseUnknown(e) PROVE TemplatesInv'
  <2> DEFINE q == editor[e].pending
  <2>1. PICK kind \in {"check", "close"}, call \in {"find", "close"} :
          /\ q \in Saves /\ requests[q] \in Changes
          /\ UNCHANGED <<serverVars, requests, storage, late, told>>
          /\ editor' = [editor EXCEPT ![e] = [editor[e] EXCEPT !.task = Sends(kind, q, call)]]
    BY <1>6 DEF CheckSaved, CloseUnknown, Task, Made, TemplatesTypeOK
  <2> DEFINE s == [editor[e] EXCEPT !.task = Sends(kind, q, call)]
  <2>2. s \in Shapes /\ s.pending = q /\ s.task = Sends(kind, q, call)
    BY <2>1 DEF TemplatesTypeOK, Shapes, Tasks, Sends
  <2>3. editor' = [editor EXCEPT ![e] = s]
    BY <2>1
  <2>4. s.task.save = q /\ s.task.answer = "none" /\ s.task.kind # "save" /\ s.task.call # "put"
    BY <2>2 DEF Sends
  <2>5. Keeps(e)
    BY <2>1 DEF Keeps, Made, TemplatesTypeOK, AnswersAreReceipts
  <2>6. UNCHANGED <<serverVars, requests>> /\ requests[q] \in Changes
    BY <2>1
  <2> HIDE DEF s
  <2> QED
    BY <2>2, <2>3, <2>4, <2>5, <2>6, EditorStep
<1>7. ASSUME NEW e \in Editors, NEW q \in Saves, NEW outcome \in {"accepted", "closed"},
             receipts[q] = outcome, Resolved(e, q, outcome), UNCHANGED <<serverVars, requests, late>>
      PROVE  TemplatesInv'
  <2>1. CASE MayStore(q)
    <3> DEFINE s == [pending |-> None, body |-> FALSE, task |-> Idle]
    <3>1. /\ storage' = None /\ told' = [told EXCEPT ![q] = outcome] /\ editor' = [editor EXCEPT ![e] = s]
          /\ storage \in {None, q}
      BY <1>7, <2>1 DEF Resolved, MayStore
    <3>2. s \in Shapes /\ s.pending = None /\ s.task = Idle
      BY DEF Shapes, Tasks
    <3>3. s.task.answer = "none" /\ s.task.kind = "none" /\ s.task.call = "none"
      BY <3>2 DEF Idle
    <3>4. Keeps(e)
      BY <1>7, <3>1 DEF Keeps, TemplatesTypeOK, AnswersAreReceipts
    <3> HIDE DEF s
    <3> QED
      BY <1>7, <3>1, <3>2, <3>3, <3>4, EditorStep
  <2>2. CASE ~MayStore(q)
    <3> DEFINE s == [editor[e] EXCEPT !.task = Idle]
    <3>1. UNCHANGED <<storage, told>> /\ editor' = [editor EXCEPT ![e] = s]
      BY <1>7, <2>2 DEF Resolved, Task, TemplatesTypeOK
    <3>2. s \in Shapes /\ s.pending = editor[e].pending /\ s.task = Idle
      BY DEF Shapes, Tasks, TemplatesTypeOK
    <3>3. s.task.answer = "none" /\ s.task.kind = "none" /\ s.task.call = "none"
      BY <3>2 DEF Idle
    <3>4. Keeps(e) /\ (s.pending # None => requests[s.pending] \in Changes)
      BY <1>7, <3>1, <3>2 DEF Keeps, Made, TemplatesTypeOK, AnswersAreReceipts
    <3> HIDE DEF s
    <3> QED
      BY <1>7, <3>1, <3>2, <3>3, <3>4, EditorStep
  <2> QED
    BY <2>1, <2>2
<1>8. ASSUME NEW e \in Editors, Receive(e) PROVE TemplatesInv'
  <2>1. editor[e].task.save \in Saves /\ receipts[editor[e].task.save] = editor[e].task.answer
    BY <1>8 DEF Receive, TemplatesTypeOK, Tasks, Idle, AnswersAreReceipts
  <2> QED
    BY <1>7, <1>8, <2>1 DEF Receive
<1>9. ASSUME NEW e \in Editors, Find(e) PROVE TemplatesInv'
  <2> DEFINE task == editor[e].task
  <2>1. task \in Tasks /\ task # Idle /\ task.save \in Saves /\ requests[task.save] \in Changes
    BY <1>9 DEF Find, TemplatesTypeOK, Tasks, Idle, Made
  <2>2. CASE receipts[task.save] # "none"
    <3>1. receipts[task.save] \in {"accepted", "closed"}
      BY <2>1, <2>2 DEF TemplatesTypeOK
    <3> QED
      BY <1>7, <1>9, <2>1, <2>2, <3>1 DEF Find
  <2>3. CASE receipts[task.save] = "none"
    <3> DEFINE next == IF task.kind = "save" THEN Sends("save", task.save, "put") ELSE Idle
               s == [editor[e] EXCEPT !.task = next]
    <3>1. UNCHANGED <<serverVars, requests, storage, late, told>> /\ editor' = [editor EXCEPT ![e] = s]
      BY <1>9, <2>3 DEF Find, Task, TemplatesTypeOK
    <3>2. s \in Shapes /\ s.pending = editor[e].pending /\ s.task = next
      BY <2>1 DEF Shapes, Tasks, TemplatesTypeOK, Sends
    <3>3. /\ next # Idle => next.save = task.save /\ task.kind = "save"
          /\ next.answer = "none" /\ (next.kind = "save" \/ next.call = "put" => next # Idle)
      BY DEF Sends, Idle
    <3>4. next # Idle => Underway(task.save) /\ (told[task.save] = "none" => storage = task.save)
      BY <2>1, <3>3 DEF Underway, Remembered
    <3>5. Keeps(e) /\ (s.pending # None => requests[s.pending] \in Changes)
      BY <3>1, <3>2 DEF Keeps, Made, TemplatesTypeOK, AnswersAreReceipts
    <3> HIDE DEF s, next
    <3> QED
      BY <2>1, <3>1, <3>2, <3>3, <3>4, <3>5, EditorStep
  <2> QED
    BY <2>2, <2>3
<1>10. ASSUME NEW e \in Editors, EndTask(e) PROVE TemplatesInv'
  <2> DEFINE s == [editor[e] EXCEPT !.task = Idle]
  <2>1. /\ UNCHANGED <<serverVars, requests, storage, told>> /\ late' = late \cup Abandoned(e)
        /\ editor' = [editor EXCEPT ![e] = s]
    BY <1>10 DEF EndTask, Task, TemplatesTypeOK
  <2>2. s \in Shapes /\ s.pending = editor[e].pending /\ s.task = Idle
    BY DEF Shapes, Tasks, TemplatesTypeOK
  <2>3. s.task.answer = "none" /\ s.task.kind = "none" /\ s.task.call = "none"
    BY <2>2 DEF Idle
  <2>4. Keeps(e) /\ (s.pending # None => requests[s.pending] \in Changes)
    BY <2>1, <2>2 DEF Keeps, Made, TemplatesTypeOK, AnswersAreReceipts
  <2> HIDE DEF s
  <2> QED
    BY <2>1, <2>2, <2>3, <2>4, EditorStep
<1>11. ASSUME NEW e \in Editors, NEW pending \in Saves \cup {None}, NEW s \in Shapes,
              s.pending = pending, pending # None => requests[pending] \in Changes,
              s.task = IF pending = None THEN Idle ELSE Sends("check", pending, "find"),
              editor' = [editor EXCEPT ![e] = s], late' = late \cup Abandoned(e),
              UNCHANGED <<serverVars, requests, storage, told>>
       PROVE  TemplatesInv'
  <2>1. /\ s.task # Idle => pending # None /\ s.task.save = pending
        /\ s.task.answer = "none" /\ s.task.kind # "save" /\ s.task.call # "put"
    BY <1>11 DEF Sends, Idle
  <2>2. Keeps(e)
    BY <1>11 DEF Keeps, Made, TemplatesTypeOK, AnswersAreReceipts
  <2> QED
    BY <1>11, <2>1, <2>2, EditorStep
<1>12. ASSUME NEW e \in Editors, Reactivate(e) PROVE TemplatesInv'
  <2> DEFINE q == editor[e].pending
             s == [editor[e] EXCEPT !.task = IF q = None THEN Idle ELSE Sends("check", q, "find")]
  <2>1. s \in Shapes /\ s.pending = q /\ s.task = IF q = None THEN Idle ELSE Sends("check", q, "find")
    BY DEF Shapes, Tasks, TemplatesTypeOK, Sends
  <2>2. editor' = [editor EXCEPT ![e] = s] /\ q \in Saves \cup {None} /\ (q # None => requests[q] \in Changes)
    BY <1>12 DEF Reactivate, Task, TemplatesTypeOK, Made
  <2>3. late' = late \cup Abandoned(e) /\ UNCHANGED <<serverVars, requests, storage, told>>
    BY <1>12 DEF Reactivate
  <2> HIDE DEF s
  <2> QED
    BY <1>11, <2>1, <2>2, <2>3
<1>13. ASSUME NEW e \in Editors, Reload(e) PROVE TemplatesInv'
  <2> DEFINE s == [pending |-> storage, body |-> FALSE,
                   task |-> IF storage = None THEN Idle ELSE Sends("check", storage, "find")]
  <2>1. s \in Shapes /\ s.pending = storage /\ s.task = IF storage = None THEN Idle ELSE Sends("check", storage, "find")
    BY DEF Shapes, Tasks, TemplatesTypeOK, Sends
  <2>2. editor' = [editor EXCEPT ![e] = s] /\ storage \in Saves \cup {None} /\ (storage # None => requests[storage] \in Changes)
    BY <1>13 DEF Reload, TemplatesTypeOK, Made
  <2>3. late' = late \cup Abandoned(e) /\ UNCHANGED <<serverVars, requests, storage, told>>
    BY <1>13 DEF Reload
  <2> HIDE DEF s
  <2> QED
    BY <1>11, <2>1, <2>2, <2>3
<1>14. CASE UNCHANGED templateVars
  BY <1>14 DEF templateVars, serverVars, TemplatesTypeOK, Made, AnswersAreReceipts, EffectsAreReceipts,
               Remembered, Underway, Sent
<1> QED
  BY <1>1, <1>2, <1>3, <1>4, <1>5, <1>6, <1>8, <1>9, <1>10, <1>12, <1>13, <1>14 DEF TemplatesNext

LEMMA InvShows == TemplatesInv => ShownIsTrue /\ NoSaveForgotten
<1> SUFFICES ASSUME TemplatesInv PROVE ShownIsTrue /\ NoSaveForgotten
  OBVIOUS
<1>1. ShownIsTrue
  BY DEF TemplatesInv, AnswersAreReceipts, EffectsAreReceipts, ShownIsTrue
<1>2. NoSaveForgotten
  BY DEF TemplatesInv, Remembered, Underway, NoSaveForgotten
<1> QED
  BY <1>1, <1>2

\* The inductive invariant holds in every reachable state.
LEMMA TemplatesInvariant == TemplatesSpec => []TemplatesInv
<1> QED
  BY TemplatesInitInv, TemplatesStepInv, PTL DEF TemplatesSpec

\* What the server, the browser and the editors hold keeps its type, whatever is sent again.
THEOREM TemplatesTypesHold == TemplatesSpec => []TemplatesTypeOK
<1>1. TemplatesInv => TemplatesTypeOK
  BY DEF TemplatesInv
<1> QED
  BY <1>1, TemplatesInvariant, PTL

\* Whatever the editors do and however late their calls arrive, an accepted save changed its
\* template exactly once and one that was shown as closed never does.
THEOREM ShownStaysTrue == TemplatesSpec => []ShownIsTrue
<1> QED
  BY TemplatesInvariant, InvShows, PTL

\* A save that was sent and whose outcome was shown nowhere is the one the browser has stored.
THEOREM SavesAreRemembered == TemplatesSpec => []NoSaveForgotten
<1> QED
  BY TemplatesInvariant, InvShows, PTL

-----------------------------------------------------------------------------
(***************************************************************************)
(* StoredSplits: what was answered is what was decided, and a batch keeps  *)
(* its source as long as one of its documents is left.                     *)
(***************************************************************************)
Files == Seq(Nat) \ {<<>>}
FileRows == [pages : Files, batch : Requests \cup {Unused}, index : Nat, live : BOOLEAN]
Questions == [request : Requests, source : Nat, spec : Specs]

\* Roots and ranges of a batch are of no importance here.
BatchRow(b) ==
  \/ b = Unused \/ b \in [state : {"rejected"}, asked : Questions]
  \/ b \in [state : {"accepted"}, asked : Questions, pages : Files, root : {b.root}, ranges : {b.ranges},
            undone : BOOLEAN, kept : BOOLEAN]

SplitterRow(s) ==
  \/ s = Resting
  \/ s \in [at : {"answered"}, request : Requests, source : Nat, spec : Specs, receipt : {"accepted", "rejected"}]
  \/ s \in [at : {"begun", "planned", "reserved", "rejecting"}, request : Requests, source : Nat, spec : Specs,
            pages : Files, root : {s.root}]

\* What is about to be cut can be, and what was answered is what was decided.
SplitterInv(s) ==
  /\ SplitterRow(s)
  /\ s.at \in {"planned", "reserved"} => Plannable(s.spec, Len(s.pages))
  /\ s.at = "answered" =>
       /\ batches[s.request] # Unused /\ batches[s.request].asked = Asked(s.request, s.source, s.spec)
       /\ batches[s.request].state = s.receipt

BatchInv(r) ==
  /\ BatchRow(batches[r])
  /\ batches[r] # Unused => bindings[r] = IF batches[r].asked.source = Uploaded THEN Unused ELSE batches[r].asked
  /\ Accepted(r) /\ (batches[r].undone \/ ~batches[r].kept) => \A d \in Children(r) : ~files[d].live
  /\ Accepted(r) /\ batches[r].kept => \E d \in Children(r) : files[d].live

SplitsTyped ==
  /\ files \in Seq(FileRows) /\ bindings \in [Requests -> Questions \cup {Unused}]
  /\ batches = [r \in Requests |-> batches[r]] /\ splitters = [a \in Splitters |-> splitters[a]]

StoredSplitsInv ==
  SplitsTyped /\ (\A a \in Splitters : SplitterInv(splitters[a])) /\ \A r \in Requests : BatchInv(r)

\* What is cut out of a file with pages has pages.
LEMMA SplitFacts ==
  /\ Length \in Nat \ {0} /\ Sizes \cup Firsts \cup Lasts \subseteq Nat \ {0} /\ Unused \notin Requests
  /\ Whole \in Files /\ Unused \notin Questions /\ Resting.at = "idle"
<1>1. Length \in Nat \ {0} /\ Unused \notin Requests /\ 1..Length \subseteq Nat \ {0}
  BY StoredSplitsAssumption
<1>2. Sizes \cup Firsts \cup Lasts \subseteq Nat \ {0}
  BY <1>1, StoredSplitsAssumption
<1>3. Whole \in Files
  <2>1. Whole \in Seq(Nat) /\ Len(Whole) = Length
    BY <1>1 DEF Whole
  <2> QED
    BY <1>1, <2>1 DEF Files
<1>4. Unused \notin Questions
  BY DEF Unused, Questions
<1> QED
  BY <1>1, <1>2, <1>3, <1>4 DEF Resting

LEMMA PieceCount ==
  ASSUME NEW count \in Nat \ {0}, NEW size \in Nat \ {0}
  PROVE  (count + size - 1) \div size \in Nat \ {0}
<1>1. count + size - 1 \in Nat /\ count + size - 1 >= size
  OBVIOUS
<1> QED
  BY <1>1

\* Ranges that a request's file takes lie in it, and there is one at least.
LEMMA RangesFit ==
  ASSUME NEW spec \in Specs, NEW pages \in Files, Plannable(spec, Len(pages))
  PROVE  LET ranges == Ranges(spec, Len(pages))
         IN \E n \in Nat \ {0} :
              /\ DOMAIN ranges = 1..n /\ Len(ranges) = n
              /\ \A i \in 1..n : /\ ranges[i].start \in Nat \ {0} /\ ranges[i].end \in Nat
                                 /\ ranges[i].start <= ranges[i].end /\ ranges[i].end <= Len(pages)
<1> DEFINE count == Len(pages)
           ranges == Ranges(spec, count)
<1>1. count \in Nat \ {0}
  BY DEF Files
<1>2. \A i \in DOMAIN ranges : ranges[i].start <= ranges[i].end /\ ranges[i].end <= count
  BY DEF Plannable
<1>3. CASE spec \in [mode : {"every"}, size : Sizes]
  <2>1. spec.mode = "every" /\ spec.size \in Nat \ {0}
    BY <1>3, SplitFacts
  <2>2. ranges = EveryRanges(spec.size, count)
    BY <2>1 DEF Ranges
  <2> DEFINE n == (count + spec.size - 1) \div spec.size
  <2>3. n \in Nat \ {0}
    BY <1>1, <2>1, PieceCount
  <2>4. ranges = [i \in 1..n |-> PageRange((i - 1) * spec.size + 1, Least(i * spec.size, count))]
    BY <2>2 DEF EveryRanges
  <2> HIDE DEF n
  <2>5. ASSUME NEW i \in 1..n
        PROVE  ranges[i].start \in Nat \ {0} /\ ranges[i].end \in Nat
    <3>1. ranges[i] = PageRange((i - 1) * spec.size + 1, Least(i * spec.size, count))
      BY <2>4
    <3>2. i \in Nat /\ i - 1 \in Nat
      BY <2>3
    <3>3. (i - 1) * spec.size \in Nat /\ i * spec.size \in Nat
      BY <2>1, <3>2
    <3>4. Least(i * spec.size, count) \in Nat
      BY <1>1, <3>3 DEF Least
    <3> QED
      BY <3>1, <3>3, <3>4 DEF PageRange
  <2>6. DOMAIN ranges = 1..n /\ Len(ranges) = n
    BY <2>3, <2>4
  <2> QED
    BY <1>2, <2>3, <2>5, <2>6
<1>4. CASE spec \in [mode : {"ranges"}, ranges : {<<i>> : i \in Intervals}]
  <2>1. spec.mode = "ranges" /\ \E i \in Intervals : spec.ranges = <<i>>
    BY <1>4
  <2>2. ranges = spec.ranges
    BY <2>1 DEF Ranges
  <2>3. PICK s \in Firsts, e \in Lasts : ranges = <<PageRange(s, e)>>
    BY <2>1, <2>2 DEF Intervals
  <2>4. s \in Nat \ {0} /\ e \in Nat
    BY SplitFacts
  <2>5. 1 \in Nat \ {0} /\ DOMAIN ranges = 1..1 /\ Len(ranges) = 1 /\ ranges[1] = PageRange(s, e)
    BY <2>3
  <2>6. \A i \in 1..1 : ranges[i].start \in Nat \ {0} /\ ranges[i].end \in Nat
    BY <2>4, <2>5 DEF PageRange
  <2> QED
    BY <1>2, <2>5, <2>6
<1>5. CASE spec \in [mode : {"marker"}, ranges : {<<PageRange(1, e), PageRange(e + 1, Length)>> : e \in 1..(Length - 1)}]
  <2>1. spec.mode = "marker" /\ \E e \in 1..(Length - 1) : spec.ranges = <<PageRange(1, e), PageRange(e + 1, Length)>>
    BY <1>5
  <2>2. ranges = spec.ranges
    BY <2>1 DEF Ranges
  <2>3. PICK e \in 1..(Length - 1) : ranges = <<PageRange(1, e), PageRange(e + 1, Length)>>
    BY <2>1, <2>2
  <2>4. e \in Nat /\ e + 1 \in Nat \ {0} /\ Length \in Nat
    BY SplitFacts
  <2>5. 2 \in Nat \ {0} /\ DOMAIN ranges = 1..2 /\ Len(ranges) = 2 /\ ranges[1] = PageRange(1, e) /\ ranges[2] = PageRange(e + 1, Length)
    BY <2>3
  <2>6. \A i \in 1..2 : ranges[i].start \in Nat \ {0} /\ ranges[i].end \in Nat
    BY <2>4, <2>5 DEF PageRange
  <2> QED
    BY <1>2, <2>5, <2>6
<1> QED
  BY <1>3, <1>4, <1>5 DEF Specs

LEMMA PieceHasPages ==
  ASSUME NEW pages \in Files, NEW s \in Nat \ {0}, NEW e \in Nat, s <= e, e <= Len(pages)
  PROVE  SubSeq(pages, s, e) \in Files
<1>1. pages \in Seq(Nat) /\ Len(pages) \in Nat /\ s \in Int /\ e \in Int
  BY DEF Files
<1>2. \A i \in s..e : pages[i] \in Nat
  BY <1>1
<1>3. SubSeq(pages, s, e) \in Seq(Nat) /\ Len(SubSeq(pages, s, e)) = e - s + 1
  BY <1>1, <1>2, SubSeqProperties
<1>4. Len(SubSeq(pages, s, e)) # 0
  BY <1>1, <1>3
<1> QED
  BY <1>3, <1>4 DEF Files

\* Rows.
LEMMA FileFacts ==
  ASSUME SplitsTyped, NEW d \in DOMAIN files
  PROVE  files[d] \in FileRows /\ d \in Nat /\ DOMAIN files = 1..Len(files) /\ Len(files) \in Nat
BY DEF SplitsTyped

LEMMA AtWork ==
  ASSUME NEW s, SplitterRow(s), s.at \in {"begun", "planned", "reserved", "rejecting"}
  PROVE  /\ s \in [at : {"begun", "planned", "reserved", "rejecting"}, request : Requests, source : Nat, spec : Specs,
                   pages : Files, root : {s.root}]
         /\ s.request \in Requests /\ s.source \in Nat /\ s.spec \in Specs /\ s.pages \in Files
BY SplitFacts DEF SplitterRow

\* One splitter moves, and nothing else changes.
LEMMA SplitterMoves ==
  ASSUME StoredSplitsInv, UNCHANGED <<files, bindings, batches>>, NEW a \in Splitters, NEW s,
         splitters' = [splitters EXCEPT ![a] = s], SplitterInv(s)
  PROVE  StoredSplitsInv'
<1>1. splitters'[a] = s /\ (\A b \in Splitters \ {a} : splitters'[b] = splitters[b]) /\ splitters' = [b \in Splitters |-> splitters'[b]]
  BY DEF StoredSplitsInv, SplitsTyped
<1>2. SplitsTyped'
  BY <1>1 DEF StoredSplitsInv, SplitsTyped
<1>3. ASSUME NEW b \in Splitters PROVE SplitterInv(splitters[b])'
  BY <1>1 DEF StoredSplitsInv, SplitterInv
<1>4. ASSUME NEW r \in Requests PROVE BatchInv(r)'
  BY DEF StoredSplitsInv, BatchInv, Accepted, Children
<1> QED
  BY <1>2, <1>3, <1>4 DEF StoredSplitsInv

\* It goes on to another place.
LEMMA SplitterGoesOn ==
  ASSUME StoredSplitsInv, UNCHANGED <<files, bindings, batches>>, NEW a \in Splitters,
         splitters[a].at \in {"begun", "planned", "reserved", "rejecting"},
         NEW place \in {"planned", "reserved", "rejecting"}, SplitterGoes(a, place),
         place # "rejecting" => Plannable(splitters[a].spec, Len(splitters[a].pages))
  PROVE  StoredSplitsInv'
<1> DEFINE s == [splitters[a] EXCEPT !.at = place]
<1>1. SplitterRow(splitters[a])
  BY DEF StoredSplitsInv, SplitterInv
<1>2. splitters[a] \in [at : {"begun", "planned", "reserved", "rejecting"}, request : Requests, source : Nat, spec : Specs,
                   pages : Files, root : {splitters[a].root}]
  BY <1>1, AtWork
<1>3. /\ s \in [at : {"begun", "planned", "reserved", "rejecting"}, request : Requests, source : Nat, spec : Specs,
                pages : Files, root : {splitters[a].root}]
      /\ s.at = place /\ s.spec = splitters[a].spec /\ s.pages = splitters[a].pages /\ s.root = splitters[a].root
  BY <1>2
<1>4. splitters' = [splitters EXCEPT ![a] = s]
  BY DEF SplitterGoes
<1> HIDE DEF s
<1>5. SplitterInv(s)
  BY <1>3 DEF SplitterInv, SplitterRow
<1> QED
  BY <1>4, <1>5, SplitterMoves

\* It answers with the outcome of its request.
LEMMA SplitterAnswers ==
  ASSUME StoredSplitsInv, NEW a \in Splitters, NEW receipt \in {"accepted", "rejected"},
         splitters[a].at \in {"begun", "planned", "reserved", "rejecting"}, Answer(a, receipt),
         batches'[splitters[a].request] # Unused, batches'[splitters[a].request].asked = AskedBy(a),
         batches'[splitters[a].request].state = receipt
  PROVE  SplitterInv(splitters[a])' /\ splitters' = [b \in Splitters |-> splitters'[b]]
         /\ \A b \in Splitters \ {a} : splitters'[b] = splitters[b]
<1> DEFINE s == [at |-> "answered", request |-> splitters[a].request, source |-> splitters[a].source,
                 spec |-> splitters[a].spec, receipt |-> receipt]
<1>1. /\ splitters[a].request \in Requests /\ splitters[a].source \in Nat /\ splitters[a].spec \in Specs
  BY AtWork DEF StoredSplitsInv, SplitterInv
<1>2. s \in [at : {"answered"}, request : Requests, source : Nat, spec : Specs, receipt : {"accepted", "rejected"}]
  BY <1>1
<1>3. s.at = "answered" /\ s.request = splitters[a].request /\ s.source = splitters[a].source /\ s.spec = splitters[a].spec
      /\ s.receipt = receipt
  OBVIOUS
<1> HIDE DEF s
<1>4. splitters' = [splitters EXCEPT ![a] = s]
  BY DEF Answer, s
<1>5. splitters'[a] = s /\ splitters' = [b \in Splitters |-> splitters'[b]] /\ \A b \in Splitters \ {a} : splitters'[b] = splitters[b]
  BY <1>4 DEF StoredSplitsInv, SplitsTyped
<1>6. AskedBy(a) = Asked(s.request, s.source, s.spec)
  BY <1>3 DEF AskedBy
<1>7. SplitterInv(splitters[a])'
  BY <1>2, <1>3, <1>5, <1>6 DEF SplitterInv, SplitterRow, Asked
<1> QED
  BY <1>5, <1>7

\* Answers stay what was decided while outcomes stay.
LEMMA AnswersStay ==
  ASSUME NEW s, SplitterInv(s), s.at = "answered" => s.request \in Requests,
         \A r \in Requests : batches[r] # Unused =>
           batches'[r] # Unused /\ batches'[r].asked = batches[r].asked /\ batches'[r].state = batches[r].state
  PROVE  SplitterInv(s)'
BY DEF SplitterInv

-----------------------------------------------------------------------------
LEMMA FilesInitial == FilesInit => StoredSplitsInv
<1> SUFFICES ASSUME FilesInit PROVE StoredSplitsInv
  OBVIOUS
<1> DEFINE upload == [pages |-> Whole, batch |-> Unused, index |-> 0, live |-> TRUE]
<1>1. upload \in FileRows
  BY SplitFacts DEF FileRows
<1> HIDE DEF upload
<1>2. files = <<upload>>
  BY DEF FilesInit, upload
<1>3. SplitsTyped
  <2>1. files \in Seq(FileRows)
    BY <1>1, <1>2
  <2>2. bindings = [r \in Requests |-> Unused] /\ batches = [r \in Requests |-> Unused] /\ splitters = [a \in Splitters |-> Resting]
    BY DEF FilesInit
  <2>3. bindings \in [Requests -> Questions \cup {Unused}]
    BY <2>2
  <2>4. batches = [r \in Requests |-> batches[r]]
    BY <2>2
  <2>5. splitters = [a \in Splitters |-> splitters[a]]
    BY <2>2
  <2> QED
    BY <2>1, <2>3, <2>4, <2>5 DEF SplitsTyped
<1>4. ASSUME NEW a \in Splitters PROVE SplitterInv(splitters[a])
  BY SplitFacts DEF FilesInit, SplitterInv, SplitterRow
<1>5. ASSUME NEW r \in Requests PROVE BatchInv(r)
  BY DEF FilesInit, BatchInv, BatchRow, Accepted
<1> QED
  BY <1>3, <1>4, <1>5 DEF StoredSplitsInv

\* A split begins, or is answered at once.
LEMMA BeginStep ==
  ASSUME StoredSplitsInv, NEW a \in Splitters, NEW r \in Requests, NEW spec \in Specs,
         UploadSplit(a, r, spec) \/ \E d \in DOMAIN files : Admit(a, r, d, spec)
  PROVE  StoredSplitsInv'
<1>1. ASSUME NEW source \in Nat, NEW pages \in Files, NEW root, Start(a, r, source, spec, pages, root),
             UNCHANGED <<files, batches>>, bindings' = bindings \/ (batches[r] = Unused /\ bindings' = [bindings EXCEPT ![r] = Asked(r, source, spec)])
      PROVE  StoredSplitsInv'
  <2> DEFINE s == [at |-> "begun", request |-> r, source |-> source, spec |-> spec, pages |-> pages, root |-> root]
  <2>1. SplitterRow(s) /\ s.at = "begun"
    <3>1. s \in [at : {"begun", "planned", "reserved", "rejecting"}, request : Requests, source : Nat, spec : Specs,
                 pages : Files, root : {s.root}]
      OBVIOUS
    <3> QED
      BY <3>1 DEF SplitterRow
  <2> HIDE DEF s
  <2>2. splitters' = [splitters EXCEPT ![a] = s]
    BY <1>1 DEF Start, s
  <2>3. splitters'[a] = s /\ (\A b \in Splitters \ {a} : splitters'[b] = splitters[b]) /\ splitters' = [b \in Splitters |-> splitters'[b]]
    BY <2>2 DEF StoredSplitsInv, SplitsTyped
  <2>4. bindings' \in [Requests -> Questions \cup {Unused}] /\ \A q \in Requests : batches[q] # Unused => bindings'[q] = bindings[q]
    <3>1. Asked(r, source, spec) \in Questions
      BY DEF Asked, Questions
    <3> QED
      BY <1>1, <3>1 DEF StoredSplitsInv, SplitsTyped
  <2>5. SplitsTyped'
    BY <1>1, <2>3, <2>4 DEF StoredSplitsInv, SplitsTyped
  <2>6. ASSUME NEW b \in Splitters PROVE SplitterInv(splitters[b])'
    BY <1>1, <2>1, <2>3 DEF StoredSplitsInv, SplitterInv
  <2>7. ASSUME NEW q \in Requests PROVE BatchInv(q)'
    BY <1>1, <2>4 DEF StoredSplitsInv, BatchInv, Accepted, Children
  <2> QED
    BY <2>5, <2>6, <2>7 DEF StoredSplitsInv
<1>2. CASE UploadSplit(a, r, spec)
  BY <1>1, <1>2, SplitFacts DEF UploadSplit, Uploaded
<1>3. ASSUME NEW d \in DOMAIN files, Admit(a, r, d, spec) PROVE StoredSplitsInv'
  <2>1. d \in Nat /\ files[d].pages \in Files
    BY FileFacts DEF StoredSplitsInv, FileRows
  <2>2. CASE Replays(r, Asked(r, d, spec)) /\ UNCHANGED bindings
             /\ splitters' = [splitters EXCEPT ![a] =
                  [at |-> "answered", request |-> r, source |-> d, spec |-> spec, receipt |-> batches[r].state]]
    <3> DEFINE s == [at |-> "answered", request |-> r, source |-> d, spec |-> spec, receipt |-> batches[r].state]
    <3>1. batches[r] # Unused /\ batches[r].asked = Asked(r, d, spec) /\ batches[r].state \in {"accepted", "rejected"}
      BY <2>2 DEF Replays, StoredSplitsInv, BatchInv, BatchRow
    <3>2. s \in [at : {"answered"}, request : Requests, source : Nat, spec : Specs, receipt : {"accepted", "rejected"}]
      BY <2>1, <3>1
    <3>3. s.at = "answered" /\ s.request = r /\ s.source = d /\ s.spec = spec /\ s.receipt = batches[r].state
      OBVIOUS
    <3> HIDE DEF s
    <3>4. SplitterInv(s)
      BY <3>1, <3>2, <3>3 DEF SplitterInv, SplitterRow
    <3>5. splitters' = [splitters EXCEPT ![a] = s]
      BY <2>2 DEF s
    <3> QED
      BY <1>3, <2>2, <3>4, <3>5, SplitterMoves DEF Admit
  <2>3. CASE batches[r] = Unused /\ bindings' = [bindings EXCEPT ![r] = Asked(r, d, spec)]
             /\ Start(a, r, d, spec, files[d].pages, RootOf(d))
    BY <1>1, <1>3, <2>1, <2>3 DEF Admit
  <2> QED
    BY <1>3, <2>2, <2>3 DEF Admit
<1> QED
  BY <1>2, <1>3

\* Transactions that find the outcome, or pass on.
LEMMA PassStep ==
  ASSUME StoredSplitsInv, NEW a \in Splitters, Replay(a) \/ Cut(a) \/ ReserveSplit(a) \/ SplitFails(a)
  PROVE  StoredSplitsInv'
<1>1. CASE SplitFails(a)
  <2>1. SplitterInv(Resting)
    BY SplitFacts DEF SplitterInv, SplitterRow
  <2> QED
    BY <1>1, <2>1, SplitterMoves DEF SplitFails, Stops
<1>2. CASE Cut(a)
  <2> DEFINE spec == splitters[a].spec
             pages == splitters[a].pages
             place == IF Plannable(spec, Len(pages)) /\ MarkerVerified(spec, pages) THEN "planned" ELSE "rejecting"
  <2>1. SplitterGoes(a, place) /\ splitters[a].at = "begun" /\ UNCHANGED <<files, bindings, batches>>
    BY <1>2 DEF Cut
  <2>2. place \in {"planned", "reserved", "rejecting"} /\ (place # "rejecting" => Plannable(spec, Len(pages)))
    OBVIOUS
  <2> HIDE DEF place
  <2> QED
    BY <2>1, <2>2, SplitterGoesOn
<1>3. CASE ReserveSplit(a)
  <2>1. splitters[a].at = "planned" /\ UNCHANGED <<files, bindings, batches>>
    BY <1>3 DEF ReserveSplit
  <2>2. PICK place \in {"reserved", "rejecting"} : SplitterGoes(a, place)
    BY <1>3 DEF ReserveSplit
  <2>3. Plannable(splitters[a].spec, Len(splitters[a].pages))
    BY <2>1 DEF StoredSplitsInv, SplitterInv
  <2> QED
    BY <2>1, <2>2, <2>3, SplitterGoesOn
<1>4. CASE Replay(a)
  <2> DEFINE r == splitters[a].request
             s == [at |-> "answered", request |-> r, source |-> splitters[a].source, spec |-> splitters[a].spec,
                   receipt |-> batches[r].state]
  <2>1. /\ splitters[a].at \in {"begun", "reserved", "rejecting", "planned"} /\ batches[r] # Unused
        /\ batches[r].asked = AskedBy(a) /\ UNCHANGED <<files, bindings, batches>>
        /\ splitters' = [splitters EXCEPT ![a] = s]
    BY <1>4 DEF Replay, Prior, Replays, Answer
  <2>2. r \in Requests /\ splitters[a].source \in Nat /\ splitters[a].spec \in Specs
    BY <2>1, AtWork DEF StoredSplitsInv, SplitterInv
  <2>3. batches[r].state \in {"accepted", "rejected"}
    BY <2>1, <2>2 DEF StoredSplitsInv, BatchInv, BatchRow
  <2>4. s \in [at : {"answered"}, request : Requests, source : Nat, spec : Specs, receipt : {"accepted", "rejected"}]
    BY <2>2, <2>3
  <2>5. /\ s.at = "answered" /\ s.request = r /\ s.receipt = batches[r].state
        /\ Asked(s.request, s.source, s.spec) = AskedBy(a)
    BY DEF AskedBy
  <2> HIDE DEF s
  <2>6. SplitterInv(s)
    BY <2>1, <2>4, <2>5 DEF SplitterInv, SplitterRow
  <2> QED
    BY <2>1, <2>6, SplitterMoves
<1> QED
  BY <1>1, <1>2, <1>3, <1>4

\* A batch, or a refusal, becomes what its request stands for.
LEMMA DecideStep ==
  ASSUME StoredSplitsInv, NEW a \in Splitters, CommitSplit(a) \/ RejectSplit(a)
  PROVE  StoredSplitsInv'
<1> DEFINE spec == splitters[a].spec
           pages == splitters[a].pages
           ranges == Ranges(spec, Len(pages))
<1>1. splitters[a].at \in {"reserved", "rejecting"} /\ UNCHANGED bindings /\ NotMade(splitters[a].request, AskedBy(a))
  BY DEF CommitSplit, RejectSplit
<1>2. PICK r \in Requests : r = splitters[a].request
  BY <1>1, AtWork DEF StoredSplitsInv, SplitterInv
<1>3. /\ splitters[a].source \in Nat /\ spec \in Specs /\ pages \in Files
      /\ splitters[a].at = "reserved" => Plannable(spec, Len(pages))
  BY <1>1, AtWork DEF StoredSplitsInv, SplitterInv
<1>4. /\ AskedBy(a) \in Questions /\ AskedBy(a).source = splitters[a].source
      /\ batches[r] = Unused /\ bindings[r] = (IF AskedBy(a).source = Uploaded THEN Unused ELSE AskedBy(a))
  BY <1>1, <1>2, <1>3 DEF AskedBy, Asked, Questions, NotMade, Bound
\* The new row, whatever it is, and the answer that tells of it.
<1>5. ASSUME NEW row, BatchRow(row), row # Unused, row.asked = AskedBy(a), batches' = [batches EXCEPT ![r] = row],
             row.state \in {"accepted", "rejected"}, Answer(a, row.state)
      PROVE  /\ \A b \in Splitters : SplitterInv(splitters[b])'
             /\ batches' = [q \in Requests |-> batches'[q]] /\ splitters' = [b \in Splitters |-> splitters'[b]]
             /\ batches'[r] = row /\ \A q \in Requests \ {r} : batches'[q] = batches[q]
  <2>1. batches'[r] = row /\ (\A q \in Requests \ {r} : batches'[q] = batches[q]) /\ batches' = [q \in Requests |-> batches'[q]]
    BY <1>5 DEF StoredSplitsInv, SplitsTyped
  <2>2. /\ SplitterInv(splitters[a])' /\ splitters' = [b \in Splitters |-> splitters'[b]]
        /\ \A b \in Splitters \ {a} : splitters'[b] = splitters[b]
    BY <1>1, <1>2, <1>5, <2>1, SplitterAnswers
  <2>3. ASSUME NEW b \in Splitters \ {a} PROVE SplitterInv(splitters[b])'
    <3>1. SplitterInv(splitters[b]) /\ (splitters[b].at = "answered" => splitters[b].request \in Requests)
      BY SplitFacts DEF StoredSplitsInv, SplitterInv, SplitterRow
    <3>2. \A q \in Requests : batches[q] # Unused =>
            batches'[q] # Unused /\ batches'[q].asked = batches[q].asked /\ batches'[q].state = batches[q].state
      BY <1>4, <2>1
    <3> QED
      BY <2>2, <3>1, <3>2 DEF SplitterInv
  <2> QED
    BY <2>1, <2>2, <2>3
<1>6. CASE RejectSplit(a)
  <2> DEFINE row == [state |-> "rejected", asked |-> AskedBy(a)]
  <2>1. batches' = [batches EXCEPT ![r] = row] /\ Answer(a, row.state) /\ files' = files
    BY <1>2, <1>6 DEF RejectSplit
  <2>2. BatchRow(row) /\ row # Unused /\ row.asked = AskedBy(a) /\ row.state = "rejected"
    BY <1>4 DEF BatchRow, Unused
  <2> HIDE DEF row
  <2>3. /\ \A b \in Splitters : SplitterInv(splitters[b])'
        /\ batches' = [q \in Requests |-> batches'[q]] /\ splitters' = [b \in Splitters |-> splitters'[b]]
        /\ batches'[r] = row /\ \A q \in Requests \ {r} : batches'[q] = batches[q]
    BY <1>5, <2>1, <2>2
  <2>4. SplitsTyped'
    BY <1>1, <2>1, <2>3 DEF StoredSplitsInv, SplitsTyped
  <2>5. BatchInv(r)'
    BY <1>1, <1>4, <2>2, <2>3 DEF BatchInv, BatchRow, Accepted
  <2>6. ASSUME NEW q \in Requests \ {r} PROVE BatchInv(q)'
    BY <1>1, <2>1, <2>3 DEF StoredSplitsInv, BatchInv, BatchRow, Accepted, Children
  <2> QED
    BY <2>3, <2>4, <2>5, <2>6 DEF StoredSplitsInv
<1>7. CASE CommitSplit(a) /\ SplitterGoes(a, "rejecting") /\ UNCHANGED <<batches, files>>
  BY <1>1, <1>7, SplitterGoesOn
<1>8. CASE CommitSplit(a) /\ ~(SplitterGoes(a, "rejecting") /\ UNCHANGED <<batches, files>>)
  <2> DEFINE row == [state |-> "accepted", asked |-> AskedBy(a), pages |-> pages, root |-> splitters[a].root,
                     ranges |-> ranges, undone |-> FALSE, kept |-> TRUE]
             parts == [i \in DOMAIN ranges |-> Part(a, ranges, i)]
  <2>1. batches' = [batches EXCEPT ![r] = row] /\ Answer(a, "accepted") /\ files' = files \o parts
        /\ splitters[a].at = "reserved"
    BY <1>2, <1>8 DEF CommitSplit
  <2>2. row \in [state : {"accepted"}, asked : Questions, pages : Files, root : {row.root}, ranges : {row.ranges},
                 undone : BOOLEAN, kept : BOOLEAN]
    BY <1>3, <1>4
  <2>3. row # Unused /\ row.asked = AskedBy(a) /\ row.state = "accepted" /\ row.undone = FALSE /\ row.kept = TRUE
    BY DEF Unused
  <2> HIDE DEF row
  <2>4. BatchRow(row)
    BY <2>2 DEF BatchRow
  <2>5. /\ \A b \in Splitters : SplitterInv(splitters[b])'
        /\ batches' = [q \in Requests |-> batches'[q]] /\ splitters' = [b \in Splitters |-> splitters'[b]]
        /\ batches'[r] = row /\ \A q \in Requests \ {r} : batches'[q] = batches[q]
    BY <1>5, <2>1, <2>3, <2>4
  <2>6. PICK n \in Nat \ {0} :
          /\ DOMAIN ranges = 1..n
          /\ \A i \in 1..n : /\ ranges[i].start \in Nat \ {0} /\ ranges[i].end \in Nat
                             /\ ranges[i].start <= ranges[i].end /\ ranges[i].end <= Len(pages)
    BY <1>3, <2>1, RangesFit
  <2> HIDE DEF ranges
  <2>7. ASSUME NEW i \in 1..n
        PROVE  parts[i] \in FileRows /\ parts[i].batch = r /\ parts[i].live = TRUE
    <3>1. SubSeq(pages, ranges[i].start, ranges[i].end) \in Files
      BY <1>3, <2>6, PieceHasPages
    <3>2. parts[i] = [pages |-> SubSeq(pages, ranges[i].start, ranges[i].end), batch |-> r, index |-> i, live |-> TRUE]
      BY <1>2, <2>6 DEF Part
    <3>3. ASSUME NEW cut \in Files
          PROVE  [pages |-> cut, batch |-> r, index |-> i, live |-> TRUE] \in FileRows
      BY DEF FileRows
    <3>4. parts[i] \in FileRows
      BY <3>1, <3>2, <3>3
    <3> QED
      BY <3>2, <3>4
  <2>8. parts \in Seq(FileRows) /\ Len(parts) = n
    <3>1. DOMAIN parts = 1..n
      BY <2>6
    <3>2. parts = [i \in 1..n |-> parts[i]]
      BY <3>1
    <3> HIDE DEF parts
    <3>3. parts \in [1..n -> FileRows]
      BY <2>7, <3>1, <3>2
    <3> QED
      BY <3>3
  <2> HIDE DEF parts
  <2>9. files \in Seq(FileRows) /\ Len(files) \in Nat /\ DOMAIN files = 1..Len(files)
    BY DEF StoredSplitsInv, SplitsTyped
  <2>10. /\ files' \in Seq(FileRows) /\ DOMAIN files' = 1..(Len(files) + n)
         /\ \A d \in 1..(Len(files) + n) : files'[d] = IF d <= Len(files) THEN files[d] ELSE parts[d - Len(files)]
    <3>1. /\ files \o parts \in Seq(FileRows) /\ Len(files \o parts) = Len(files) + Len(parts)
          /\ \A d \in 1..(Len(files) + Len(parts)) :
               (files \o parts)[d] = IF d <= Len(files) THEN files[d] ELSE parts[d - Len(files)]
      BY <2>8, <2>9, ConcatProperties
    <3>2. /\ files' \in Seq(FileRows) /\ Len(files') = Len(files) + n
          /\ \A d \in 1..(Len(files) + n) : files'[d] = IF d <= Len(files) THEN files[d] ELSE parts[d - Len(files)]
      BY <2>1, <2>8, <3>1
    <3> QED
      BY <3>2
  <2>11. /\ \A d \in DOMAIN files : d \in DOMAIN files' /\ files'[d] = files[d]
         /\ \A d \in DOMAIN files' \ DOMAIN files : files'[d].batch = r /\ files'[d].live = TRUE
    <3>1. ASSUME NEW d \in DOMAIN files PROVE d \in DOMAIN files' /\ files'[d] = files[d]
      BY <2>6, <2>9, <2>10
    <3>2. ASSUME NEW d \in DOMAIN files' \ DOMAIN files PROVE files'[d].batch = r /\ files'[d].live = TRUE
      <4>1. d \in 1..(Len(files) + n) /\ ~(d <= Len(files)) /\ d - Len(files) \in 1..n
        BY <2>6, <2>9, <2>10
      <4> QED
        BY <2>7, <2>10, <4>1
    <3> QED
      BY <3>1, <3>2
  <2>12. Len(files) + 1 \in DOMAIN files' /\ Len(files) + 1 \notin DOMAIN files
    BY <2>6, <2>9, <2>10
  <2>13. SplitsTyped'
    BY <1>1, <2>5, <2>10 DEF StoredSplitsInv, SplitsTyped
  <2>14. BatchInv(r)'
    <3>1. Len(files) + 1 \in Children(r)' /\ files'[Len(files) + 1].live
      BY <2>11, <2>12 DEF Children
    <3> QED
      BY <1>1, <1>4, <2>3, <2>4, <2>5, <3>1 DEF BatchInv, Accepted
  <2>15. ASSUME NEW q \in Requests \ {r} PROVE BatchInv(q)'
    <3>1. Children(q)' = Children(q) /\ \A d \in Children(q) : files'[d].live = files[d].live
      BY <2>11 DEF Children
    <3>2. BatchInv(q) /\ batches'[q] = batches[q]
      BY <2>5 DEF StoredSplitsInv
    <3> QED
      BY <1>1, <3>1, <3>2 DEF BatchInv, Accepted
  <2> QED
    BY <2>5, <2>13, <2>14, <2>15 DEF StoredSplitsInv
<1> QED
  BY <1>6, <1>7, <1>8

\* Documents of dead are deleted, which changes nothing else of them.
LEMMA PurgedFiles ==
  ASSUME StoredSplitsInv, NEW dead, files' = Purged(dead)
  PROVE  /\ files' \in Seq(FileRows) /\ \A r \in Requests : Children(r)' = Children(r)
         /\ \A d \in DOMAIN files : files'[d].live <=> files[d].live /\ d \notin dead
<1>1. files \in Seq(FileRows) /\ DOMAIN files = 1..Len(files) /\ Len(files) \in Nat
  BY DEF StoredSplitsInv, SplitsTyped
<1>2. DOMAIN files' = DOMAIN files
  BY DEF Purged
<1>3. ASSUME NEW d \in DOMAIN files
      PROVE  files'[d] \in FileRows /\ files'[d].batch = files[d].batch /\ (files'[d].live <=> files[d].live /\ d \notin dead)
  <2>1. files[d] \in FileRows
    BY <1>1
  <2>2. CASE d \in dead
    <3>1. files'[d] = [files[d] EXCEPT !.live = FALSE]
      BY <2>2 DEF Purged
    <3> QED
      BY <2>1, <2>2, <3>1 DEF FileRows
  <2>3. CASE d \notin dead
    BY <2>1, <2>3 DEF Purged
  <2> QED
    BY <2>2, <2>3
<1>4. files' \in [1..Len(files) -> FileRows]
  <2>1. files' = [d \in 1..Len(files) |-> files'[d]]
    BY <1>1 DEF Purged
  <2> QED
    BY <1>1, <1>3, <2>1
<1>5. files' \in Seq(FileRows)
  BY <1>1, <1>4
<1>6. ASSUME NEW r \in Requests PROVE Children(r)' = Children(r)
  BY <1>2, <1>3 DEF Children
<1> QED
  BY <1>3, <1>5, <1>6

LEMMA PurgeStep ==
  ASSUME StoredSplitsInv,
         (\E d \in DOMAIN files : PurgeFile(d)) \/ \E r \in Requests : UndoSplit(r) \/ PurgeSplit(r)
  PROVE  StoredSplitsInv'
\* Whatever the rows' flags become, as long as they tell what is left.
<1>1. ASSUME NEW dead, files' = Purged(dead), UNCHANGED <<bindings, splitters>>,
             batches' = [q \in Requests |-> batches'[q]],
             \A q \in Requests : ~Accepted(q) => batches'[q] = batches[q],
             \A q \in Requests : Accepted(q) =>
               /\ BatchRow(batches'[q]) /\ batches'[q] # Unused
               /\ batches'[q].state = batches[q].state /\ batches'[q].asked = batches[q].asked
               /\ batches'[q].undone \/ ~batches'[q].kept => \A d \in Children(q) : d \in dead \/ ~files[d].live
               /\ batches'[q].kept => \E d \in Children(q) : d \notin dead /\ files[d].live
      PROVE  StoredSplitsInv'
  <2>1. /\ files' \in Seq(FileRows) /\ \A r \in Requests : Children(r)' = Children(r)
        /\ \A d \in DOMAIN files : files'[d].live <=> files[d].live /\ d \notin dead
    BY <1>1, PurgedFiles
  <2>2. SplitsTyped'
    BY <1>1, <2>1 DEF StoredSplitsInv, SplitsTyped
  <2>3. ASSUME NEW q \in Requests
        PROVE  (batches[q] # Unused <=> batches'[q] # Unused) /\ (Accepted(q)' <=> Accepted(q))
               /\ (batches[q] # Unused => batches'[q].asked = batches[q].asked /\ batches'[q].state = batches[q].state)
    BY <1>1 DEF Accepted
  <2>4. ASSUME NEW b \in Splitters PROVE SplitterInv(splitters[b])'
    <3>1. SplitterInv(splitters[b]) /\ (splitters[b].at = "answered" => splitters[b].request \in Requests)
      BY SplitFacts DEF StoredSplitsInv, SplitterInv, SplitterRow
    <3> QED
      BY <1>1, <2>3, <3>1 DEF SplitterInv
  <2>5. ASSUME NEW q \in Requests PROVE BatchInv(q)'
    <3>1. BatchInv(q) /\ Children(q) \subseteq DOMAIN files
      BY DEF StoredSplitsInv, Children
    <3>2. BatchRow(batches[q])'
      BY <1>1, <3>1 DEF BatchInv, BatchRow
    <3>3. batches'[q] # Unused => bindings'[q] = IF batches'[q].asked.source = Uploaded THEN Unused ELSE batches'[q].asked
      BY <1>1, <2>3, <3>1 DEF BatchInv
    <3>4. Accepted(q)' /\ (batches'[q].undone \/ ~batches'[q].kept) => \A d \in Children(q)' : ~files'[d].live
      BY <1>1, <2>1, <2>3, <3>1
    <3>5. Accepted(q)' /\ batches'[q].kept => \E d \in Children(q)' : files'[d].live
      BY <1>1, <2>1, <2>3, <3>1
    <3> QED
      BY <3>2, <3>3, <3>4, <3>5 DEF BatchInv
  <2> QED
    BY <2>2, <2>4, <2>5 DEF StoredSplitsInv
<1>2. ASSUME NEW q \in Requests, Accepted(q), NEW b, NEW undone \in BOOLEAN, NEW kept \in BOOLEAN,
             b = [batches[q] EXCEPT !.undone = undone, !.kept = kept]
      PROVE  BatchRow(b) /\ b # Unused /\ b.state = batches[q].state /\ b.asked = batches[q].asked /\ b.undone = undone /\ b.kept = kept
  <2>1. batches[q] \in [state : {"accepted"}, asked : Questions, pages : Files, root : {batches[q].root},
                        ranges : {batches[q].ranges}, undone : BOOLEAN, kept : BOOLEAN]
    BY <1>2 DEF StoredSplitsInv, BatchInv, BatchRow, Accepted
  <2>2. /\ b \in [state : {"accepted"}, asked : Questions, pages : Files, root : {b.root}, ranges : {b.ranges},
                  undone : BOOLEAN, kept : BOOLEAN]
        /\ b.state = batches[q].state /\ b.asked = batches[q].asked /\ b.undone = undone /\ b.kept = kept
    BY <1>2, <2>1
  <2>3. b # Unused
    BY <2>2 DEF Unused
  <2> QED
    BY <2>2, <2>3 DEF BatchRow
<1>3. ASSUME NEW q \in Requests, Accepted(q)
      PROVE  /\ batches[q].undone \in BOOLEAN /\ batches[q].kept \in BOOLEAN
             /\ \A k \in BOOLEAN : [batches[q] EXCEPT !.kept = k] = [batches[q] EXCEPT !.undone = batches[q].undone, !.kept = k]
             /\ batches[q] = [batches[q] EXCEPT !.undone = batches[q].undone, !.kept = batches[q].kept]
             /\ batches[q].undone \/ ~batches[q].kept => \A d \in Children(q) : ~files[d].live
             /\ batches[q].kept => \E d \in Children(q) : files[d].live
  <2>1. BatchInv(q)
    BY DEF StoredSplitsInv
  <2>2. batches[q] \in [state : {"accepted"}, asked : Questions, pages : Files, root : {batches[q].root},
                        ranges : {batches[q].ranges}, undone : BOOLEAN, kept : BOOLEAN]
    BY <1>3, <2>1 DEF BatchInv, BatchRow, Accepted
  <2> QED
    BY <1>3, <2>1, <2>2 DEF BatchInv
<1>4. ASSUME NEW d \in DOMAIN files, PurgeFile(d) PROVE StoredSplitsInv'
  <2>1. files' = Purged({d}) /\ UNCHANGED <<bindings, splitters>>
        /\ batches' = [q \in Requests |->
             IF Accepted(q) THEN [batches[q] EXCEPT !.kept = @ /\ ~Emptied(q, {d})] ELSE batches[q]]
    BY <1>4 DEF PurgeFile
  <2>2. ASSUME NEW q \in Requests, Accepted(q)
        PROVE  /\ BatchRow(batches'[q]) /\ batches'[q] # Unused
               /\ batches'[q].state = batches[q].state /\ batches'[q].asked = batches[q].asked
               /\ batches'[q].undone \/ ~batches'[q].kept => \A e \in Children(q) : e \in {d} \/ ~files[e].live
               /\ batches'[q].kept => \E e \in Children(q) : e \notin {d} /\ files[e].live
    <3>1. batches'[q] = [batches[q] EXCEPT !.kept = batches[q].kept /\ ~Emptied(q, {d})]
      BY <2>1, <2>2
    <3>2. CASE batches[q].kept /\ ~Emptied(q, {d})
      <4>1. (batches[q].kept /\ ~Emptied(q, {d})) = TRUE
        BY <3>2
      <4>2. batches'[q] = [batches[q] EXCEPT !.undone = batches[q].undone, !.kept = TRUE]
        BY <1>3, <2>2, <3>1, <4>1
      <4>3. /\ BatchRow(batches'[q]) /\ batches'[q] # Unused
            /\ batches'[q].state = batches[q].state /\ batches'[q].asked = batches[q].asked
            /\ batches'[q].undone = batches[q].undone /\ batches'[q].kept = TRUE
        <5>1. batches[q].undone \in BOOLEAN
          BY <1>3, <2>2
        <5>2. PICK u \in BOOLEAN : u = batches[q].undone
          BY <5>1
        <5>3. PICK b : b = batches'[q]
          OBVIOUS
        <5>4. b = [batches[q] EXCEPT !.undone = u, !.kept = TRUE]
          BY <4>2, <5>2, <5>3
        <5>5. BatchRow(b) /\ b # Unused /\ b.state = batches[q].state /\ b.asked = batches[q].asked /\ b.undone = u /\ b.kept = TRUE
          BY <1>2, <2>2, <5>4
        <5> QED
          BY <5>2, <5>3, <5>5
      <4>4. (\E e \in Children(q) : e \notin {d} /\ files[e].live)
        BY <3>2 DEF Emptied
      <4>5. ~batches[q].undone
        BY <1>3, <2>2, <4>4
      <4> QED
        BY <4>3, <4>4, <4>5
    <3>3. CASE ~(batches[q].kept /\ ~Emptied(q, {d}))
      <4>1. (batches[q].kept /\ ~Emptied(q, {d})) = FALSE
        BY <3>3
      <4>2. batches'[q] = [batches[q] EXCEPT !.undone = batches[q].undone, !.kept = FALSE]
        BY <1>3, <2>2, <3>1, <4>1
      <4>3. /\ BatchRow(batches'[q]) /\ batches'[q] # Unused
            /\ batches'[q].state = batches[q].state /\ batches'[q].asked = batches[q].asked
            /\ batches'[q].undone = batches[q].undone /\ batches'[q].kept = FALSE
        <5>1. batches[q].undone \in BOOLEAN
          BY <1>3, <2>2
        <5>2. PICK u \in BOOLEAN : u = batches[q].undone
          BY <5>1
        <5>3. PICK b : b = batches'[q]
          OBVIOUS
        <5>4. b = [batches[q] EXCEPT !.undone = u, !.kept = FALSE]
          BY <4>2, <5>2, <5>3
        <5>5. BatchRow(b) /\ b # Unused /\ b.state = batches[q].state /\ b.asked = batches[q].asked /\ b.undone = u /\ b.kept = FALSE
          BY <1>2, <2>2, <5>4
        <5> QED
          BY <5>2, <5>3, <5>5
      <4>4. \A e \in Children(q) : e \in {d} \/ ~files[e].live
        BY <1>3, <2>2, <3>3 DEF Emptied
      <4> QED
        BY <4>3, <4>4
    <3> QED
      BY <3>2, <3>3
  <2> QED
    BY <1>1, <2>1, <2>2
<1>5. ASSUME NEW r \in Requests, UndoSplit(r) \/ PurgeSplit(r) PROVE StoredSplitsInv'
  <2>1. Accepted(r) /\ files' = Purged(Children(r)) /\ UNCHANGED <<bindings, splitters>>
    BY <1>5 DEF UndoSplit, PurgeSplit
  <2>2. PICK undone \in BOOLEAN : batches' = [batches EXCEPT ![r] = [batches[r] EXCEPT !.undone = undone, !.kept = FALSE]]
    <3>1. CASE UndoSplit(r)
      <4>1. batches' = [batches EXCEPT ![r] = [batches[r] EXCEPT !.undone = TRUE, !.kept = FALSE]]
        BY <3>1 DEF UndoSplit, StoredSplitsInv, SplitsTyped
      <4> QED
        BY <4>1
    <3>2. CASE PurgeSplit(r)
      <4>1. batches' = [batches EXCEPT ![r] = [batches[r] EXCEPT !.kept = FALSE]]
        BY <3>2 DEF PurgeSplit, StoredSplitsInv, SplitsTyped
      <4> QED
        BY <1>3, <2>1, <4>1
    <3> QED
      BY <1>5, <3>1, <3>2
  <2>3. batches'[r] = [batches[r] EXCEPT !.undone = undone, !.kept = FALSE] /\ (\A q \in Requests \ {r} : batches'[q] = batches[q])
        /\ batches' = [q \in Requests |-> batches'[q]]
    BY <2>2 DEF StoredSplitsInv, SplitsTyped
  <2>4. ASSUME NEW q \in Requests, Accepted(q)
        PROVE  /\ BatchRow(batches'[q]) /\ batches'[q] # Unused
               /\ batches'[q].state = batches[q].state /\ batches'[q].asked = batches[q].asked
               /\ batches'[q].undone \/ ~batches'[q].kept => \A e \in Children(q) : e \in Children(r) \/ ~files[e].live
               /\ batches'[q].kept => \E e \in Children(q) : e \notin Children(r) /\ files[e].live
    <3>1. CASE q = r
      <4>1. batches'[q] = [batches[q] EXCEPT !.undone = undone, !.kept = FALSE]
        BY <2>3, <3>1
      <4>2. /\ BatchRow(batches'[q]) /\ batches'[q] # Unused
            /\ batches'[q].state = batches[q].state /\ batches'[q].asked = batches[q].asked /\ batches'[q].kept = FALSE
        <5>1. PICK b : b = batches'[q]
          OBVIOUS
        <5>2. Accepted(q) /\ b = [batches[q] EXCEPT !.undone = undone, !.kept = FALSE]
          BY <2>4, <4>1, <5>1
        <5>3. BatchRow(b) /\ b # Unused /\ b.state = batches[q].state /\ b.asked = batches[q].asked /\ b.undone = undone /\ b.kept = FALSE
          BY <1>2, <5>2
        <5> QED
          BY <5>1, <5>3
      <4> QED
        BY <3>1, <4>2
    <3>2. CASE q # r
      <4>1. \A e \in Children(q) : e \notin Children(r)
        BY <3>2 DEF Children
      <4>2. BatchRow(batches[q])
        BY DEF StoredSplitsInv, BatchInv
      <4> QED
        BY <1>3, <2>3, <2>4, <3>2, <4>1, <4>2 DEF Accepted
    <3> QED
      BY <3>1, <3>2
  <2>5. \A q \in Requests : ~Accepted(q) => batches'[q] = batches[q]
    BY <2>1, <2>3
  <2> QED
    BY <1>1, <2>1, <2>3, <2>4, <2>5
<1> QED
  BY <1>4, <1>5

LEMMA FilesStep == StoredSplitsInv /\ [FilesNext]_filesVars => StoredSplitsInv'
<1> SUFFICES ASSUME StoredSplitsInv, [FilesNext]_filesVars PROVE StoredSplitsInv'
  OBVIOUS
<1>1. CASE UNCHANGED filesVars
  <2>1. UNCHANGED <<files, bindings, batches, splitters>>
    BY <1>1 DEF filesVars
  <2>2. SplitsTyped'
    BY <2>1 DEF StoredSplitsInv, SplitsTyped
  <2>3. ASSUME NEW a \in Splitters PROVE SplitterInv(splitters[a])'
    BY <2>1 DEF StoredSplitsInv, SplitterInv
  <2>4. ASSUME NEW r \in Requests PROVE BatchInv(r)'
    BY <2>1 DEF StoredSplitsInv, BatchInv, Accepted, Children
  <2> QED
    BY <2>2, <2>3, <2>4 DEF StoredSplitsInv
<1>2. CASE FilesNext
  BY <1>2, BeginStep, PassStep, DecideStep, PurgeStep DEF FilesNext
<1> QED
  BY <1>1, <1>2

\* Every state of the split documents satisfies the inductive invariant.
THEOREM SplitsReached == FilesSpec => []StoredSplitsInv
<1> QED
  BY FilesInitial, FilesStep, PTL DEF FilesSpec

\* One request id stands for one question and one outcome, which is what every invocation
\* answers (stored-pdf-split.ts); an undone or emptied batch has no documents left.
THEOREM SplitAnswersFit == FilesSpec => []AnswersFitRequests
<1>1. StoredSplitsInv => AnswersFitRequests
  <2> SUFFICES ASSUME StoredSplitsInv PROVE AnswersFitRequests
    OBVIOUS
  <2>1. ASSUME NEW a \in Splitters, splitters[a].at = "answered"
        PROVE  LET r == splitters[a].request
               IN batches[r] # Unused /\ batches[r].asked = AskedBy(a) /\ batches[r].state = splitters[a].receipt
    BY <2>1 DEF StoredSplitsInv, SplitterInv, AskedBy
  <2>2. ASSUME NEW r \in Requests
        PROVE  /\ batches[r] # Unused => bindings[r] = IF batches[r].asked.source = Uploaded THEN Unused ELSE batches[r].asked
               /\ Accepted(r) /\ (batches[r].undone \/ ~batches[r].kept) => \A d \in Children(r) : ~files[d].live
               /\ Accepted(r) /\ batches[r].kept => \E d \in Children(r) : files[d].live
    BY DEF StoredSplitsInv, BatchInv
  <2> QED
    BY <2>1, <2>2 DEF AnswersFitRequests
<1> QED
  BY <1>1, SplitsReached, PTL

-----------------------------------------------------------------------------
(***************************************************************************)
(* StoredSplits: what a file is made of never changes, its lineage leads to the *)
(* first file, and the ranges of a batch are those its request asked for.  *)
(***************************************************************************)
\* Pages of the first file, or of a part of it, in their order.
InOrder(pages) == Len(pages) <= Length /\ \A i, j \in DOMAIN pages : i < j => pages[i] < pages[j]

\* What is remembered of a source names the same pages in the first file, which is never forgotten.
RootTells(root, pages) ==
  /\ root.start \in Nat \ {0} /\ root.end \in Nat /\ root.start <= root.end
  /\ root.pages \in Files /\ root.end <= Len(root.pages)
  /\ pages = SubSeq(root.pages, root.start, root.end)
  /\ \/ /\ root.kind = "document" /\ root.id \in DOMAIN files
        /\ files[root.id].pages = root.pages /\ files[root.id].batch = Unused
     \/ /\ root.kind = "split" /\ root.id \in Requests /\ Accepted(root.id)
        /\ batches[root.id].pages = root.pages /\ batches[root.id].asked.source = Uploaded

SourceTells(root, pages, source) ==
  /\ source = Uploaded => root = Unused
  /\ source # Uploaded => root # Unused /\ RootTells(root, pages)

\* What is cut was verified against the text.
SplitterPages(s) ==
  /\ s.at \in {"begun", "planned", "reserved", "rejecting"} => InOrder(s.pages) /\ SourceTells(s.root, s.pages, s.source)
  /\ s.at \in {"planned", "reserved"} => MarkerVerified(s.spec, s.pages)

\* A batch has the ranges of its request, one document for each, and their charge.
BatchPages(r) ==
  LET b == batches[r]
  IN /\ ~Accepted(r) => charged[r] = 0 /\ Children(r) = {}
     /\ Accepted(r) =>
          /\ InOrder(b.pages) /\ SourceTells(b.root, b.pages, b.asked.source)
          /\ Plannable(b.asked.spec, Len(b.pages)) /\ MarkerVerified(b.asked.spec, b.pages)
          /\ b.ranges = Ranges(b.asked.spec, Len(b.pages)) /\ charged[r] = Selected(b.ranges)
          /\ \A i \in DOMAIN b.ranges : \E d \in Children(r) : files[d].index = i
          /\ \A d, e \in Children(r) : files[d].index = files[e].index => d = e

FilePages(d) ==
  /\ InOrder(files[d].pages)
  /\ files[d].batch # Unused =>
       LET b == batches[files[d].batch]  i == files[d].index
       IN Accepted(files[d].batch) /\ i \in DOMAIN b.ranges
          /\ files[d].pages = SubSeq(b.pages, b.ranges[i].start, b.ranges[i].end)

PagesInv ==
  /\ charged = [r \in Requests |-> charged[r]]
  /\ \A d \in DOMAIN files : FilePages(d)
  /\ \A r \in Requests : BatchPages(r)
  /\ \A a \in Splitters : SplitterPages(splitters[a])

\* Nothing done later changes what a document or an accepted batch was made of.
HistoryStays ==
  /\ \A d \in DOMAIN files :
       /\ d \in DOMAIN files' /\ files'[d].pages = files[d].pages
       /\ files'[d].batch = files[d].batch /\ files'[d].index = files[d].index
  /\ \A r \in Requests : Accepted(r) =>
       /\ Accepted(r)' /\ batches'[r].asked = batches[r].asked /\ batches'[r].pages = batches[r].pages
       /\ batches'[r].root = batches[r].root /\ batches'[r].ranges = batches[r].ranges

LEMMA RootStays ==
  ASSUME HistoryStays, NEW root, NEW pages, RootTells(root, pages)
  PROVE  RootTells(root, pages)'
<1>1. CASE root.kind = "document" /\ root.id \in DOMAIN files
           /\ files[root.id].pages = root.pages /\ files[root.id].batch = Unused
  <2>1. root.id \in DOMAIN files' /\ files'[root.id].pages = root.pages /\ files'[root.id].batch = Unused
    BY <1>1 DEF HistoryStays
  <2> QED
    BY <1>1, <2>1 DEF RootTells
<1>2. CASE root.kind = "split" /\ root.id \in Requests /\ Accepted(root.id)
           /\ batches[root.id].pages = root.pages /\ batches[root.id].asked.source = Uploaded
  <2>1. Accepted(root.id)' /\ batches'[root.id].pages = root.pages /\ batches'[root.id].asked.source = Uploaded
    BY <1>2 DEF HistoryStays
  <2> QED
    BY <1>2, <2>1 DEF RootTells
<1> QED
  BY <1>1, <1>2 DEF RootTells

LEMMA SourceStays ==
  ASSUME HistoryStays, NEW root, NEW pages, NEW source, SourceTells(root, pages, source)
  PROVE  SourceTells(root, pages, source)'
BY RootStays DEF SourceTells

LEMMA SplitterStays ==
  ASSUME HistoryStays, NEW s, SplitterPages(s)
  PROVE  SplitterPages(s)'
BY SourceStays DEF SplitterPages

LEMMA FileStays ==
  ASSUME StoredSplitsInv, HistoryStays, NEW d \in DOMAIN files, FilePages(d)
  PROVE  FilePages(d)'
<1>1. files[d].batch # Unused => files[d].batch \in Requests
  BY FileFacts DEF StoredSplitsInv, FileRows
<1>2. files'[d].pages = files[d].pages /\ files'[d].batch = files[d].batch /\ files'[d].index = files[d].index
  BY DEF HistoryStays
<1>3. CASE files[d].batch # Unused
  <2> DEFINE r == files[d].batch
  <2>1. r \in Requests /\ Accepted(r)
    BY <1>1, <1>3 DEF FilePages
  <2>2. Accepted(r)' /\ batches'[r].pages = batches[r].pages /\ batches'[r].ranges = batches[r].ranges
    BY <2>1 DEF HistoryStays
  <2> QED
    BY <1>2, <1>3, <2>1, <2>2 DEF FilePages
<1>4. CASE files[d].batch = Unused
  BY <1>2, <1>4 DEF FilePages
<1> QED
  BY <1>3, <1>4

LEMMA BatchStays ==
  ASSUME HistoryStays, NEW r \in Requests, BatchPages(r), charged'[r] = charged[r],
         Accepted(r)' <=> Accepted(r), Children(r)' = Children(r)
  PROVE  BatchPages(r)'
<1>1. CASE ~Accepted(r)
  BY <1>1 DEF BatchPages
<1>2. CASE Accepted(r)
  <2>1. /\ batches'[r].asked = batches[r].asked /\ batches'[r].pages = batches[r].pages
        /\ batches'[r].root = batches[r].root /\ batches'[r].ranges = batches[r].ranges
    BY <1>2 DEF HistoryStays
  <2>2. \A d \in Children(r) : files'[d].index = files[d].index
    BY DEF HistoryStays, Children
  <2>3. SourceTells(batches[r].root, batches[r].pages, batches[r].asked.source)
    BY <1>2 DEF BatchPages
  <2>4. PICK root, pages, source : root = batches[r].root /\ pages = batches[r].pages /\ source = batches[r].asked.source
    OBVIOUS
  <2>5. SourceTells(root, pages, source)'
    BY <2>3, <2>4, SourceStays
  <2>6. /\ InOrder(batches'[r].pages) /\ SourceTells(batches[r].root, batches[r].pages, batches[r].asked.source)'
        /\ Plannable(batches'[r].asked.spec, Len(batches'[r].pages)) /\ MarkerVerified(batches'[r].asked.spec, batches'[r].pages)
        /\ batches'[r].ranges = Ranges(batches'[r].asked.spec, Len(batches'[r].pages)) /\ charged'[r] = Selected(batches'[r].ranges)
    <3>1. SourceTells(batches[r].root, batches[r].pages, batches[r].asked.source)'
      BY <2>1, <2>4, <2>5 DEF SourceTells, RootTells
    <3> QED
      BY <1>2, <2>1, <3>1 DEF BatchPages
  <2>7. /\ \A i \in DOMAIN batches'[r].ranges : \E d \in Children(r)' : files'[d].index = i
        /\ \A d, e \in Children(r)' : files'[d].index = files'[e].index => d = e
    BY <1>2, <2>1, <2>2 DEF BatchPages
  <2> QED
    BY <1>2, <2>6, <2>7 DEF BatchPages
<1> QED
  BY <1>1, <1>2

\* The lineage shown for a document is true.
LEMMA RootFound ==
  ASSUME StoredSplitsInv, PagesInv, NEW d \in DOMAIN files
  PROVE  RootTells(RootOf(d), files[d].pages) /\ RootOf(d) # Unused
<1>1. files[d].pages \in Files /\ files[d].batch \in Requests \cup {Unused} /\ FilePages(d)
  BY FileFacts DEF StoredSplitsInv, PagesInv, FileRows
<1>2. CASE files[d].batch = Unused
  <2> DEFINE pages == files[d].pages
  <2>1. RootOf(d) = [kind |-> "document", id |-> d, pages |-> pages, start |-> 1, end |-> Len(pages)]
    BY <1>2 DEF RootOf
  <2>2. pages \in Seq(Nat) /\ Len(pages) \in Nat /\ 1 <= Len(pages)
    BY <1>1 DEF Files
  <2>3. SubSeq(pages, 1, Len(pages)) = pages
    BY <2>2, SubSeqFull
  <2>4. RootOf(d).kind = "document" /\ RootOf(d).id = d /\ RootOf(d).pages = pages /\ RootOf(d).start = 1 /\ RootOf(d).end = Len(pages)
    BY <2>1
  <2>5. RootOf(d) # Unused
    BY <2>1 DEF Unused
  <2>6. RootTells(RootOf(d), pages)
    BY <1>1, <1>2, <2>2, <2>3, <2>4 DEF RootTells
  <2> QED
    BY <2>5, <2>6
<1>3. CASE files[d].batch # Unused
  <2>1. PICK r \in Requests : r = files[d].batch
    BY <1>1, <1>3
  <2> DEFINE b == batches[r]
             range == b.ranges[files[d].index]
  <2>2. Accepted(r) /\ files[d].index \in DOMAIN b.ranges /\ files[d].pages = SubSeq(b.pages, range.start, range.end)
    BY <1>1, <1>3, <2>1 DEF FilePages
  <2>3. /\ b.asked.spec \in Specs /\ b.pages \in Files
    BY <2>2 DEF StoredSplitsInv, BatchInv, BatchRow, Accepted, Questions
  <2>4. /\ SourceTells(b.root, b.pages, b.asked.source)
        /\ Plannable(b.asked.spec, Len(b.pages)) /\ b.ranges = Ranges(b.asked.spec, Len(b.pages))
    BY <2>2 DEF PagesInv, BatchPages
  <2>5. PICK s \in Nat \ {0}, e \in Nat : range.start = s /\ range.end = e /\ s <= e /\ e <= Len(b.pages)
    <3>1. PICK n \in Nat \ {0} :
            /\ DOMAIN b.ranges = 1..n
            /\ \A i \in 1..n : /\ b.ranges[i].start \in Nat \ {0} /\ b.ranges[i].end \in Nat
                               /\ b.ranges[i].start <= b.ranges[i].end /\ b.ranges[i].end <= Len(b.pages)
      BY <2>3, <2>4, RangesFit
    <3> QED
      BY <2>2, <3>1
  <2>6. RootOf(d) = RootPages(r, range)
    BY <1>3, <2>1 DEF RootOf
  <2>7. CASE b.root = Unused
    <3>1. RootOf(d) = [kind |-> "split", id |-> r, pages |-> b.pages, start |-> s, end |-> e]
      <4>1. 1 + s - 1 = s /\ 1 + e - 1 = e
        BY <2>5
      <4> QED
        BY <2>5, <2>6, <2>7, <4>1 DEF RootPages, RootStart
    <3>2. b.asked.source = Uploaded
      BY <2>4, <2>7 DEF SourceTells
    <3> QED
      BY <2>2, <2>3, <2>5, <3>1, <3>2 DEF RootTells, Unused
  <2>8. CASE b.root # Unused
    <3> DEFINE root == b.root
    <3>1. RootTells(root, b.pages)
      BY <2>4, <2>8 DEF SourceTells
    <3>2. /\ root.start \in Nat \ {0} /\ root.end \in Nat /\ root.start <= root.end
          /\ root.pages \in Files /\ root.end <= Len(root.pages) /\ b.pages = SubSeq(root.pages, root.start, root.end)
      BY <3>1 DEF RootTells
    <3>3. PICK x \in Nat \ {0}, y \in Nat, whole \in Files : x = root.start /\ y = root.end /\ whole = root.pages
      BY <3>2
    <3>4. /\ whole \in Seq(Nat) /\ Len(whole) \in Nat /\ x <= y /\ y <= Len(whole) /\ x \in 1..Len(whole) /\ y \in 1..Len(whole)
      <4>1. whole \in Seq(Nat) /\ Len(whole) \in Nat
        BY DEF Files
      <4>2. x <= y /\ y <= Len(whole)
        BY <3>2, <3>3
      <4> QED
        BY <4>1, <4>2
    <3>5. Len(b.pages) = y - x + 1
      <4>1. \A i \in x..y : whole[i] \in Nat
        BY <3>4
      <4> QED
        BY <3>2, <3>3, <3>4, <4>1, SubSeqProperties
    <3>6. s \in 1..(y - x + 1) /\ e \in 1..(y - x + 1)
      BY <2>5, <3>5
    <3>7. SubSeq(SubSeq(whole, x, y), s, e) = SubSeq(whole, x + s - 1, x + e - 1)
      BY <3>4, <3>6, SubSeqOfSubSeq
    <3>8. RootOf(d) = [kind |-> root.kind, id |-> root.id, pages |-> whole, start |-> x + s - 1, end |-> x + e - 1]
      BY <2>5, <2>6, <2>8, <3>3 DEF RootPages, RootStart
    <3>9. /\ x + s - 1 \in Nat \ {0} /\ x + e - 1 \in Nat /\ x + s - 1 <= x + e - 1 /\ x + e - 1 <= Len(whole)
      BY <2>5, <3>4, <3>6
    <3>10. files[d].pages = SubSeq(whole, x + s - 1, x + e - 1)
      BY <2>2, <2>5, <3>2, <3>3, <3>7
    <3> HIDE DEF b, range
    <3>11. RootOf(d) # Unused
      BY <3>8 DEF Unused
    <3>12. RootOf(d).kind = root.kind /\ RootOf(d).id = root.id /\ RootOf(d).pages = whole
           /\ RootOf(d).start = x + s - 1 /\ RootOf(d).end = x + e - 1
      BY <3>8
    <3> QED
      BY <3>1, <3>3, <3>9, <3>10, <3>11, <3>12 DEF RootTells
  <2> QED
    BY <2>7, <2>8
<1> QED
  BY <1>2, <1>3

-----------------------------------------------------------------------------
LEMMA PagesInitial == FilesInit => PagesInv
<1> SUFFICES ASSUME FilesInit PROVE PagesInv
  OBVIOUS
<1>1. charged = [r \in Requests |-> 0] /\ batches = [r \in Requests |-> Unused] /\ splitters = [a \in Splitters |-> Resting]
      /\ files = <<[pages |-> Whole, batch |-> Unused, index |-> 0, live |-> TRUE]>>
  BY DEF FilesInit
<1>2. charged = [r \in Requests |-> charged[r]]
  BY <1>1
<1>3. DOMAIN files = {1} /\ files[1].pages = Whole /\ files[1].batch = Unused
  BY <1>1
<1>4. InOrder(Whole)
  BY SplitFacts DEF InOrder, Whole
<1>5. ASSUME NEW d \in DOMAIN files PROVE FilePages(d)
  BY <1>3, <1>4 DEF FilePages
<1>6. ASSUME NEW r \in Requests PROVE BatchPages(r)
  <2>1. ~Accepted(r) /\ charged[r] = 0 /\ Unused \notin Requests
    BY <1>1, SplitFacts DEF Accepted
  <2>2. Children(r) = {}
    BY <1>3, <2>1 DEF Children
  <2> QED
    BY <2>1, <2>2 DEF BatchPages
<1>7. ASSUME NEW a \in Splitters PROVE SplitterPages(splitters[a])
  BY <1>1 DEF SplitterPages, Resting
<1> QED
  BY <1>2, <1>5, <1>6, <1>7 DEF PagesInv

\* One splitter moves, and nothing else changes.
LEMMA PagesWhileMoving ==
  ASSUME StoredSplitsInv, PagesInv, UNCHANGED <<files, batches, charged>>, NEW a \in Splitters, NEW s,
         splitters' = [splitters EXCEPT ![a] = s], SplitterPages(s)
  PROVE  PagesInv'
<1>1. splitters'[a] = s /\ (\A b \in Splitters \ {a} : splitters'[b] = splitters[b])
  BY DEF StoredSplitsInv, SplitsTyped
<1>2. HistoryStays
  BY DEF HistoryStays, Accepted
<1>3. ASSUME NEW b \in Splitters PROVE SplitterPages(splitters[b])'
  <2>1. PICK x : x = splitters'[b]
    OBVIOUS
  <2>2. SplitterPages(x)
    BY <1>1, <2>1 DEF PagesInv
  <2>3. SplitterPages(x)'
    BY <1>2, <2>2, SplitterStays
  <2> QED
    BY <2>1, <2>3 DEF SplitterPages, SourceTells, RootTells, Accepted
<1>4. ASSUME NEW d \in DOMAIN files' PROVE FilePages(d)'
  BY <1>2, FileStays DEF PagesInv
<1>5. ASSUME NEW r \in Requests PROVE BatchPages(r)'
  BY <1>2, BatchStays DEF PagesInv, Accepted, Children
<1> QED
  BY <1>3, <1>4, <1>5 DEF PagesInv

LEMMA PagesWhileGoing ==
  ASSUME StoredSplitsInv, PagesInv, UNCHANGED <<files, batches, charged>>, NEW a \in Splitters,
         splitters[a].at \in {"begun", "planned", "reserved", "rejecting"},
         NEW place \in {"planned", "reserved", "rejecting"}, SplitterGoes(a, place),
         place # "rejecting" => MarkerVerified(splitters[a].spec, splitters[a].pages)
  PROVE  PagesInv'
<1> DEFINE s == [splitters[a] EXCEPT !.at = place]
<1>1. splitters[a] \in [at : {"begun", "planned", "reserved", "rejecting"}, request : Requests, source : Nat, spec : Specs,
                   pages : Files, root : {splitters[a].root}]
  BY AtWork DEF StoredSplitsInv, SplitterInv
<1>2. s.at = place /\ s.spec = splitters[a].spec /\ s.pages = splitters[a].pages /\ s.root = splitters[a].root
      /\ s.source = splitters[a].source
  BY <1>1
<1>3. splitters' = [splitters EXCEPT ![a] = s]
  BY DEF SplitterGoes
<1> HIDE DEF s
<1>4. SplitterPages(splitters[a])
  BY DEF PagesInv
<1>5. SplitterPages(s)
  BY <1>2, <1>4 DEF SplitterPages
<1> QED
  BY <1>3, <1>5, PagesWhileMoving

\* Whoever answers or stops has nothing to cut.
LEMMA PagesWhenDone ==
  ASSUME StoredSplitsInv, PagesInv, UNCHANGED <<files, batches, charged>>, NEW a \in Splitters, NEW s,
         splitters' = [splitters EXCEPT ![a] = s], s.at \in {"idle", "answered"}
  PROVE  PagesInv'
BY PagesWhileMoving DEF SplitterPages

LEMMA BeginPages ==
  ASSUME StoredSplitsInv, PagesInv, NEW a \in Splitters, NEW r \in Requests, NEW spec \in Specs,
         UploadSplit(a, r, spec) \/ \E d \in DOMAIN files : Admit(a, r, d, spec)
  PROVE  PagesInv'
<1>1. ASSUME NEW source, NEW pages, NEW root, InOrder(pages), SourceTells(root, pages, source),
             Start(a, r, source, spec, pages, root), UNCHANGED <<files, batches, charged>>
      PROVE  PagesInv'
  <2> DEFINE s == [at |-> "begun", request |-> r, source |-> source, spec |-> spec, pages |-> pages, root |-> root]
  <2>1. s.at = "begun" /\ s.pages = pages /\ s.root = root /\ s.source = source
    OBVIOUS
  <2>2. splitters' = [splitters EXCEPT ![a] = s]
    BY <1>1 DEF Start
  <2> HIDE DEF s
  <2>3. SplitterPages(s)
    BY <1>1, <2>1 DEF SplitterPages
  <2> QED
    BY <1>1, <2>2, <2>3, PagesWhileMoving
<1>2. CASE UploadSplit(a, r, spec)
  <2>1. InOrder(Whole)
    BY SplitFacts DEF InOrder, Whole
  <2>2. SourceTells(Unused, Whole, Uploaded)
    BY DEF SourceTells
  <2> QED
    BY <1>1, <1>2, <2>1, <2>2 DEF UploadSplit
<1>3. ASSUME NEW d \in DOMAIN files, Admit(a, r, d, spec) PROVE PagesInv'
  <2>1. CASE Start(a, r, d, spec, files[d].pages, RootOf(d))
    <3>1. d # Uploaded /\ FilePages(d)
      BY FileFacts DEF StoredSplitsInv, PagesInv, Uploaded
    <3>2. SourceTells(RootOf(d), files[d].pages, d)
      BY <3>1, RootFound DEF SourceTells
    <3>3. PICK root, pages : root = RootOf(d) /\ pages = files[d].pages
      OBVIOUS
    <3>4. InOrder(pages) /\ SourceTells(root, pages, d) /\ Start(a, r, d, spec, pages, root)
      BY <2>1, <3>1, <3>2, <3>3 DEF FilePages
    <3>5. UNCHANGED <<files, batches, charged>>
      BY <1>3 DEF Admit
    <3> QED
      BY <1>1, <3>4, <3>5
  <2>2. CASE splitters' = [splitters EXCEPT ![a] =
                  [at |-> "answered", request |-> r, source |-> d, spec |-> spec, receipt |-> batches[r].state]]
    BY <1>3, <2>2, PagesWhenDone DEF Admit
  <2> QED
    BY <1>3, <2>1, <2>2 DEF Admit
<1> QED
  BY <1>2, <1>3

LEMMA PassPages ==
  ASSUME StoredSplitsInv, PagesInv, NEW a \in Splitters,
         Replay(a) \/ Cut(a) \/ ReserveSplit(a) \/ SplitFails(a)
  PROVE  PagesInv'
<1>1. CASE Replay(a)
  BY <1>1, PagesWhenDone DEF Replay, Answer
<1>2. CASE Cut(a)
  <2>1. PICK place \in {"planned", "reserved", "rejecting"} :
          SplitterGoes(a, place) /\ (place # "rejecting" => MarkerVerified(splitters[a].spec, splitters[a].pages))
    BY <1>2 DEF Cut
  <2> QED
    BY <1>2, <2>1, PagesWhileGoing DEF Cut
<1>3. CASE ReserveSplit(a)
  <2>1. SplitterPages(splitters[a])
    BY DEF PagesInv
  <2>2. PICK place \in {"reserved", "rejecting"} : SplitterGoes(a, place)
    BY <1>3 DEF ReserveSplit
  <2>3. MarkerVerified(splitters[a].spec, splitters[a].pages)
    BY <1>3, <2>1 DEF ReserveSplit, SplitterPages
  <2> QED
    BY <1>3, <2>2, <2>3, PagesWhileGoing DEF ReserveSplit
<1>4. CASE SplitFails(a)
  BY <1>4, PagesWhenDone DEF SplitFails, Stops, Resting
<1> QED
  BY <1>1, <1>2, <1>3, <1>4

-----------------------------------------------------------------------------
\* What is charged is a number.
LEMMA SelectedCounts ==
  ASSUME NEW ranges, NEW n \in Nat, DOMAIN ranges = 1..n
  PROVE  LET cells == {x \in (DOMAIN ranges) \X (1..Length) : x[2] \in ranges[x[1]].start..ranges[x[1]].end}
         IN IsFiniteSet(cells) /\ Selected(ranges) = Cardinality(cells) /\ Selected(ranges) \in Nat
<1> DEFINE cells == {x \in (DOMAIN ranges) \X (1..Length) : x[2] \in ranges[x[1]].start..ranges[x[1]].end}
<1>1. IsFiniteSet(1..n) /\ IsFiniteSet(1..Length)
  BY SplitFacts, FS_Interval
<1>2. IsFiniteSet((1..n) \X (1..Length))
  BY <1>1, FS_Product
<1>3. cells \in SUBSET ((1..n) \X (1..Length))
  OBVIOUS
<1>4. IsFiniteSet(cells)
  BY <1>2, <1>3, FS_Subset
<1>5. Selected(ranges) = Cardinality(cells)
  BY DEF Selected
<1> HIDE DEF cells
<1>6. Cardinality(cells) \in Nat
  BY <1>4, FS_CardinalityType
<1> QED
  BY <1>4, <1>5, <1>6 DEF cells

LEMMA PieceInOrder ==
  ASSUME NEW pages \in Files, InOrder(pages), NEW s \in Nat \ {0}, NEW e \in Nat, s <= e, e <= Len(pages)
  PROVE  InOrder(SubSeq(pages, s, e))
<1> DEFINE piece == SubSeq(pages, s, e)
<1>1. pages \in Seq(Nat) /\ DOMAIN pages = 1..Len(pages)
  BY DEF Files
<1>2. PICK L \in Nat : L = Len(pages)
  <2>1. Len(pages) \in Nat
    BY <1>1
  <2> QED
    BY <2>1
<1>3. piece \in Seq(Nat) /\ Len(piece) = e - s + 1 /\ \A j \in 1..(e - s + 1) : piece[j] = pages[s + j - 1]
  <2>1. \A j \in s..e : pages[j] \in Nat
    BY <1>1
  <2> QED
    BY <2>1, SubSeqProperties
<1> HIDE DEF piece
<1>4. DOMAIN piece = 1..(e - s + 1)
  BY <1>3
<1>5. ASSUME NEW j \in DOMAIN piece, NEW k \in DOMAIN piece, j < k PROVE piece[j] < piece[k]
  <2>1. j \in 1..(e - s + 1) /\ k \in 1..(e - s + 1)
    BY <1>4
  <2>2. s + j - 1 \in 1..L /\ s + k - 1 \in 1..L /\ s + j - 1 < s + k - 1
    BY <1>2, <1>5, <2>1
  <2>3. pages[s + j - 1] < pages[s + k - 1]
    BY <1>1, <1>2, <2>2 DEF InOrder
  <2> QED
    BY <1>3, <2>1, <2>3
<1>6. Len(piece) <= Length
  BY <1>2, <1>3, SplitFacts DEF InOrder
<1> QED
  BY <1>5, <1>6 DEF InOrder, piece

\* The documents of a batch follow those there were.
NewFiles(r, pages, ranges, n) ==
  /\ DOMAIN ranges = 1..n /\ DOMAIN files' = 1..(Len(files) + n)
  /\ \A d \in DOMAIN files : d \in DOMAIN files' /\ files'[d] = files[d]
  /\ \A i \in 1..n :
       /\ Len(files) + i \in DOMAIN files' /\ files'[Len(files) + i].pages = SubSeq(pages, ranges[i].start, ranges[i].end)
       /\ files'[Len(files) + i].batch = r /\ files'[Len(files) + i].index = i

\* What the third transaction makes.
Commits(a) == CommitSplit(a) /\ ~(SplitterGoes(a, "rejecting") /\ UNCHANGED <<batches, files, charged>>)

LEMMA Committed ==
  ASSUME StoredSplitsInv, NEW a \in Splitters, NEW r \in Requests, r = splitters[a].request, Commits(a),
         NEW pages, pages = splitters[a].pages, NEW ranges, ranges = Ranges(splitters[a].spec, Len(pages))
  PROVE  /\ splitters[a].at = "reserved" /\ splitters[a].spec \in Specs /\ pages \in Files /\ batches[r] = Unused
         /\ Plannable(splitters[a].spec, Len(pages))
         /\ \A q \in Requests \ {r} : batches'[q] = batches[q] /\ charged'[q] = charged[q]
         /\ \A b \in Splitters \ {a} : splitters'[b] = splitters[b]
         /\ splitters'[a].at = "answered"
         /\ Accepted(r)' /\ batches'[r].asked.source = splitters[a].source /\ batches'[r].asked.spec = splitters[a].spec
         /\ batches'[r].pages = pages /\ batches'[r].root = splitters[a].root /\ batches'[r].ranges = ranges
         /\ \E n \in Nat \ {0} : NewFiles(r, pages, ranges, n)
<1>1. /\ splitters[a].at = "reserved" /\ splitters[a].spec \in Specs /\ pages \in Files
      /\ Plannable(splitters[a].spec, Len(pages))
  BY AtWork DEF Commits, CommitSplit, StoredSplitsInv, SplitterInv
<1>2. batches[r] = Unused
  BY DEF Commits, CommitSplit, NotMade
<1> DEFINE row == [state |-> "accepted", asked |-> AskedBy(a), pages |-> pages, root |-> splitters[a].root,
                   ranges |-> ranges, undone |-> FALSE, kept |-> TRUE]
           parts == [i \in DOMAIN ranges |-> Part(a, ranges, i)]
<1>3. /\ batches' = [batches EXCEPT ![r] = row] /\ Answer(a, "accepted") /\ files' = files \o parts
      /\ charged' = [charged EXCEPT ![r] = @ + Selected(ranges)]
  BY DEF Commits, CommitSplit
<1>4. row # Unused /\ row.state = "accepted" /\ row.asked = AskedBy(a) /\ row.pages = pages /\ row.root = splitters[a].root
      /\ row.ranges = ranges
  BY DEF Unused
<1>5. AskedBy(a).source = splitters[a].source /\ AskedBy(a).spec = splitters[a].spec
  BY DEF AskedBy, Asked
<1> HIDE DEF row
<1>6. batches'[r] = row /\ (\A q \in Requests \ {r} : batches'[q] = batches[q] /\ charged'[q] = charged[q])
  BY <1>3 DEF StoredSplitsInv, SplitsTyped
<1>7. Accepted(r)'
  BY <1>4, <1>6 DEF Accepted
<1>8. splitters'[a].at = "answered" /\ \A b \in Splitters \ {a} : splitters'[b] = splitters[b]
  <2> DEFINE s == [at |-> "answered", request |-> splitters[a].request, source |-> splitters[a].source,
                   spec |-> splitters[a].spec, receipt |-> "accepted"]
  <2>1. splitters' = [splitters EXCEPT ![a] = s]
    BY <1>3 DEF Answer
  <2>2. s.at = "answered"
    OBVIOUS
  <2> HIDE DEF s
  <2> QED
    BY <2>1, <2>2 DEF StoredSplitsInv, SplitsTyped
<1>9. PICK n \in Nat \ {0} : DOMAIN ranges = 1..n
  BY <1>1, RangesFit
<1>10. /\ DOMAIN files' = 1..(Len(files) + n)
       /\ \A d \in DOMAIN files : d \in DOMAIN files' /\ files'[d] = files[d]
       /\ \A i \in 1..n : files'[Len(files) + i] = parts[i]
  <2>1. files \in Seq(FileRows) /\ Len(files) \in Nat /\ DOMAIN files = 1..Len(files)
    BY DEF StoredSplitsInv, SplitsTyped
  <2>2. parts \in Seq({parts[i] : i \in 1..n}) /\ Len(parts) = n
    <3>1. DOMAIN parts = 1..n /\ parts = [i \in 1..n |-> parts[i]]
      BY <1>9
    <3> HIDE DEF parts
    <3>2. parts \in [1..n -> {parts[i] : i \in 1..n}]
      BY <3>1
    <3> QED
      BY <3>2
  <2> HIDE DEF parts
  <2>3. PICK S : files \in Seq(S) /\ parts \in Seq(S)
    <3>1. files \in Seq(FileRows \cup {parts[i] : i \in 1..n}) /\ parts \in Seq(FileRows \cup {parts[i] : i \in 1..n})
      BY <2>1, <2>2
    <3> QED
      BY <3>1
  <2>4. /\ files \o parts \in Seq(S) /\ Len(files \o parts) = Len(files) + Len(parts)
        /\ \A d \in 1..(Len(files) + Len(parts)) :
             (files \o parts)[d] = IF d <= Len(files) THEN files[d] ELSE parts[d - Len(files)]
    BY <2>3, ConcatProperties
  <2>5. files' \in Seq(S) /\ Len(files') = Len(files) + n /\ DOMAIN files' = 1..(Len(files) + n)
        /\ \A d \in 1..(Len(files) + n) : files'[d] = IF d <= Len(files) THEN files[d] ELSE parts[d - Len(files)]
    BY <1>3, <2>2, <2>4
  <2>6. ASSUME NEW i \in 1..n PROVE files'[Len(files) + i] = parts[i]
    <3>1. Len(files) + i \in 1..(Len(files) + n) /\ ~(Len(files) + i <= Len(files)) /\ Len(files) + i - Len(files) = i
      BY <1>9, <2>1
    <3> QED
      BY <2>5, <3>1
  <2>7. ASSUME NEW d \in DOMAIN files PROVE d \in DOMAIN files' /\ files'[d] = files[d]
    BY <1>9, <2>1, <2>5
  <2> QED
    BY <2>5, <2>6, <2>7
<1>11. ASSUME NEW i \in 1..n
       PROVE  /\ Len(files) + i \in DOMAIN files' /\ files'[Len(files) + i].pages = SubSeq(pages, ranges[i].start, ranges[i].end)
              /\ files'[Len(files) + i].batch = r /\ files'[Len(files) + i].index = i
  <2>1. PICK cut : cut = SubSeq(pages, ranges[i].start, ranges[i].end)
    OBVIOUS
  <2>2. files'[Len(files) + i] = [pages |-> cut, batch |-> r, index |-> i, live |-> TRUE]
    BY <1>9, <1>10, <2>1 DEF Part
  <2>3. Len(files) \in Nat
    BY DEF StoredSplitsInv, SplitsTyped
  <2>4. Len(files) + i \in 1..(Len(files) + n)
    BY <1>9, <2>3
  <2>5. files'[Len(files) + i].pages = cut /\ files'[Len(files) + i].batch = r /\ files'[Len(files) + i].index = i
    BY <2>2
  <2> QED
    BY <1>10, <2>1, <2>4, <2>5
<1>12. NewFiles(r, pages, ranges, n)
  BY <1>9, <1>10, <1>11 DEF NewFiles
<1> QED
  BY <1>1, <1>2, <1>4, <1>5, <1>6, <1>7, <1>8, <1>9, <1>12

LEMMA CommitPages ==
  ASSUME StoredSplitsInv, PagesInv, NEW a \in Splitters, Commits(a)
  PROVE  PagesInv'
<1>1. PICK r \in Requests : r = splitters[a].request
  BY AtWork DEF Commits, CommitSplit, StoredSplitsInv, SplitterInv
<1>2. PICK pages, ranges : pages = splitters[a].pages /\ ranges = Ranges(splitters[a].spec, Len(pages))
  OBVIOUS
<1>3. /\ splitters[a].at = "reserved" /\ splitters[a].spec \in Specs /\ pages \in Files /\ batches[r] = Unused
      /\ Plannable(splitters[a].spec, Len(pages))
      /\ \A q \in Requests \ {r} : batches'[q] = batches[q] /\ charged'[q] = charged[q]
      /\ \A b \in Splitters \ {a} : splitters'[b] = splitters[b]
      /\ splitters'[a].at = "answered"
      /\ Accepted(r)' /\ batches'[r].asked.source = splitters[a].source /\ batches'[r].asked.spec = splitters[a].spec
      /\ batches'[r].pages = pages /\ batches'[r].root = splitters[a].root /\ batches'[r].ranges = ranges
  BY <1>1, <1>2, Committed
<1>4. PICK n \in Nat \ {0} : NewFiles(r, pages, ranges, n)
  BY <1>1, <1>2, Committed
<1>5. /\ DOMAIN ranges = 1..n /\ DOMAIN files' = 1..(Len(files) + n)
      /\ \A d \in DOMAIN files : d \in DOMAIN files' /\ files'[d] = files[d]
  BY <1>4 DEF NewFiles
<1>6. HistoryStays
  BY <1>3, <1>5 DEF HistoryStays, Accepted
<1>7. charged[r] = 0 /\ Children(r) = {} /\ charged = [q \in Requests |-> charged[q]]
  BY <1>3 DEF PagesInv, BatchPages, Accepted
<1>8. InOrder(pages) /\ SourceTells(splitters[a].root, pages, splitters[a].source) /\ MarkerVerified(splitters[a].spec, pages)
  BY <1>2, <1>3 DEF PagesInv, SplitterPages
<1>9. charged' = [charged EXCEPT ![r] = @ + Selected(ranges)]
  BY <1>1, <1>2 DEF Commits, CommitSplit
<1>10. charged'[r] = Selected(ranges) /\ charged' = [q \in Requests |-> charged'[q]]
  <2>1. Selected(ranges) \in Nat
    BY <1>5, SelectedCounts
  <2>2. charged'[r] = 0 + Selected(ranges)
    BY <1>7, <1>9
  <2>3. charged' = [q \in Requests |-> charged'[q]]
    BY <1>7, <1>9
  <2> QED
    BY <2>1, <2>2, <2>3
<1>11. Len(files) \in Nat /\ DOMAIN files = 1..Len(files)
  BY DEF StoredSplitsInv, SplitsTyped
<1>12. ASSUME NEW d \in DOMAIN files', d \notin DOMAIN files
       PROVE  \E i \in 1..n : d = Len(files) + i
  <2>1. d - Len(files) \in 1..n /\ d = Len(files) + (d - Len(files))
    BY <1>5, <1>11, <1>12
  <2> QED
    BY <2>1
<1>13. ASSUME NEW i \in 1..n
       PROVE  /\ files'[Len(files) + i].pages = SubSeq(pages, ranges[i].start, ranges[i].end)
              /\ files'[Len(files) + i].batch = r /\ files'[Len(files) + i].index = i
              /\ Len(files) + i \in DOMAIN files'
  BY <1>4 DEF NewFiles
<1>14. ASSUME NEW i \in 1..n
       PROVE  InOrder(SubSeq(pages, ranges[i].start, ranges[i].end))
  <2>1. PICK m \in Nat \ {0} :
          /\ DOMAIN ranges = 1..m
          /\ \A j \in 1..m : /\ ranges[j].start \in Nat \ {0} /\ ranges[j].end \in Nat
                             /\ ranges[j].start <= ranges[j].end /\ ranges[j].end <= Len(pages)
    BY <1>2, <1>3, RangesFit
  <2> QED
    BY <1>3, <1>5, <1>8, <2>1, PieceInOrder
<1>15. ASSUME NEW d \in DOMAIN files' PROVE FilePages(d)'
  <2>1. CASE d \in DOMAIN files
    BY <1>6, <2>1, FileStays DEF PagesInv
  <2>2. CASE d \notin DOMAIN files
    <3>1. PICK i \in 1..n : d = Len(files) + i
      BY <1>12, <2>2
    <3> QED
      BY <1>3, <1>5, <1>13, <1>14, <3>1 DEF FilePages
  <2> QED
    BY <2>1, <2>2
<1>16. BatchPages(r)'
  <2>1. ASSUME NEW d \in Children(r)' PROVE \E i \in 1..n : d = Len(files) + i /\ files'[d].index = i
    <3>1. d \in DOMAIN files' /\ files'[d].batch = r
      BY DEF Children
    <3>2. d \notin DOMAIN files
      BY <1>5, <1>7, <3>1 DEF Children
    <3> QED
      BY <1>12, <1>13, <3>1, <3>2
  <2>2. \A d, e \in Children(r)' : files'[d].index = files'[e].index => d = e
    BY <2>1
  <2>3. \A i \in 1..n : Len(files) + i \in Children(r)' /\ files'[Len(files) + i].index = i
    BY <1>13 DEF Children
  <2>4. PICK root, source : root = splitters[a].root /\ source = splitters[a].source
    OBVIOUS
  <2>5. SourceTells(root, pages, source)'
    BY <1>6, <1>8, <2>4, SourceStays
  <2>6. batches'[r].root = root /\ batches'[r].asked.source = source
    BY <1>3, <2>4
  <2>7. SourceTells(batches[r].root, batches[r].pages, batches[r].asked.source)'
    BY <1>3, <2>5, <2>6 DEF SourceTells, RootTells
  <2> QED
    BY <1>2, <1>3, <1>5, <1>8, <1>10, <2>2, <2>3, <2>7 DEF BatchPages
<1>17. ASSUME NEW q \in Requests \ {r} PROVE BatchPages(q)'
  <2>1. Children(q)' = Children(q)
    <3>1. ASSUME NEW d \in DOMAIN files', d \notin DOMAIN files PROVE files'[d].batch = r
      BY <1>12, <1>13, <3>1
    <3> QED
      BY <1>5, <3>1 DEF Children
  <2>2. Accepted(q)' <=> Accepted(q)
    BY <1>3 DEF Accepted
  <2> QED
    BY <1>3, <1>6, <2>1, <2>2, BatchStays DEF PagesInv
<1>18. ASSUME NEW b \in Splitters PROVE SplitterPages(splitters[b])'
  <2>1. CASE b = a
    BY <1>3, <2>1 DEF SplitterPages
  <2>2. CASE b # a
    <3>1. PICK x : x = splitters[b]
      OBVIOUS
    <3>2. SplitterPages(x)'
      BY <1>6, <3>1, SplitterStays DEF PagesInv
    <3> QED
      BY <1>3, <2>2, <3>1, <3>2 DEF SplitterPages, SourceTells, RootTells, Accepted
  <2> QED
    BY <2>1, <2>2
<1> QED
  BY <1>10, <1>15, <1>16, <1>17, <1>18 DEF PagesInv

LEMMA RejectPages ==
  ASSUME StoredSplitsInv, PagesInv, NEW a \in Splitters, RejectSplit(a)
  PROVE  PagesInv'
<1>1. PICK r \in Requests : r = splitters[a].request
  BY AtWork DEF RejectSplit, StoredSplitsInv, SplitterInv
<1>2. batches[r] = Unused /\ UNCHANGED <<files, charged>>
  BY <1>1 DEF RejectSplit, NotMade
<1>3. (\A q \in Requests \ {r} : batches'[q] = batches[q]) /\ ~Accepted(r) /\ ~Accepted(r)'
  <2> DEFINE row == [state |-> "rejected", asked |-> AskedBy(a)]
  <2>1. batches' = [batches EXCEPT ![r] = row]
    BY <1>1 DEF RejectSplit
  <2>2. row.state = "rejected"
    OBVIOUS
  <2> HIDE DEF row
  <2>3. batches'[r] = row /\ \A q \in Requests \ {r} : batches'[q] = batches[q]
    BY <2>1 DEF StoredSplitsInv, SplitsTyped
  <2> QED
    BY <1>2, <2>2, <2>3 DEF Accepted
<1>4. HistoryStays
  BY <1>2, <1>3 DEF HistoryStays, Accepted
<1>5. ASSUME NEW d \in DOMAIN files' PROVE FilePages(d)'
  BY <1>2, <1>4, FileStays DEF PagesInv
<1>6. ASSUME NEW q \in Requests PROVE BatchPages(q)'
  <2>1. Accepted(q)' <=> Accepted(q)
    BY <1>3 DEF Accepted
  <2>2. Children(q)' = Children(q) /\ charged'[q] = charged[q]
    BY <1>2 DEF Children
  <2> QED
    BY <1>4, <2>1, <2>2, BatchStays DEF PagesInv
<1>7. ASSUME NEW b \in Splitters PROVE SplitterPages(splitters[b])'
  <2> DEFINE s == [at |-> "answered", request |-> splitters[a].request, source |-> splitters[a].source,
                   spec |-> splitters[a].spec, receipt |-> "rejected"]
  <2>1. splitters' = [splitters EXCEPT ![a] = s]
    BY DEF RejectSplit, Answer
  <2>2. s.at = "answered"
    OBVIOUS
  <2> HIDE DEF s
  <2>3. splitters'[a] = s /\ \A c \in Splitters \ {a} : splitters'[c] = splitters[c]
    BY <2>1 DEF StoredSplitsInv, SplitsTyped
  <2>4. CASE b = a
    BY <2>2, <2>3, <2>4 DEF SplitterPages
  <2>5. CASE b # a
    <3>1. PICK x : x = splitters[b]
      OBVIOUS
    <3>2. SplitterPages(x)'
      BY <1>4, <3>1, SplitterStays DEF PagesInv
    <3> QED
      BY <2>3, <2>5, <3>1, <3>2 DEF SplitterPages, SourceTells, RootTells, Accepted
  <2> QED
    BY <2>4, <2>5
<1> QED
  BY <1>2, <1>5, <1>6, <1>7 DEF PagesInv

LEMMA PurgePages ==
  ASSUME StoredSplitsInv, PagesInv,
         (\E d \in DOMAIN files : PurgeFile(d)) \/ (\E r \in Requests : UndoSplit(r) \/ PurgeSplit(r))
  PROVE  PagesInv'
<1>1. ASSUME NEW q \in Requests, Accepted(q), NEW b,
             \E undone, kept : b = [batches[q] EXCEPT !.undone = undone, !.kept = kept] \/ b = [batches[q] EXCEPT !.kept = kept]
      PROVE  /\ b # Unused /\ b.state = "accepted" /\ b.asked = batches[q].asked /\ b.pages = batches[q].pages
             /\ b.root = batches[q].root /\ b.ranges = batches[q].ranges
  <2>1. batches[q] \in [state : {"accepted"}, asked : Questions, pages : Files, root : {batches[q].root},
                        ranges : {batches[q].ranges}, undone : BOOLEAN, kept : BOOLEAN]
    BY <1>1 DEF StoredSplitsInv, BatchInv, BatchRow, Accepted
  <2>2. PICK undone, kept : b = [batches[q] EXCEPT !.undone = undone, !.kept = kept] \/ b = [batches[q] EXCEPT !.kept = kept]
    BY <1>1
  <2>3. \/ b = [state |-> "accepted", asked |-> batches[q].asked, pages |-> batches[q].pages, root |-> batches[q].root,
                ranges |-> batches[q].ranges, undone |-> undone, kept |-> kept]
        \/ b = [state |-> "accepted", asked |-> batches[q].asked, pages |-> batches[q].pages, root |-> batches[q].root,
                ranges |-> batches[q].ranges, undone |-> batches[q].undone, kept |-> kept]
    BY <2>1, <2>2
  <2> QED
    BY <2>3 DEF Unused
\* Whatever is deleted, the rest stays as it is.
<1>2. ASSUME NEW dead, files' = Purged(dead), UNCHANGED <<splitters, charged>>,
             \A q \in Requests : ~Accepted(q) => batches'[q] = batches[q],
             \A q \in Requests : Accepted(q) =>
               \/ batches'[q] = batches[q]
               \/ \E undone, kept : \/ batches'[q] = [batches[q] EXCEPT !.undone = undone, !.kept = kept]
                                    \/ batches'[q] = [batches[q] EXCEPT !.kept = kept]
      PROVE  PagesInv'
  <2>1. DOMAIN files' = DOMAIN files
    BY <1>2 DEF Purged
  <2>2. ASSUME NEW d \in DOMAIN files
        PROVE  files'[d].pages = files[d].pages /\ files'[d].batch = files[d].batch /\ files'[d].index = files[d].index
    <3>1. files[d] \in FileRows
      BY FileFacts DEF StoredSplitsInv
    <3>2. files'[d] = IF d \in dead THEN [files[d] EXCEPT !.live = FALSE] ELSE files[d]
      BY <1>2 DEF Purged
    <3> QED
      BY <3>1, <3>2 DEF FileRows
  <2>3. ASSUME NEW q \in Requests, Accepted(q)
        PROVE  /\ Accepted(q)' /\ batches'[q].asked = batches[q].asked /\ batches'[q].pages = batches[q].pages
               /\ batches'[q].root = batches[q].root /\ batches'[q].ranges = batches[q].ranges
    <3>1. CASE batches'[q] = batches[q]
      BY <2>3, <3>1 DEF Accepted
    <3>2. CASE \E undone, kept : \/ batches'[q] = [batches[q] EXCEPT !.undone = undone, !.kept = kept]
                                 \/ batches'[q] = [batches[q] EXCEPT !.kept = kept]
      <4>1. PICK b : b = batches'[q]
        OBVIOUS
      <4>2. \E undone, kept : b = [batches[q] EXCEPT !.undone = undone, !.kept = kept] \/ b = [batches[q] EXCEPT !.kept = kept]
        BY <3>2, <4>1
      <4>3. /\ b # Unused /\ b.state = "accepted" /\ b.asked = batches[q].asked /\ b.pages = batches[q].pages
            /\ b.root = batches[q].root /\ b.ranges = batches[q].ranges
        BY <1>1, <2>3, <4>2
      <4> QED
        BY <4>1, <4>3 DEF Accepted
    <3> QED
      BY <1>2, <2>3, <3>1, <3>2
  <2>4. HistoryStays
    BY <2>1, <2>2, <2>3 DEF HistoryStays
  <2>5. ASSUME NEW d \in DOMAIN files' PROVE FilePages(d)'
    BY <2>1, <2>4, FileStays DEF PagesInv
  <2>6. ASSUME NEW q \in Requests PROVE BatchPages(q)'
    <3>1. Accepted(q)' <=> Accepted(q)
      BY <1>2, <2>3 DEF Accepted
    <3>2. Children(q)' = Children(q) /\ charged'[q] = charged[q]
      BY <1>2, <2>1, <2>2 DEF Children
    <3> QED
      BY <2>4, <3>1, <3>2, BatchStays DEF PagesInv
  <2>7. ASSUME NEW b \in Splitters PROVE SplitterPages(splitters[b])'
    <3>1. PICK x : x = splitters[b]
      OBVIOUS
    <3>2. SplitterPages(x)'
      BY <2>4, <3>1, SplitterStays DEF PagesInv
    <3>3. splitters'[b] = x
      BY <1>2, <3>1
    <3> QED
      BY <3>2, <3>3 DEF SplitterPages, SourceTells, RootTells, Accepted
  <2> QED
    BY <1>2, <2>5, <2>6, <2>7 DEF PagesInv
<1>3. ASSUME NEW d \in DOMAIN files, PurgeFile(d) PROVE PagesInv'
  <2>1. files' = Purged({d}) /\ UNCHANGED <<splitters, charged>>
        /\ batches' = [q \in Requests |->
             IF Accepted(q) THEN [batches[q] EXCEPT !.kept = @ /\ ~Emptied(q, {d})] ELSE batches[q]]
    BY <1>3 DEF PurgeFile
  <2>2. ASSUME NEW q \in Requests, Accepted(q)
        PROVE  \E undone, kept : \/ batches'[q] = [batches[q] EXCEPT !.undone = undone, !.kept = kept]
                                 \/ batches'[q] = [batches[q] EXCEPT !.kept = kept]
    <3>1. PICK kept : kept = (batches[q].kept /\ ~Emptied(q, {d}))
      OBVIOUS
    <3>2. batches'[q] = [batches[q] EXCEPT !.kept = kept]
      BY <2>1, <2>2, <3>1
    <3> QED
      BY <3>2
  <2> QED
    BY <1>2, <2>1, <2>2
<1>4. ASSUME NEW r \in Requests, UndoSplit(r) \/ PurgeSplit(r) PROVE PagesInv'
  <2>1. /\ Accepted(r) /\ files' = Purged(Children(r)) /\ UNCHANGED <<splitters, charged>>
        /\ \/ batches' = [batches EXCEPT ![r].undone = TRUE, ![r].kept = FALSE]
           \/ batches' = [batches EXCEPT ![r].kept = FALSE]
    BY <1>4 DEF UndoSplit, PurgeSplit
  <2>2. \A q \in Requests \ {r} : batches'[q] = batches[q]
    BY <2>1 DEF StoredSplitsInv, SplitsTyped
  <2>3. \/ batches'[r] = [batches[r] EXCEPT !.undone = TRUE, !.kept = FALSE]
        \/ batches'[r] = [batches[r] EXCEPT !.kept = FALSE]
    BY <2>1 DEF StoredSplitsInv, SplitsTyped
  <2>4. \E undone, kept : \/ batches'[r] = [batches[r] EXCEPT !.undone = undone, !.kept = kept]
                          \/ batches'[r] = [batches[r] EXCEPT !.kept = kept]
    BY <2>3
  <2> QED
    BY <1>2, <2>1, <2>2, <2>4
<1> QED
  BY <1>3, <1>4

LEMMA PagesStep == StoredSplitsInv /\ PagesInv /\ [FilesNext]_filesVars => PagesInv'
<1> SUFFICES ASSUME StoredSplitsInv, PagesInv, [FilesNext]_filesVars PROVE PagesInv'
  OBVIOUS
<1>1. CASE UNCHANGED filesVars
  <2>1. UNCHANGED <<files, batches, splitters, charged>>
    BY <1>1 DEF filesVars
  <2>2. HistoryStays
    BY <2>1 DEF HistoryStays, Accepted
  <2>3. ASSUME NEW d \in DOMAIN files' PROVE FilePages(d)'
    BY <2>1, <2>2, FileStays DEF PagesInv
  <2>4. ASSUME NEW q \in Requests PROVE BatchPages(q)'
    BY <2>1, <2>2, BatchStays DEF PagesInv, Accepted, Children
  <2>5. ASSUME NEW b \in Splitters PROVE SplitterPages(splitters[b])'
    <3>1. PICK x : x = splitters[b] /\ x = splitters'[b]
      BY <2>1
    <3>2. SplitterPages(x)'
      BY <2>2, <3>1, SplitterStays DEF PagesInv
    <3> QED
      BY <3>1, <3>2 DEF SplitterPages, SourceTells, RootTells, Accepted
  <2> QED
    BY <2>1, <2>3, <2>4, <2>5 DEF PagesInv
<1>2. ASSUME NEW a \in Splitters, CommitSplit(a) PROVE PagesInv'
  <2>1. CASE SplitterGoes(a, "rejecting") /\ UNCHANGED <<batches, files, charged>>
    BY <1>2, <2>1, PagesWhileGoing DEF CommitSplit
  <2> QED
    BY <1>2, <2>1, CommitPages DEF Commits
<1> QED
  BY <1>1, <1>2, BeginPages, PassPages, RejectPages, PurgePages DEF FilesNext

\* Of every document its lineage is true, and every batch is what its request asked for.
THEOREM PagesReached == FilesSpec => []PagesInv
<1> QED
  BY PagesInitial, PagesStep, SplitsReached, PTL DEF FilesSpec

LEMMA LineageTrue == StoredSplitsInv /\ PagesInv => LineageIsTrue
<1> SUFFICES ASSUME StoredSplitsInv, PagesInv, NEW d \in DOMAIN files
             PROVE  LET root == RootOf(d)
                        first == IF root.kind = "split" THEN batches[root.id].pages ELSE files[root.id].pages
                    IN /\ first = root.pages /\ files[d].pages = SubSeq(first, root.start, root.end)
                       /\ root.kind = "document" => files[root.id].batch = Unused
                       /\ root.kind = "split" => batches[root.id].asked.source = Uploaded
  BY DEF LineageIsTrue
<1>1. PICK root : root = RootOf(d)
  OBVIOUS
<1>2. RootTells(root, files[d].pages)
  BY <1>1, RootFound
<1> QED
  BY <1>1, <1>2 DEF RootTells

-----------------------------------------------------------------------------
\* Pieces of one size: as many as are needed, each beginning where the last ended, and all of
\* that size but the last.
LEMMA EveryPage ==
  ASSUME NEW count \in Nat \ {0}, NEW size \in Nat \ {0},
         NEW n \in Nat, n = (count + size - 1) \div size
  PROVE  /\ n * size >= count /\ (n - 1) * size < count
         /\ \A k \in 1..count : \E i \in 1..n : (i - 1) * size < k /\ k <= i * size
<1>1. count + size - 1 \in Nat /\ size > 0
  OBVIOUS
<1>2. n * size <= count + size - 1 /\ count + size - 1 < (n + 1) * size
  BY <1>1
<1>3. (n + 1) * size = n * size + size /\ (n - 1) * size = n * size - size /\ n * size \in Nat
  OBVIOUS
<1>4. n * size >= count /\ (n - 1) * size < count
  BY <1>2, <1>3
<1>5. ASSUME NEW k \in 1..count PROVE \E i \in 1..n : (i - 1) * size < k /\ k <= i * size
  <2> DEFINE q == (k - 1) \div size
  <2>1. k - 1 \in Nat /\ k \in Nat
    OBVIOUS
  <2>2. q \in Nat /\ q * size <= k - 1 /\ k - 1 < (q + 1) * size
    BY <2>1
  <2> HIDE DEF q
  <2>3. PICK i \in Nat : i = q + 1
    BY <2>2
  <2>4. (i - 1) * size < k /\ k <= i * size
    <3>1. i - 1 = q /\ i * size \in Nat /\ q * size \in Nat
      BY <2>2, <2>3
    <3> QED
      BY <2>1, <2>2, <2>3, <3>1
  <2>5. i <= n
    <3>1. SUFFICES ASSUME i >= n + 1 PROVE FALSE
      OBVIOUS
    <3>2. PICK x \in Nat : i = n + 1 + x
      <4>1. i - (n + 1) \in Nat /\ i = n + 1 + (i - (n + 1))
        BY <3>1
      <4> QED
        BY <4>1
    <3>3. (i - 1) * size = n * size + x * size /\ x * size >= 0 /\ x * size \in Nat
      <4>1. i - 1 = n + x
        BY <3>2
      <4> QED
        BY <4>1
    <3> QED
      BY <1>3, <1>4, <2>4, <3>3
  <2>6. i \in 1..n
    BY <2>2, <2>3, <2>5
  <2> QED
    BY <2>4, <2>6
<1> QED
  BY <1>4, <1>5

LEMMA EveryApart ==
  ASSUME NEW size \in Nat \ {0}, NEW i \in Nat \ {0}, NEW j \in Nat \ {0}, i < j
  PROVE  i * size < (j - 1) * size + 1
<1>1. PICK x \in Nat : j = i + 1 + x
  <2>1. j - (i + 1) \in Nat /\ j = i + 1 + (j - (i + 1))
    OBVIOUS
  <2> QED
    BY <2>1
<1>2. j - 1 = i + x
  BY <1>1
<1>3. (j - 1) * size = i * size + x * size /\ x * size \in Nat /\ i * size \in Nat
  BY <1>2
<1> QED
  BY <1>3

LEMMA EveryPieces ==
  ASSUME NEW count \in Nat \ {0}, NEW size \in Nat \ {0}
  PROVE  LET ranges == EveryRanges(size, count)
         IN \E n \in Nat :
              /\ DOMAIN ranges = 1..n
              /\ \A i, j \in 1..n : i < j => ranges[i].end < ranges[j].start
              /\ \A k \in 1..count : \E i \in 1..n : k \in ranges[i].start..ranges[i].end
              /\ \A i \in 1..n : LET length == ranges[i].end - ranges[i].start + 1
                                 IN length = size \/ (i = n /\ length < size)
<1> DEFINE n == (count + size - 1) \div size
           ranges == EveryRanges(size, count)
<1>1. n \in Nat \ {0}
  BY PieceCount
<1>2. ranges = [i \in 1..n |-> PageRange((i - 1) * size + 1, Least(i * size, count))]
  BY DEF EveryRanges
<1>3. /\ n * size >= count /\ (n - 1) * size < count
      /\ \A k \in 1..count : \E i \in 1..n : (i - 1) * size < k /\ k <= i * size
  BY <1>1, EveryPage
<1> HIDE DEF n, ranges
<1>4. ASSUME NEW i \in 1..n
      PROVE  /\ i \in Nat \ {0} /\ i - 1 \in Nat /\ i * size \in Nat /\ (i - 1) * size \in Nat /\ i * size = (i - 1) * size + size
             /\ ranges[i].start = (i - 1) * size + 1 /\ ranges[i].end = Least(i * size, count)
             /\ Least(i * size, count) \in Nat /\ Least(i * size, count) <= i * size /\ Least(i * size, count) <= count
             /\ Least(i * size, count) \in {i * size, count}
  <2>1. i \in Nat \ {0} /\ i - 1 \in Nat
    BY <1>1
  <2>2. i * size \in Nat /\ (i - 1) * size \in Nat /\ i * size = (i - 1) * size + size
    BY <2>1
  <2>3. ranges[i].start = (i - 1) * size + 1 /\ ranges[i].end = Least(i * size, count)
    BY <1>2 DEF PageRange
  <2>4. /\ Least(i * size, count) \in Nat /\ Least(i * size, count) <= i * size /\ Least(i * size, count) <= count
        /\ Least(i * size, count) \in {i * size, count}
    BY <2>2 DEF Least
  <2> QED
    BY <2>1, <2>2, <2>3, <2>4
<1>5. ASSUME NEW i \in 1..n, NEW j \in 1..n, i < j PROVE ranges[i].end < ranges[j].start
  <2>1. i * size < (j - 1) * size + 1
    BY <1>4, <1>5, EveryApart
  <2>2. PICK x \in Nat, y \in Nat, z \in Nat : x = i * size /\ y = (j - 1) * size /\ z = Least(i * size, count) /\ z <= x
    BY <1>4
  <2>3. ranges[i].end = z /\ ranges[j].start = y + 1
    BY <1>4, <2>2
  <2> QED
    BY <2>1, <2>2, <2>3
<1>6. ASSUME NEW k \in 1..count PROVE \E i \in 1..n : k \in ranges[i].start..ranges[i].end
  <2>1. PICK i \in 1..n : (i - 1) * size < k /\ k <= i * size
    BY <1>3
  <2>2. PICK x \in Nat, y \in Nat, z \in Nat : x = i * size /\ y = (i - 1) * size /\ z = Least(i * size, count) /\ z \in {x, count}
    BY <1>4
  <2>3. k \in (y + 1)..z
    BY <2>1, <2>2
  <2>4. ranges[i].end = z /\ ranges[i].start = y + 1
    BY <1>4, <2>2
  <2> QED
    BY <2>3, <2>4
<1>7. ASSUME NEW i \in 1..n
      PROVE  LET length == ranges[i].end - ranges[i].start + 1
             IN length = size \/ (i = n /\ length < size)
  <2>1. PICK x \in Nat, y \in Nat, z \in Nat : /\ x = i * size /\ y = (i - 1) * size /\ z = Least(i * size, count)
                                               /\ z \in {x, count} /\ x = y + size /\ z <= x
    BY <1>4
  <2>2. ranges[i].end = z /\ ranges[i].start = y + 1
    BY <1>4, <2>1
  <2>3. CASE i < n
    <3>1. i * size < (n - 1) * size + 1
      BY <1>1, <1>4, <2>3, EveryApart
    <3>2. (n - 1) * size \in Nat
      BY <1>1
    <3>3. x < count
      BY <1>3, <2>1, <3>1, <3>2
    <3>4. z = x
      BY <1>4, <2>1, <3>3 DEF Least
    <3> QED
      BY <2>1, <2>2, <3>4
  <2>4. CASE i = n
    <3>1. z - (y + 1) + 1 = size \/ z - (y + 1) + 1 < size
      BY <2>1
    <3> QED
      BY <2>2, <2>4, <3>1
  <2> QED
    BY <1>1, <2>3, <2>4
<1> QED
  BY <1>1, <1>2, <1>5, <1>6, <1>7 DEF ranges

LEMMA RangesApart ==
  ASSUME NEW spec \in Specs, NEW pages \in Files, Plannable(spec, Len(pages))
  PROVE  LET ranges == Ranges(spec, Len(pages))
         IN \A i, j \in DOMAIN ranges : i < j => ranges[i].end < ranges[j].start
<1> DEFINE count == Len(pages)
           ranges == Ranges(spec, count)
<1>1. count \in Nat \ {0}
  BY DEF Files
<1>2. CASE spec.mode = "every"
  <2>1. spec.size \in Nat \ {0}
    BY <1>2, SplitFacts DEF Specs
  <2>2. ranges = EveryRanges(spec.size, count)
    BY <1>2 DEF Ranges
  <2> QED
    BY <1>1, <2>1, <2>2, EveryPieces
<1>3. CASE spec \in [mode : {"ranges"}, ranges : {<<i>> : i \in Intervals}]
  <2>1. ranges = spec.ranges /\ \E i \in Intervals : spec.ranges = <<i>>
    BY <1>3 DEF Ranges
  <2>2. DOMAIN ranges = 1..1
    BY <2>1
  <2> QED
    BY <2>2
<1>4. CASE spec \in [mode : {"marker"}, ranges : {<<PageRange(1, e), PageRange(e + 1, Length)>> : e \in 1..(Length - 1)}]
  <2>1. PICK e \in 1..(Length - 1) : ranges = <<PageRange(1, e), PageRange(e + 1, Length)>>
    BY <1>4 DEF Ranges
  <2>2. e \in Nat /\ DOMAIN ranges = {1, 2} /\ ranges[1].end = e /\ ranges[2].start = e + 1
    BY <2>1, SplitFacts DEF PageRange
  <2> QED
    BY <2>2
<1> QED
  BY <1>2, <1>3, <1>4 DEF Specs

\* Ranges of a file that follow each other.
Apart(ranges, n, count) ==
  /\ DOMAIN ranges = 1..n
  /\ \A i \in 1..n : /\ ranges[i].start \in Nat \ {0} /\ ranges[i].end \in Nat
                     /\ ranges[i].start <= ranges[i].end /\ ranges[i].end <= count
  /\ \A i, j \in 1..n : i < j => ranges[i].end < ranges[j].start

\* The pieces a file is cut into there, and what they are.
Cuts(whole, ranges, n) == [i \in 1..n |-> SubSeq(whole, ranges[i].start, ranges[i].end)]
PagesOf(pieces) == UNION {{pieces[i][j] : j \in DOMAIN pieces[i]} : i \in DOMAIN pieces}
CutWell(pieces, whole, ranges, n) ==
  /\ \A i \in 1..n :
       /\ Len(pieces[i]) = ranges[i].end - ranges[i].start + 1 /\ DOMAIN pieces[i] = 1..Len(pieces[i])
       /\ \A j \in DOMAIN pieces[i] : pieces[i][j] = whole[ranges[i].start + j - 1]
  /\ PagesOf(pieces) = {whole[k] : k \in UNION {ranges[i].start..ranges[i].end : i \in 1..n}}
  /\ \A i, j \in 1..n : i < j => pieces[i][Len(pieces[i])] < pieces[j][1]
  /\ Selected(ranges) = Cardinality(PagesOf(pieces))

\* What pieces cut out of ranges that are apart hold.
LEMMA PiecesHold ==
  ASSUME NEW whole \in Files, InOrder(whole), NEW ranges, NEW n \in Nat \ {0}, Apart(ranges, n, Len(whole)),
         NEW pieces, pieces = Cuts(whole, ranges, n)
  PROVE  CutWell(pieces, whole, ranges, n)
<1> DEFINE pagesOf == UNION {{pieces[i][j] : j \in DOMAIN pieces[i]} : i \in DOMAIN pieces}
           cells == {x \in (DOMAIN ranges) \X (1..Length) : x[2] \in ranges[x[1]].start..ranges[x[1]].end}
<1>1. pieces = [i \in 1..n |-> SubSeq(whole, ranges[i].start, ranges[i].end)]
  BY DEF Cuts
<1>2. /\ DOMAIN ranges = 1..n
      /\ \A i \in 1..n : /\ ranges[i].start \in Nat \ {0} /\ ranges[i].end \in Nat
                         /\ ranges[i].start <= ranges[i].end /\ ranges[i].end <= Len(whole)
      /\ \A i, j \in 1..n : i < j => ranges[i].end < ranges[j].start
  BY DEF Apart
<1>3. PICK L \in Nat : L = Len(whole)
  <2>1. Len(whole) \in Nat
    BY DEF Files
  <2> QED
    BY <2>1
<1>4. whole \in Seq(Nat) /\ DOMAIN whole = 1..L /\ L <= Length /\ \A i, j \in 1..L : i < j => whole[i] < whole[j]
  <2>1. whole \in Seq(Nat) /\ DOMAIN whole = 1..L
    BY <1>3 DEF Files
  <2> QED
    BY <1>3, <2>1 DEF InOrder
<1>5. ASSUME NEW i \in 1..n
      PROVE  \E s \in Nat \ {0}, e \in Nat : ranges[i].start = s /\ ranges[i].end = e /\ s <= e /\ e <= L
  BY <1>3, <1>2
<1>6. ASSUME NEW i \in 1..n
      PROVE  /\ Len(pieces[i]) = ranges[i].end - ranges[i].start + 1 /\ DOMAIN pieces[i] = 1..Len(pieces[i])
             /\ \A j \in DOMAIN pieces[i] : pieces[i][j] = whole[ranges[i].start + j - 1]
  <2>1. PICK s \in Nat \ {0}, e \in Nat : ranges[i].start = s /\ ranges[i].end = e /\ s <= e /\ e <= L
    BY <1>5
  <2>2. PICK piece : piece = SubSeq(whole, s, e)
    OBVIOUS
  <2>3. piece \in Seq(Nat) /\ Len(piece) = e - s + 1 /\ \A j \in 1..(e - s + 1) : piece[j] = whole[s + j - 1]
    <3>1. \A j \in s..e : whole[j] \in Nat
      BY <1>4, <2>1
    <3> QED
      BY <2>1, <2>2, <3>1, SubSeqProperties
  <2>4. pieces[i] = piece
    <3>1. pieces[i] = SubSeq(whole, ranges[i].start, ranges[i].end)
      BY <1>1
    <3> QED
      BY <2>1, <2>2, <3>1
  <2>5. DOMAIN piece = 1..(e - s + 1)
    BY <2>1, <2>3
  <2> QED
    BY <2>1, <2>3, <2>4, <2>5
<1>7. DOMAIN pieces = 1..n
  BY <1>1
<1>8. ASSUME NEW i \in 1..n, NEW p
      PROVE  p \in {pieces[i][j] : j \in DOMAIN pieces[i]} <=> \E k \in ranges[i].start..ranges[i].end : p = whole[k]
  <2>1. PICK s \in Nat \ {0}, e \in Nat : ranges[i].start = s /\ ranges[i].end = e /\ s <= e /\ e <= L
    BY <1>5
  <2>2. PICK piece : piece = pieces[i]
    OBVIOUS
  <2>3. DOMAIN piece = 1..(e - s + 1) /\ \A j \in 1..(e - s + 1) : piece[j] = whole[s + j - 1]
    BY <1>6, <2>1, <2>2
  <2>4. ASSUME NEW j \in DOMAIN piece PROVE s + j - 1 \in s..e /\ piece[j] = whole[s + j - 1]
    BY <2>1, <2>3
  <2>5. ASSUME NEW k \in s..e PROVE k - s + 1 \in DOMAIN piece /\ piece[k - s + 1] = whole[k]
    <3>1. PICK j \in 1..(e - s + 1) : j = k - s + 1
      <4>1. k - s + 1 \in 1..(e - s + 1)
        BY <2>1
      <4> QED
        BY <4>1
    <3>2. s + j - 1 = k
      BY <2>1, <3>1
    <3> QED
      BY <2>3, <3>1, <3>2
  <2>6. p \in {piece[j] : j \in DOMAIN piece} <=> \E k \in s..e : p = whole[k]
    <3>1. ASSUME NEW j \in DOMAIN piece, p = piece[j] PROVE \E k \in s..e : p = whole[k]
      <4>1. PICK k : k = s + j - 1
        OBVIOUS
      <4> QED
        BY <2>4, <3>1, <4>1
    <3>2. ASSUME NEW k \in s..e, p = whole[k] PROVE \E j \in DOMAIN piece : p = piece[j]
      <4>1. PICK j : j = k - s + 1
        OBVIOUS
      <4> QED
        BY <2>5, <3>2, <4>1
    <3> QED
      BY <3>1, <3>2
  <2> QED
    BY <2>1, <2>2, <2>6
<1>9. pagesOf = {whole[k] : k \in UNION {ranges[i].start..ranges[i].end : i \in 1..n}}
  <2>1. ASSUME NEW p
        PROVE  p \in pagesOf <=> \E i \in 1..n : p \in {pieces[i][j] : j \in DOMAIN pieces[i]}
    <3>1. p \in pagesOf <=> \E i \in DOMAIN pieces : p \in {pieces[i][j] : j \in DOMAIN pieces[i]}
      <4>1. ASSUME p \in pagesOf PROVE \E i \in DOMAIN pieces : p \in {pieces[i][j] : j \in DOMAIN pieces[i]}
        BY <4>1
      <4>2. ASSUME NEW i \in DOMAIN pieces, p \in {pieces[i][j] : j \in DOMAIN pieces[i]} PROVE p \in pagesOf
        <5>1. PICK held : held = {pieces[i][j] : j \in DOMAIN pieces[i]}
          OBVIOUS
        <5>2. held \in {{pieces[k][j] : j \in DOMAIN pieces[k]} : k \in DOMAIN pieces}
          BY <5>1
        <5> QED
          BY <4>2, <5>1, <5>2
      <4> QED
        BY <4>1, <4>2
    <3> QED
      BY <1>7, <3>1, Zenon
  <2>2. ASSUME NEW p
        PROVE  p \in pagesOf <=> \E i \in 1..n : \E k \in ranges[i].start..ranges[i].end : p = whole[k]
    <3>1. \A i \in 1..n : p \in {pieces[i][j] : j \in DOMAIN pieces[i]} <=>
                           \E k \in ranges[i].start..ranges[i].end : p = whole[k]
      BY <1>8
    <3> HIDE DEF pagesOf
    <3> QED
      BY <2>1, <3>1
  <2> HIDE DEF pagesOf
  <2> QED
    BY <2>2
<1> HIDE DEF pagesOf
<1>10. ASSUME NEW i \in 1..n, NEW j \in 1..n, i < j PROVE pieces[i][Len(pieces[i])] < pieces[j][1]
  <2>1. PICK s \in Nat \ {0}, e \in Nat : ranges[i].start = s /\ ranges[i].end = e /\ s <= e /\ e <= L
    BY <1>5
  <2>2. PICK t \in Nat \ {0}, f \in Nat : ranges[j].start = t /\ ranges[j].end = f /\ t <= f /\ f <= L
    BY <1>5
  <2>3. e < t
    BY <1>10, <1>2, <2>1, <2>2
  <2>4. Len(pieces[i]) = e - s + 1 /\ Len(pieces[i]) \in DOMAIN pieces[i] /\ 1 \in DOMAIN pieces[j]
    <3>1. e - s + 1 \in 1..(e - s + 1) /\ 1 \in 1..(f - t + 1)
      BY <2>1, <2>2
    <3> QED
      BY <1>6, <2>1, <2>2, <3>1
  <2>5. pieces[i][Len(pieces[i])] = whole[e] /\ pieces[j][1] = whole[t]
    <3>1. s + (e - s + 1) - 1 = e /\ t + 1 - 1 = t
      BY <2>1, <2>2
    <3> QED
      <4>1. pieces[i][Len(pieces[i])] = whole[ranges[i].start + Len(pieces[i]) - 1]
        BY <1>6, <2>4
      <4>2. pieces[j][1] = whole[ranges[j].start + 1 - 1]
        BY <1>6, <2>4
      <4>3. pieces[i][Len(pieces[i])] = whole[s + (e - s + 1) - 1] /\ pieces[j][1] = whole[t + 1 - 1]
        BY <2>1, <2>2, <2>4, <4>1, <4>2
      <4> QED
        BY <3>1, <4>3
  <2>6. e \in 1..L /\ t \in 1..L
    BY <2>1, <2>2
  <2>7. whole[e] < whole[t]
    BY <1>4, <2>3, <2>6
  <2> QED
    BY <2>5, <2>7
<1>11. Selected(ranges) = Cardinality(pagesOf)
  <2>1. IsFiniteSet(cells) /\ Selected(ranges) = Cardinality(cells)
    BY <1>2, SelectedCounts
  <2> DEFINE f == [x \in cells |-> whole[x[2]]]
  <2>2. ASSUME NEW x \in cells
        PROVE  \E i \in 1..n, k \in 1..L : x = <<i, k>> /\ k \in ranges[i].start..ranges[i].end
    <3>1. PICK i \in 1..n, k \in 1..Length : x = <<i, k>> /\ k \in ranges[i].start..ranges[i].end
      BY <1>2
    <3>2. k \in 1..L
      BY <1>5, <3>1
    <3> QED
      BY <3>1, <3>2
  <2>3. ASSUME NEW i \in 1..n, NEW k \in ranges[i].start..ranges[i].end
        PROVE  <<i, k>> \in cells /\ k \in 1..L
    <3>1. k \in 1..L
      BY <1>5
    <3>2. k \in 1..Length
      BY <1>4, <3>1, SplitFacts
    <3> QED
      BY <1>2, <3>1, <3>2
  <2> HIDE DEF cells
  <2>4. f \in [cells -> pagesOf]
    <3>1. ASSUME NEW x \in cells PROVE whole[x[2]] \in pagesOf
      <4>1. PICK i \in 1..n, k \in 1..L : x = <<i, k>> /\ k \in ranges[i].start..ranges[i].end
        BY <2>2
      <4>2. whole[k] \in pagesOf
        BY <1>9, <4>1
      <4> QED
        BY <4>1, <4>2
    <3> QED
      BY <3>1
  <2>5. ASSUME NEW x \in cells, NEW y \in cells, f[x] = f[y] PROVE x = y
    <3>1. PICK i \in 1..n, k \in 1..L : x = <<i, k>> /\ k \in ranges[i].start..ranges[i].end
      BY <2>2
    <3>2. PICK j \in 1..n, l \in 1..L : y = <<j, l>> /\ l \in ranges[j].start..ranges[j].end
      BY <2>2
    <3>3. whole[k] = whole[l]
      BY <2>5, <3>1, <3>2
    <3>4. k = l
      <4>1. whole[k] \in Nat /\ whole[l] \in Nat
        BY <1>4
      <4>2. ~(k < l) /\ ~(l < k)
        BY <1>4, <3>3, <4>1
      <4> QED
        BY <4>2
    <3>5. i = j
      <4>1. ASSUME NEW c \in 1..n, NEW d \in 1..n, k \in ranges[c].start..ranges[c].end, k \in ranges[d].start..ranges[d].end
            PROVE  ~(c < d)
        <5>1. ranges[c].end \in Nat /\ ranges[d].start \in Nat
          BY <1>2
        <5> QED
          BY <1>2, <4>1, <5>1
      <4>2. ~(i < j) /\ ~(j < i)
        BY <3>1, <3>2, <3>4, <4>1
      <4> QED
        BY <4>2
    <3> QED
      BY <3>1, <3>2, <3>4, <3>5
  <2>6. ASSUME NEW p \in pagesOf PROVE \E x \in cells : f[x] = p
    <3>1. PICK k \in UNION {ranges[i].start..ranges[i].end : i \in 1..n} : p = whole[k]
      BY <1>9
    <3>2. PICK i \in 1..n : k \in ranges[i].start..ranges[i].end
      BY <3>1
    <3>3. <<i, k>> \in cells /\ f[<<i, k>>] = whole[k]
      BY <2>3, <3>2
    <3> QED
      BY <3>3, <3>1
  <2> HIDE DEF f
  <2>7. f \in Bijection(cells, pagesOf)
    <3>1. DOMAIN f = cells
      BY <2>4
    <3> QED
      BY <2>4, <2>5, <2>6, <3>1 DEF Bijection, Injection, Surjection, IsInjective
  <2>8. ExistsBijection(cells, pagesOf)
    BY <2>7 DEF ExistsBijection
  <2> QED
    BY <2>1, <2>8, FS_Bijection
<1> QED
  BY <1>6, <1>9, <1>10, <1>11 DEF pagesOf, PagesOf, CutWell

\* A plan of two ranges that agrees with the text has a range for every marker.
LEMMA MarkersFound ==
  ASSUME NEW whole \in Files, NEW e \in Nat \ {0},
         MarkerRanges(whole) = <<PageRange(1, e), PageRange(e + 1, Length)>>
  PROVE  MarkerStarts(whole) = {1, e + 1}
<1> DEFINE starts == MarkerStarts(whole)
           Upto(p) == {q \in starts : q <= p}
           second == CHOOSE p \in starts : Cardinality(Upto(p)) = 2
<1>1. IsFiniteSet(starts) /\ starts \subseteq Nat \ {0} /\ 1 \in starts
  <2>1. Len(whole) \in Nat \ {0} /\ DOMAIN whole = 1..Len(whole)
    BY DEF Files
  <2>2. starts \in SUBSET (1..Len(whole)) /\ 1 \in starts
    BY <2>1 DEF MarkerStarts
  <2>3. IsFiniteSet(1..Len(whole))
    BY <2>1, FS_Interval
  <2> QED
    BY <2>1, <2>2, <2>3, FS_Subset
<1>2. Cardinality(starts) = 2
  <2>1. PICK c \in Nat : c = Cardinality(starts)
    <3>1. Cardinality(starts) \in Nat
      BY <1>1, FS_CardinalityType
    <3> QED
      BY <3>1
  <2>2. DOMAIN MarkerRanges(whole) = 1..c
    BY <2>1 DEF MarkerRanges
  <2>3. DOMAIN MarkerRanges(whole) = 1..2
    OBVIOUS
  <2>4. 1..c = 1..2
    BY <2>2, <2>3
  <2>5. c = 2
    <3>1. 2 \in 1..c /\ (c = 0 \/ c \in 1..2)
      BY <2>4
    <3> QED
      BY <3>1
  <2> QED
    BY <2>1, <2>5
<1>3. second = e + 1
  <2>1. MarkerRanges(whole)[2] = PageRange(second, Len(whole))
    BY <1>2 DEF MarkerRanges
  <2>2. MarkerRanges(whole)[2] = PageRange(e + 1, Length)
    OBVIOUS
  <2>3. MarkerRanges(whole)[2].start = second /\ MarkerRanges(whole)[2].start = e + 1
    <3> HIDE DEF second
    <3> QED
      BY <2>1, <2>2 DEF PageRange
  <2> QED
    BY <2>3
<1> HIDE DEF starts
<1>4. PICK m : starts \ {1} = {m}
  <2>1. IsFiniteSet(starts \ {1}) /\ Cardinality(starts \ {1}) = 1
    BY <1>1, <1>2, FS_RemoveElement
  <2> QED
    BY <2>1, FS_Singleton
<1>5. starts = {1, m} /\ m \in Nat /\ m > 1
  <2>1. m \in starts /\ m # 1
    BY <1>4
  <2>2. m \in Nat \ {0}
    BY <1>1, <2>1
  <2>3. starts = {1, m}
    BY <1>1, <1>4
  <2> QED
    BY <2>1, <2>2, <2>3
<1>6. Upto(m) = starts /\ Upto(1) = {1}
  BY <1>5
<1>7. Cardinality(Upto(m)) = 2 /\ Cardinality(Upto(1)) = 1
  BY <1>2, <1>6, FS_Singleton
<1>8. second \in starts /\ Cardinality(Upto(second)) = 2
  <2> HIDE DEF Upto
  <2> QED
    BY <1>5, <1>7
<1>9. second = m
  <2> HIDE DEF Upto, second
  <2> QED
    BY <1>5, <1>7, <1>8
<1> QED
  BY <1>3, <1>5, <1>9 DEF starts

LEMMA PiecesAre ==
  ASSUME StoredSplitsInv, PagesInv, NEW r \in Requests, Accepted(r)
  PROVE  Pieces(r) = [i \in DOMAIN batches[r].ranges |->
                        SubSeq(batches[r].pages, batches[r].ranges[i].start, batches[r].ranges[i].end)]
<1>1. ASSUME NEW i \in DOMAIN batches[r].ranges
      PROVE  files[CHOOSE d \in Children(r) : files[d].index = i].pages
               = SubSeq(batches[r].pages, batches[r].ranges[i].start, batches[r].ranges[i].end)
  <2>1. \E d \in Children(r) : files[d].index = i
    BY DEF PagesInv, BatchPages
  <2>2. PICK d : d = CHOOSE x \in Children(r) : files[x].index = i
    OBVIOUS
  <2>3. d \in Children(r) /\ files[d].index = i
    BY <2>1, <2>2
  <2>4. d \in DOMAIN files /\ files[d].batch = r /\ r # Unused
    BY <2>3, SplitFacts DEF Children
  <2>5. files[d].pages = SubSeq(batches[r].pages, batches[r].ranges[i].start, batches[r].ranges[i].end)
    BY <2>3, <2>4 DEF PagesInv, FilePages
  <2> QED
    BY <2>2, <2>5
<1>2. Pieces(r) = [i \in DOMAIN batches[r].ranges |-> files[CHOOSE d \in Children(r) : files[d].index = i].pages]
  BY DEF Pieces
<1>3. ASSUME NEW i \in DOMAIN batches[r].ranges
      PROVE  Pieces(r)[i] = SubSeq(batches[r].pages, batches[r].ranges[i].start, batches[r].ranges[i].end)
  BY <1>1, <1>2, Zenon
<1>4. PICK p, ranges, whole : p = Pieces(r) /\ ranges = batches[r].ranges /\ whole = batches[r].pages
  OBVIOUS
<1>5. p = [i \in DOMAIN ranges |-> p[i]]
  BY <1>2, <1>4, Zenon
<1>6. \A i \in DOMAIN ranges : p[i] = SubSeq(whole, ranges[i].start, ranges[i].end)
  BY <1>3, <1>4
<1>7. p = [i \in DOMAIN ranges |-> SubSeq(whole, ranges[i].start, ranges[i].end)]
  BY <1>5, <1>6
<1> QED
  BY <1>4, <1>7

LEMMA AsAsked ==
  ASSUME StoredSplitsInv, PagesInv, NEW r \in Requests, Accepted(r)
  PROVE  AreAsAsked(r)
<1>1. PICK spec, whole, ranges, pieces, charge :
        charge = charged[r] /\ spec = batches[r].asked.spec /\ whole = batches[r].pages /\ ranges = batches[r].ranges /\ pieces = Pieces(r)
  OBVIOUS
<1> DEFINE pagesOf == UNION {{pieces[i][j] : j \in DOMAIN pieces[i]} : i \in DOMAIN pieces}
           all == {whole[j] : j \in DOMAIN whole}
<1>2. spec \in Specs /\ whole \in Files
  BY <1>1 DEF StoredSplitsInv, BatchInv, BatchRow, Accepted, Questions
<1>3. /\ InOrder(whole) /\ Plannable(spec, Len(whole)) /\ MarkerVerified(spec, whole)
      /\ ranges = Ranges(spec, Len(whole)) /\ charge = Selected(ranges)
  BY <1>1 DEF PagesInv, BatchPages
<1>4. PICK n \in Nat \ {0} :
        /\ DOMAIN ranges = 1..n /\ Len(ranges) = n
        /\ \A i \in 1..n : /\ ranges[i].start \in Nat \ {0} /\ ranges[i].end \in Nat
                           /\ ranges[i].start <= ranges[i].end /\ ranges[i].end <= Len(whole)
  BY <1>2, <1>3, RangesFit
<1>5. \A i, j \in 1..n : i < j => ranges[i].end < ranges[j].start
  BY <1>2, <1>3, <1>4, RangesApart
<1>6. Apart(ranges, n, Len(whole))
  BY <1>4, <1>5 DEF Apart
<1>7. pieces = [i \in 1..n |-> SubSeq(whole, ranges[i].start, ranges[i].end)]
  BY <1>1, <1>4, PiecesAre
<1>8. pieces = Cuts(whole, ranges, n)
  BY <1>7 DEF Cuts
<1>9. CutWell(pieces, whole, ranges, n)
  BY <1>2, <1>3, <1>4, <1>6, <1>8, PiecesHold
<1>10. /\ \A i \in 1..n :
            /\ Len(pieces[i]) = ranges[i].end - ranges[i].start + 1 /\ DOMAIN pieces[i] = 1..Len(pieces[i])
            /\ \A j \in DOMAIN pieces[i] : pieces[i][j] = whole[ranges[i].start + j - 1]
       /\ pagesOf = {whole[k] : k \in UNION {ranges[i].start..ranges[i].end : i \in 1..n}}
       /\ \A i, j \in 1..n : i < j => pieces[i][Len(pieces[i])] < pieces[j][1]
       /\ Selected(ranges) = Cardinality(pagesOf)
  BY <1>9, Zenon DEF CutWell, PagesOf
<1>11. DOMAIN pieces = 1..n /\ Len(pieces) = n
  BY <1>4, <1>7
<1>12. PICK L \in Nat \ {0} : L = Len(whole) /\ DOMAIN whole = 1..L /\ L <= Length
  <2>1. Len(whole) \in Nat \ {0} /\ DOMAIN whole = 1..Len(whole)
    BY <1>2 DEF Files
  <2> QED
    BY <1>3, <2>1 DEF InOrder
<1>13. charge = Cardinality(pagesOf)
  <2>1. Selected(ranges) = Cardinality(PagesOf(pieces))
    BY <1>9 DEF CutWell
  <2>2. PagesOf(pieces) = pagesOf
    BY DEF PagesOf
  <2>3. charge = Selected(ranges)
    BY <1>3
  <2> HIDE DEF pagesOf
  <2> QED
    BY <2>1, <2>2, <2>3
<1>14. ASSUME \A k \in 1..L : \E i \in 1..n : k \in ranges[i].start..ranges[i].end PROVE pagesOf = all
  <2>1. UNION {ranges[i].start..ranges[i].end : i \in 1..n} = 1..L
    <3>1. ASSUME NEW k \in 1..L PROVE k \in UNION {ranges[i].start..ranges[i].end : i \in 1..n}
      BY <1>14
    <3>2. ASSUME NEW i \in 1..n, NEW k \in ranges[i].start..ranges[i].end PROVE k \in 1..L
      BY <1>4, <1>12
    <3> QED
      BY <3>1, <3>2
  <2> HIDE DEF pagesOf
  <2> QED
    BY <1>10, <1>12, <2>1
<1> DEFINE Pieced ==
             /\ \A i, j \in 1..n : i < j => pieces[i][Len(pieces[i])] < pieces[j][1]
             /\ spec.mode = "every" =>
                  /\ pagesOf = all
                  /\ \A i \in 1..n : Len(pieces[i]) = spec.size \/ (i = n /\ Len(pieces[i]) < spec.size)
             /\ spec.mode = "ranges" => pagesOf = {whole[j] : j \in UNION {x.start..x.end : x \in {spec.ranges[i] : i \in DOMAIN spec.ranges}}}
             /\ spec.mode = "marker" =>
                  /\ pagesOf = all
                  /\ \A i \in 1..n, j \in 1..Length :
                       j \in DOMAIN pieces[i] /\ pieces[i][j] \in Marked => j = 1
                  /\ \A i \in 1..n : i > 1 => pieces[i][1] \in Marked
             /\ charge = Cardinality(pagesOf)
<1>15. Pieced => FitTogether(spec, whole, pieces, charge)
  BY <1>11 DEF FitTogether
<1>16. FitTogether(spec, whole, pieces, charge) => AreAsAsked(r)
  BY <1>1 DEF AreAsAsked
<1> SUFFICES Pieced
  BY <1>15, <1>16
<1> HIDE DEF pagesOf
<1>17. CASE spec.mode = "every"
  <2>1. spec.size \in Nat \ {0}
    BY <1>2, <1>17, SplitFacts DEF Specs
  <2>2. ranges = EveryRanges(spec.size, L)
    BY <1>3, <1>12, <1>17 DEF Ranges
  <2>3. PICK m \in Nat :
          /\ DOMAIN ranges = 1..m
          /\ \A k \in 1..L : \E i \in 1..m : k \in ranges[i].start..ranges[i].end
          /\ \A i \in 1..m : LET length == ranges[i].end - ranges[i].start + 1
                             IN length = spec.size \/ (i = m /\ length < spec.size)
    BY <2>1, <2>2, EveryPieces
  <2>4. m = n
    <3>1. 1..m = 1..n
      BY <1>4, <2>3
    <3>2. (m = 0 \/ m \in 1..n) /\ n \in 1..m
      BY <3>1
    <3> QED
      BY <3>2
  <2>5. pagesOf = all
    BY <1>14, <2>3, <2>4
  <2>6. \A i \in 1..n : Len(pieces[i]) = spec.size \/ (i = n /\ Len(pieces[i]) < spec.size)
    BY <1>10, <2>3, <2>4
  <2>7. spec.mode # "ranges" /\ spec.mode # "marker"
    BY <1>17
  <2> QED
    BY <1>10, <1>13, <2>5, <2>6, <2>7
<1>18. CASE spec.mode = "ranges"
  <2>1. spec.ranges = ranges
    BY <1>3, <1>18 DEF Ranges
  <2>2. UNION {x.start..x.end : x \in {spec.ranges[i] : i \in DOMAIN spec.ranges}} = UNION {ranges[i].start..ranges[i].end : i \in 1..n}
    BY <1>4, <2>1
  <2>3. pagesOf = {whole[j] : j \in UNION {x.start..x.end : x \in {spec.ranges[i] : i \in DOMAIN spec.ranges}}}
    BY <1>10, <2>2
  <2>4. spec.mode # "every" /\ spec.mode # "marker"
    BY <1>18
  <2> QED
    BY <1>10, <1>13, <2>3, <2>4
<1>19. CASE spec.mode = "marker"
  <2>1. spec \in [mode : {"marker"}, ranges : {<<PageRange(1, e), PageRange(e + 1, Length)>> : e \in 1..(Length - 1)}]
    BY <1>2, <1>19 DEF Specs
  <2>2. PICK e \in 1..(Length - 1) : spec.ranges = <<PageRange(1, e), PageRange(e + 1, Length)>>
    BY <2>1
  <2>3. ranges = <<PageRange(1, e), PageRange(e + 1, Length)>> /\ e \in Nat \ {0}
    BY <1>3, <1>19, <2>2, SplitFacts DEF Ranges
  <2>4. /\ n = 2 /\ ranges[1].start = 1 /\ ranges[1].end = e /\ ranges[2].start = e + 1 /\ ranges[2].end = Length
    BY <1>4, <2>3 DEF PageRange
  <2>5. Length = L
    BY <1>3, <1>4, <1>12, <1>19, <2>4 DEF Plannable
  <2>6. MarkerStarts(whole) = {1, e + 1}
    BY <1>2, <1>3, <1>19, <2>2, <2>3, MarkersFound DEF MarkerVerified
  <2>7. ASSUME NEW k \in 1..L PROVE (whole[k] \in Marked => k \in {1, e + 1}) /\ whole[e + 1] \in Marked
    <3>1. {1} \cup {i \in 1..L : whole[i] \in Marked} = {1, e + 1}
      BY <1>12, <2>6 DEF MarkerStarts
    <3>2. e + 1 # 1
      BY <2>3
    <3> QED
      BY <3>1, <3>2
  <2>8. pagesOf = all
    <3>1. ASSUME NEW k \in 1..L PROVE \E i \in 1..n : k \in ranges[i].start..ranges[i].end
      <4>1. CASE k <= e
        BY <2>3, <2>4, <4>1
      <4>2. CASE k > e
        <5>1. k \in (e + 1)..Length
          BY <2>3, <2>5, <4>2
        <5> QED
          BY <2>4, <5>1
      <4> QED
        BY <2>3, <4>1, <4>2
    <3> QED
      BY <1>14, <3>1
  <2>9. ASSUME NEW i \in 1..n, NEW j \in 1..Length, j \in DOMAIN pieces[i], pieces[i][j] \in Marked PROVE j = 1
    <3>1. j \in 1..(ranges[i].end - ranges[i].start + 1) /\ pieces[i][j] = whole[ranges[i].start + j - 1]
      BY <1>10, <2>9
    <3>2. CASE i = 1
      <4>1. j \in 1..e /\ whole[j] \in Marked
        <5>1. e - 1 + 1 = e /\ 1 + j - 1 = j
          BY <2>3
        <5> QED
          BY <2>4, <2>9, <3>1, <3>2, <5>1
      <4>2. j \in {1, e + 1}
        BY <2>5, <2>7, <4>1
      <4> QED
        BY <2>3, <4>1, <4>2
    <3>3. CASE i = 2
      <4>1. PICK k \in 1..L : k = e + j
        <5>1. e + j \in 1..L
          BY <2>3, <2>4, <2>5, <3>1, <3>3
        <5> QED
          BY <5>1
      <4>2. whole[k] \in Marked
        <5>1. e + 1 + j - 1 = k
          BY <2>3, <4>1
        <5> QED
          BY <2>4, <2>9, <3>1, <3>3, <5>1
      <4>3. k \in {1, e + 1}
        BY <2>7, <4>2
      <4> QED
        BY <2>3, <4>1, <4>3
    <3> QED
      BY <2>4, <3>2, <3>3
  <2>10. ASSUME NEW i \in 1..n, i > 1 PROVE pieces[i][1] \in Marked
    <3>1. i = 2
      BY <2>4, <2>10
    <3>2. 1 \in DOMAIN pieces[i] /\ pieces[i][1] = whole[ranges[i].start + 1 - 1]
      <4>1. ranges[i].end - ranges[i].start + 1 >= 1 /\ ranges[i].end - ranges[i].start + 1 \in Int
        BY <1>4
      <4>2. 1 \in DOMAIN pieces[i]
        BY <1>10, <4>1
      <4> QED
        BY <1>10, <4>2
    <3>3. whole[e + 1] \in Marked
      BY <1>12, <2>7
    <3>4. e + 1 + 1 - 1 = e + 1
      BY <2>3
    <3> QED
      BY <2>4, <3>1, <3>2, <3>3, <3>4
  <2>11. spec.mode # "every" /\ spec.mode # "ranges"
    BY <1>19
  <2> QED
    BY <1>10, <1>13, <2>8, <2>9, <2>10, <2>11
<1> QED
  BY <1>2, <1>17, <1>18, <1>19 DEF Specs

\* Every document holds the pages its lineage names, through splits of splits and whatever
\* was deleted meanwhile, and a batch holds and is charged for exactly what its request asked
\* (splitRootPages, planPdfSplit, findPdfMarkerRanges, intakePdfSplitRecords).
THEOREM SplitPagesTrue == FilesSpec => []PagesAreAsTold
<1>1. StoredSplitsInv /\ PagesInv => PagesAreAsTold
  BY LineageTrue, AsAsked DEF PagesAreAsTold
<1> QED
  BY <1>1, SplitsReached, PagesReached, PTL
=============================================================================
