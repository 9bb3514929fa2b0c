---------------------------- MODULE TemplateChanges ----------------------------
(* Saved native PDF templates: the transaction that applies a change once per   *)
(* request id (template-mutations.ts), and the editor that keeps the id of an   *)
(* unresolved save in the browser until it knows the outcome (native-template.ts, *)
(* NativeTemplateEditor.tsx). One user, one parser, several open editors. What   *)
(* a definition extracts is not modelled.                                        *)
EXTENDS Naturals

CONSTANTS
  Editors,      \* open editors of one browser, sharing its storage
  Saves,        \* request ids
  None,
  MaxRevision,  \* bound on the template's revision (2147483647 in the code)
  MaxSchema     \* bound on the changes of the parser's fields

ASSUME TemplatesAssumption ==
  /\ {MaxRevision, MaxSchema} \subseteq Nat \ {0}
  /\ None \notin Saves

VARIABLES
  schema,      \* active_schema_id of the parser, counted
  revision,    \* templates.revision of the edited template; 0 once it is deleted
  receipts,    \* template_mutations: none, accepted, closed
  requests,    \* what each id was made for
  storage,     \* the pending change in localStorage
  editor,      \* each editor: [pending, body, task]
  late,        \* calls whose editor no longer waits, and which may still arrive
  told,        \* the outcome an editor showed for each request
  effects      \* how often each request changed a template

serverVars == <<schema, revision, receipts, effects>>
templateVars == <<serverVars, requests, storage, editor, late, told>>

Idle == [kind |-> "none", save |-> None, call |-> "none", answer |-> "none"]
Tasks == {Idle} \cup
  [kind : {"save", "check", "close"}, save : Saves, call : {"find", "put", "close"},
   answer : {"none", "accepted", "closed", "error"}]
Sends(kind, q, call) == [kind |-> kind, save |-> q, call |-> call, answer |-> "none"]
Waits(e, call) == editor[e].task.call = call /\ editor[e].task.answer = "none"

TemplatesInit ==
  /\ schema = 1 /\ revision = 1
  /\ receipts = [q \in Saves |-> "none"] /\ requests = [q \in Saves |-> None]
  /\ storage = None /\ late = {} /\ told = [q \in Saves |-> "none"] /\ effects = [q \in Saves |-> 0]
  /\ editor \in [Editors -> [pending : {None}, body : {FALSE}, task : {Idle}]]

(***************************************************************************)
(* The server.                                                             *)
(***************************************************************************)
\* The guards of mutateTemplate on a request without a receipt.
Applies(q) ==
  LET change == requests[q]
  IN /\ change.op # "create" => revision # 0 /\ revision = change.revision
     /\ change.op # "create" => revision < MaxRevision
     /\ change.op # "delete" => change.schema = schema

\* Without a receipt of either kind.
NotAccepted(q) == receipts[q] # "accepted"
Open(q) == receipts[q] = "none"

\* mutateTemplate: the change, its receipt and the revision in one transaction, or an error.
Mutate(q) ==
  IF Open(q) /\ Applies(q)
  THEN /\ receipts' = [receipts EXCEPT ![q] = "accepted"]
       /\ revision' = CASE requests[q].op = "create" -> revision
                         [] requests[q].op = "update" -> revision + 1
                         [] requests[q].op = "delete" -> 0
       /\ effects' = [effects EXCEPT ![q] = @ + 1]
       /\ UNCHANGED schema
  ELSE UNCHANGED serverVars

\* recover(close = true): an id without a receipt is closed for good.
Close(q) ==
  /\ receipts' = [receipts EXCEPT ![q] = IF @ = "none" THEN "closed" ELSE @]
  /\ UNCHANGED <<schema, revision, effects>>

Call(call, q) ==
  IF call = "put" THEN Mutate(q) ELSE Close(q)

\* What the answer says: a closed request refuses a put with 410, a failed guard with 4xx.
AnswerOf(call, q) ==
  IF call = "put" /\ receipts'[q] # "accepted" THEN "error" ELSE receipts'[q]

Serve(e) ==
  LET task == editor[e].task
  IN /\ task.call \in {"put", "close"} /\ task.answer = "none"
     /\ Call(task.call, task.save)
     /\ editor' = [editor EXCEPT ![e].task.answer = AnswerOf(task.call, task.save)]
     /\ UNCHANGED <<requests, storage, late, told>>

\* A call nobody waits for arrives after all, possibly more than once (it may be sent again).
ServeLate(call) ==
  /\ call \in late /\ Call(call.call, call.save)
  /\ UNCHANGED <<requests, storage, editor, late, told>>

\* Other people save the parser's fields or delete the template; a change of theirs would fail
\* the requests made before it just as the deletion does.
ChangeElsewhere ==
  /\ \/ schema < MaxSchema /\ schema' = schema + 1 /\ UNCHANGED revision
     \/ revision' = 0 /\ UNCHANGED schema
  /\ UNCHANGED <<receipts, effects, requests, storage, editor, late, told>>

(***************************************************************************)
(* The editor. perform runs one task at a time.                            *)
(***************************************************************************)
Free(e) == editor[e].task = Idle
Task(e, task) == editor' = [editor EXCEPT ![e].task = task]

\* A call under way when its editor stops waiting.
Abandoned(e) ==
  IF Waits(e, "put") \/ Waits(e, "close")
  THEN {[call |-> editor[e].task.call, save |-> editor[e].task.save]} ELSE {}

\* saveTemplateMutation: refuses while another save is unresolved.
Overwrites(q) == TRUE
MayStore(q) == storage \in {None, q}

\* save: the id is stored before anything is sent.
Save(e, q, op) ==
  /\ Free(e) /\ editor[e].pending = None /\ requests[q] = None /\ MayStore(q)
  /\ op = "create" \/ revision # 0
  /\ requests' = [requests EXCEPT ![q] =
       [op |-> op, schema |-> IF op = "delete" THEN 0 ELSE schema, revision |-> IF op = "create" THEN 0 ELSE revision]]
  /\ storage' = q
  /\ editor' = [editor EXCEPT ![e] = [pending |-> q, body |-> TRUE, task |-> Sends("save", q, "find")]]
  /\ UNCHANGED <<serverVars, late, told>>

\* "Retry same save": submitTemplateMutation stores the id again and looks before it sends.
RetrySave(e) ==
  /\ Free(e) /\ editor[e].pending # None /\ MayStore(editor[e].pending)
  /\ editor[e].body \/ requests[editor[e].pending].op = "delete"
  /\ storage' = editor[e].pending /\ Task(e, Sends("save", editor[e].pending, "find"))
  /\ UNCHANGED <<serverVars, requests, late, told>>

CheckSaved(e) ==
  /\ Free(e) /\ editor[e].pending # None /\ Task(e, Sends("check", editor[e].pending, "find"))
  /\ UNCHANGED <<serverVars, requests, storage, late, told>>

CloseUnknown(e) ==
  /\ Free(e) /\ editor[e].pending # None /\ Task(e, Sends("close", editor[e].pending, "close"))
  /\ UNCHANGED <<serverVars, requests, storage, late, told>>

\* resolved: the outcome is shown and the stored id cleared, unless a newer one is stored.
Resolved(e, q, outcome) ==
  IF MayStore(q)
  THEN /\ storage' = None /\ told' = [told EXCEPT ![q] = outcome]
       /\ editor' = [editor EXCEPT ![e] = [pending |-> None, body |-> FALSE, task |-> Idle]]
  ELSE Task(e, Idle) /\ UNCHANGED <<storage, told>>

Receive(e) ==
  /\ editor[e].task.answer \in {"accepted", "closed"}
  /\ Resolved(e, editor[e].task.save, editor[e].task.answer)
  /\ UNCHANGED <<serverVars, requests, late>>

\* findTemplateMutation: a receipt is the outcome; without one a save sends the change.
Find(e) ==
  LET task == editor[e].task
  IN /\ task.call = "find"
     /\ IF receipts[task.save] # "none" THEN Resolved(e, task.save, receipts[task.save])
        ELSE /\ Task(e, IF task.kind = "save" THEN Sends("save", task.save, "put") ELSE Idle)
             /\ UNCHANGED <<storage, told>>
     /\ UNCHANGED <<serverVars, requests, late>>

\* No result yet, an error, or an answer that was lost: the id stays pending.
EndTask(e) ==
  /\ ~Free(e) /\ Task(e, Idle) /\ late' = late \cup Abandoned(e)
  /\ UNCHANGED <<serverVars, requests, storage, told>>

\* The editor is shown again: what ran is aborted and a pending save is looked up.
Reactivate(e) ==
  /\ Task(e, IF editor[e].pending = None THEN Idle ELSE Sends("check", editor[e].pending, "find"))
  /\ late' = late \cup Abandoned(e) /\ UNCHANGED <<serverVars, requests, storage, told>>

\* The page is loaded again: the pending save comes from the storage, without its definition.
Reload(e) ==
  /\ editor' = [editor EXCEPT ![e] =
       [pending |-> storage, body |-> FALSE,
        task |-> IF storage = None THEN Idle ELSE Sends("check", storage, "find")]]
  /\ late' = late \cup Abandoned(e) /\ UNCHANGED <<serverVars, requests, storage, told>>

TemplatesNext ==
  \/ \E e \in Editors :
       \/ Serve(e) \/ RetrySave(e) \/ CheckSaved(e) \/ CloseUnknown(e) \/ Find(e) \/ Receive(e)
       \/ EndTask(e) \/ Reactivate(e) \/ Reload(e)
       \/ \E q \in Saves, op \in {"create", "update", "delete"} : Save(e, q, op)
  \/ \E call \in late : ServeLate(call)
  \/ ChangeElsewhere

TemplatesSpec == TemplatesInit /\ [][TemplatesNext]_templateVars

(***************************************************************************)
(* Properties.                                                             *)
(***************************************************************************)
TemplatesTypeOK ==
  /\ schema \in 1..MaxSchema /\ revision \in 0..MaxRevision /\ effects \in [Saves -> Nat]
  /\ receipts \in [Saves -> {"none", "accepted", "closed"}]
  /\ told \in [Saves -> {"none", "accepted", "closed"}]
  /\ requests \in [Saves -> {None} \cup [op : {"create", "update", "delete"},
                                       schema : 0..MaxSchema, revision : 0..MaxRevision]]
  /\ storage \in Saves \cup {None} /\ late \subseteq [call : {"put", "close"}, save : Saves]
  /\ editor \in [Editors -> [pending : Saves \cup {None}, body : BOOLEAN, task : Tasks]]

\* What an editor showed stays true: an accepted save changed its template once and a closed
\* one never will, whatever was sent again or arrives late.
ShownIsTrue ==
  \A q \in Saves :
    /\ told[q] = "accepted" => effects[q] = 1
    /\ told[q] = "closed" => effects[q] = 0
    /\ effects[q] = IF receipts[q] = "accepted" THEN 1 ELSE 0

Sent(q) ==
  \/ effects[q] > 0 \/ [call |-> "put", save |-> q] \in late
  \/ \E e \in Editors : editor[e].task.save = q /\ editor[e].task.call = "put"

\* A save that was sent is remembered in the browser until somebody was told what became of
\* it, through reloads, two open editors and answers that are lost.
NoSaveForgotten == \A q \in Saves : Sent(q) /\ told[q] = "none" => storage = q
================================================================================
