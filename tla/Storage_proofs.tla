--------------------------- MODULE Storage_proofs ---------------------------
(* Proofs about what is kept in private storage: the originals of documents   *)
(* (StoredObjects), signed uploads (DirectUploads), the private copy a split   *)
(* suggestion reads (SplitSources) and a restored backup (RestoreActivation),  *)
(* each for any number of the processes that share it.                         *)
EXTENDS StoredObjects, DirectUploads, SplitSources, RestoreActivation, FiniteSetTheorems, TLAPS

-----------------------------------------------------------------------------
(***************************************************************************)
(* StoredObjects: originals, the rows that account for them, and outcomes. *)
(***************************************************************************)
InStore(o) == o \in stored \cup inflight

\* What is still to be sent has left no trace, and its reservation has not gone stale.
UnsentInv(o) ==
  pc[o[1]] \in {"idle", "decoding"} \/ (pc[o[1]] = "writing" /\ o \notin sent) =>
    /\ o \notin sent \cup acked \cup freeing \cup referenced /\ ~InStore(o) /\ ~Queued(o)
    /\ intent[o] \in IF pc[o[1]] = "writing" /\ o \in ObjectsOf(o[1]) THEN {"live", "expired"} ELSE {"none"}

\* What an attempt knows of its writes until it ends.
SentInv(o) ==
  /\ o \in sent \cup referenced \/ InStore(o) \/ intent[o] # "none" => o \in ObjectsOf(o[1])
  /\ o \in acked => o \in sent /\ o \notin inflight
  /\ InStore(o) /\ pc[o[1]] # "done" => o \in sent
  /\ pc[o[1]] = "written" /\ o \in ObjectsOf(o[1]) => o \in acked

\* A write the store may still apply is neither given up nor about to be removed.
InflightInv(o) ==
  o \in inflight =>
    /\ intent[o] # "stale" /\ deletion[o].status \notin {"due", "failed"} /\ o \notin freeing
    /\ pc[o[1]] # "removing" /\ (pc[o[1]] = "cleaning" => kind = "batch" \/ remote)
    /\ receipt # o[1]

\* A reservation that a writing attempt still has means that nobody removed what it wrote; a
\* batch attempt that runs has all of its own.
ReservedInv(o) ==
  pc[o[1]] \in {"writing", "written"} =>
    /\ intent[o] # "none" => ~Queued(o) /\ o \notin freeing /\ (o \in acked => o \in stored)
    /\ kind = "batch" /\ o \in ObjectsOf(o[1]) => intent[o] = "live"

\* After its commit an attempt only releases, or takes its error path not knowing of it.
CommittedInv(o) ==
  /\ receipt = o[1] =>
       /\ pc[o[1]] \in {"releasing", "done"} \/ (pc[o[1]] \in {"cleaning", "removing"} /\ o[1] \in unsure)
       /\ o \in stored => o \in referenced \/ Queued(o)
  /\ pc[o[1]] = "releasing" => receipt = o[1]
  /\ o \in referenced =>
       receipt = o[1] /\ ((o \in stored /\ ~Queued(o)) \/ (kind = "plain" /\ o[1] \in unsure))

\* Nothing in the store is forgotten, and a batch's bytes are counted.
FoundInv(o) ==
  /\ InStore(o) => o \in referenced \/ Queued(o) \/ intent[o] # "none"
  /\ kind = "batch" /\ InStore(o) /\ receipt # o[1] => intent[o] # "none"
  /\ o \in freeing => ~InStore(o)

ObjectInv(o) ==
  /\ UnsentInv(o) /\ SentInv(o) /\ InflightInv(o) /\ ReservedInv(o) /\ CommittedInv(o) /\ FoundInv(o)

\* The key stands for one outcome, that everybody is told who is told one.
OutcomeInv ==
  /\ charged = {t \in Attempts : receipt = t}
  /\ \A t \in Attempts : answer[t] \in {None, "failed", "gone", receipt}

ObjectsInv == TypeOK /\ OutcomeInv /\ \A o \in Objects : ObjectInv(o)

-----------------------------------------------------------------------------
\* Whose an object is.
LEMMA Owners ==
  /\ \A o \in Objects : o[1] \in Attempts
  /\ \A t \in Attempts : ObjectsOf(t) \subseteq Objects /\ Source(t) \in ObjectsOf(t) /\ DocumentsOf(t) \subseteq ObjectsOf(t)
  /\ \A t \in Attempts : \A o \in ObjectsOf(t) : o[1] = t
  /\ kind = "plain" => \A t \in Attempts : ObjectsOf(t) = {Source(t)} /\ DocumentsOf(t) = {Source(t)}
<1>1. 1 \in 1..MaxParts
  BY ObjectsAssumption
<1>2. \A o \in Objects : o[1] \in Attempts
  BY DEF Objects
<1>3. ASSUME NEW t \in Attempts
      PROVE  /\ ObjectsOf(t) \subseteq Objects /\ Source(t) \in ObjectsOf(t) /\ DocumentsOf(t) \subseteq ObjectsOf(t)
             /\ \A o \in ObjectsOf(t) : o[1] = t
             /\ kind = "plain" => ObjectsOf(t) = {Source(t)} /\ DocumentsOf(t) = {Source(t)}
  BY <1>1 DEF ObjectsOf, DocumentsOf, Source, Objects
<1> QED
  BY <1>2, <1>3

\* The requests stay what they are.
LEMMA OwnersStay ==
  ASSUME UNCHANGED requestVars
  PROVE  kind' = kind /\ remote' = remote /\ \A t \in Attempts : ObjectsOf(t)' = ObjectsOf(t)
  BY DEF requestVars, ObjectsOf, Source

\* Entries of file_deletions.
LEMMA Entries ==
  /\ Due \notin {NotQueued, Delayed} /\ Delayed # NotQueued
  /\ NotQueued.status = "none" /\ Due.status = "due" /\ Delayed.status = "delayed"
  /\ {NotQueued, Due, Delayed} \subseteq [status : {"none", "due", "delayed", "failed"}, tries : Nat]
  BY DEF NotQueued, Due, Delayed

\* What a later request is told.
LEMMA PriorTold == Prior \in {receipt, "gone"}
  BY DEF Prior

\* Where an attempt goes, and what it then still knows.
LEMMA AttemptGoes ==
  ASSUME TypeOK, NEW t \in Attempts, NEW label \in Places, Goto(t, label)
  PROVE  /\ pc' \in [Attempts -> Places] /\ pc'[t] = label /\ \A u \in Attempts : u # t => pc'[u] = pc[u]
         /\ sent' \subseteq sent /\ acked' \subseteq acked /\ acked' \subseteq sent'
<1>1. pc' \in [Attempts -> Places] /\ pc'[t] = label /\ \A u \in Attempts : u # t => pc'[u] = pc[u]
  BY DEF TypeOK, Goto
<1>2. sent' \subseteq sent /\ acked' \subseteq acked /\ acked' \subseteq sent'
  BY DEF TypeOK, Goto
<1> QED
  BY <1>1, <1>2

LEMMA AttemptTold ==
  ASSUME TypeOK, NEW t \in Attempts, NEW what \in {receipt, "gone", "failed", "rejected"} \cup Attempts, Tell(t, what)
  PROVE  /\ answer' \in [Attempts -> Attempts \cup {None, "rejected", "gone", "failed"}]
         /\ answer'[t] = what /\ \A u \in Attempts : u # t => answer'[u] = answer[u]
<1>1. what \in Attempts \cup {None, "rejected", "gone", "failed"}
  BY DEF TypeOK
<1> QED
  BY <1>1 DEF TypeOK, Tell

LEMMA DecideKeeps == ASSUME ObjectsInv, NEW t \in Attempts, Decide(t) PROVE ObjectsInv'
<1> USE DEF ObjectsInv, ObjectInv, storeVars, outcomeVars, boundVars, InStore, Queued
<1>1. UNCHANGED requestVars /\ kind' = kind /\ remote' = remote /\ \A u \in Attempts : ObjectsOf(u)' = ObjectsOf(u)
  BY OwnersStay DEF Decide
<1>2. TypeOK'
  <2>1. pc' \in [Attempts -> Places] /\ sent' \subseteq sent /\ acked' \subseteq acked /\ acked' \subseteq sent'
        /\ \A u \in Attempts : pc'[u] = "removing" => kind = "plain"
    BY AttemptGoes DEF TypeOK, Places, Decide
  <2>2. answer' \in [Attempts -> Attempts \cup {None, "rejected", "gone", "failed"}]
    BY PriorTold, AttemptTold DEF TypeOK, Decide
  <2> QED
    BY <1>1, <2>1, <2>2 DEF TypeOK, Decide
<1>3. OutcomeInv'
  BY PriorTold, ObjectsAssumption DEF TypeOK, OutcomeInv, Decide, Goto, Tell
<1>4. ASSUME NEW o \in Objects PROVE ObjectInv(o)'
  <2>1. UnsentInv(o)'
    BY <1>1, <1>2, Owners, Entries DEF TypeOK, UnsentInv, SentInv, InflightInv, ReservedInv, CommittedInv, FoundInv, Decide, Goto, Tell
  <2>2. SentInv(o)'
    BY <1>1, <1>2, Owners, Entries DEF TypeOK, UnsentInv, SentInv, InflightInv, ReservedInv, CommittedInv, FoundInv, Decide, Goto, Tell
  <2>3. InflightInv(o)'
    BY <1>1, <1>2, Owners, Entries DEF TypeOK, UnsentInv, SentInv, InflightInv, ReservedInv, CommittedInv, FoundInv, Decide, Goto, Tell
  <2>4. ReservedInv(o)'
    BY <1>1, <1>2, Owners, Entries DEF TypeOK, UnsentInv, SentInv, InflightInv, ReservedInv, CommittedInv, FoundInv, Decide, Goto, Tell
  <2>5. CommittedInv(o)'
    BY <1>1, <1>2, Owners, Entries DEF TypeOK, UnsentInv, SentInv, InflightInv, ReservedInv, CommittedInv, FoundInv, Decide, Goto, Tell
  <2>6. FoundInv(o)'
    BY <1>1, <1>2, Owners, Entries DEF TypeOK, UnsentInv, SentInv, InflightInv, ReservedInv, CommittedInv, FoundInv, Decide, Goto, Tell
  <2> QED
    BY <2>1, <2>2, <2>3, <2>4, <2>5, <2>6
<1> QED
  BY <1>2, <1>3, <1>4

LEMMA ReserveKeeps == ASSUME ObjectsInv, NEW t \in Attempts, Reserve(t) PROVE ObjectsInv'
<1> USE DEF ObjectsInv, ObjectInv, storeVars, outcomeVars, boundVars, InStore, Queued
<1>1. UNCHANGED requestVars /\ kind' = kind /\ remote' = remote /\ \A u \in Attempts : ObjectsOf(u)' = ObjectsOf(u)
  BY OwnersStay DEF Reserve
<1>2. TypeOK'
  <2>1. pc' \in [Attempts -> Places] /\ sent' \subseteq sent /\ acked' \subseteq acked /\ acked' \subseteq sent'
        /\ \A u \in Attempts : pc'[u] = "removing" => kind = "plain"
    BY AttemptGoes DEF TypeOK, Places, Reserve
  <2>2. answer' \in [Attempts -> Attempts \cup {None, "rejected", "gone", "failed"}]
    BY PriorTold, AttemptTold DEF TypeOK, Reserve
  <2>3. intent' \in [Objects -> {"none", "live", "expired", "stale"}]
    BY DEF TypeOK, SetIntents, Reserve
  <2> QED
    BY <1>1, <2>1, <2>2, <2>3 DEF TypeOK, Reserve
<1>3. OutcomeInv'
  BY PriorTold, ObjectsAssumption DEF TypeOK, OutcomeInv, Reserve, Goto, Tell, SetIntents
<1>4. ASSUME NEW o \in Objects PROVE ObjectInv(o)'
  <2>1. UnsentInv(o)'
    BY <1>1, <1>2, Owners, Entries DEF TypeOK, UnsentInv, SentInv, InflightInv, ReservedInv, CommittedInv, FoundInv, Reserve, Goto, Tell, SetIntents
  <2>2. SentInv(o)'
    BY <1>1, <1>2, Owners, Entries DEF TypeOK, UnsentInv, SentInv, InflightInv, ReservedInv, CommittedInv, FoundInv, Reserve, Goto, Tell, SetIntents
  <2>3. InflightInv(o)'
    BY <1>1, <1>2, Owners, Entries DEF TypeOK, UnsentInv, SentInv, InflightInv, ReservedInv, CommittedInv, FoundInv, Reserve, Goto, Tell, SetIntents
  <2>4. ReservedInv(o)'
    BY <1>1, <1>2, Owners, Entries DEF TypeOK, UnsentInv, SentInv, InflightInv, ReservedInv, CommittedInv, FoundInv, Reserve, Goto, Tell, SetIntents
  <2>5. CommittedInv(o)'
    BY <1>1, <1>2, Owners, Entries DEF TypeOK, UnsentInv, SentInv, InflightInv, ReservedInv, CommittedInv, FoundInv, Reserve, Goto, Tell, SetIntents
  <2>6. FoundInv(o)'
    BY <1>1, <1>2, Owners, Entries DEF TypeOK, UnsentInv, SentInv, InflightInv, ReservedInv, CommittedInv, FoundInv, Reserve, Goto, Tell, SetIntents
  <2> QED
    BY <2>1, <2>2, <2>3, <2>4, <2>5, <2>6
<1> QED
  BY <1>2, <1>3, <1>4

LEMMA SendKeeps == ASSUME ObjectsInv, NEW t \in Attempts, NEW x \in Objects, Send(t, x) PROVE ObjectsInv'
<1> USE DEF ObjectsInv, ObjectInv, storeVars, outcomeVars, boundVars, InStore, Queued
<1>1. UNCHANGED requestVars /\ kind' = kind /\ remote' = remote /\ \A u \in Attempts : ObjectsOf(u)' = ObjectsOf(u)
  BY OwnersStay DEF Send
<1>2. TypeOK'
  BY <1>1, Owners, Entries, PriorTold, ObjectsAssumption DEF TypeOK, Places, Send
<1>3. OutcomeInv'
  BY PriorTold, ObjectsAssumption DEF TypeOK, OutcomeInv, Send
<1>4. ASSUME NEW o \in Objects PROVE ObjectInv(o)'
  <2>1. UnsentInv(o)'
    BY <1>1, <1>2, Owners, Entries DEF TypeOK, UnsentInv, SentInv, InflightInv, ReservedInv, CommittedInv, FoundInv, Send
  <2>2. SentInv(o)'
    BY <1>1, <1>2, Owners, Entries DEF TypeOK, UnsentInv, SentInv, InflightInv, ReservedInv, CommittedInv, FoundInv, Send
  <2>3. InflightInv(o)'
    BY <1>1, <1>2, Owners, Entries DEF TypeOK, UnsentInv, SentInv, InflightInv, ReservedInv, CommittedInv, FoundInv, Send
  <2>4. ReservedInv(o)'
    BY <1>1, <1>2, Owners, Entries DEF TypeOK, UnsentInv, SentInv, InflightInv, ReservedInv, CommittedInv, FoundInv, Send
  <2>5. CommittedInv(o)'
    BY <1>1, <1>2, Owners, Entries DEF TypeOK, UnsentInv, SentInv, InflightInv, ReservedInv, CommittedInv, FoundInv, Send
  <2>6. FoundInv(o)'
    BY <1>1, <1>2, Owners, Entries DEF TypeOK, UnsentInv, SentInv, InflightInv, ReservedInv, CommittedInv, FoundInv, Send
  <2> QED
    BY <2>1, <2>2, <2>3, <2>4, <2>5, <2>6
<1> QED
  BY <1>2, <1>3, <1>4

LEMMA LandKeeps == ASSUME ObjectsInv, NEW x \in Objects, Land(x) PROVE ObjectsInv'
<1> USE DEF ObjectsInv, ObjectInv, storeVars, outcomeVars, boundVars, InStore, Queued
<1>1. UNCHANGED requestVars /\ kind' = kind /\ remote' = remote /\ \A u \in Attempts : ObjectsOf(u)' = ObjectsOf(u)
  BY OwnersStay DEF Land
<1>5. pc[x[1]] = "writing" => x \in sent
  BY DEF Land, SentInv, TypeOK
<1>2. TypeOK'
  <2>1. inflight' \subseteq inflight /\ stored' = stored \cup {x} /\ acked' \in {acked, acked \cup {x}} /\ acked' \subseteq sent
    BY <1>5 DEF Land, TypeOK
  <2> QED
    BY <1>1, <2>1 DEF Land, TypeOK
<1>3. OutcomeInv'
  BY PriorTold, ObjectsAssumption DEF TypeOK, OutcomeInv, Land
<1>4. ASSUME NEW o \in Objects PROVE ObjectInv(o)'
  <2>1. UnsentInv(o)'
    BY <1>1, <1>2, Owners, Entries DEF TypeOK, UnsentInv, SentInv, InflightInv, ReservedInv, CommittedInv, FoundInv, Land
  <2>2. SentInv(o)'
    BY <1>1, <1>2, Owners, Entries DEF TypeOK, UnsentInv, SentInv, InflightInv, ReservedInv, CommittedInv, FoundInv, Land
  <2>3. InflightInv(o)'
    BY <1>1, <1>2, Owners, Entries DEF TypeOK, UnsentInv, SentInv, InflightInv, ReservedInv, CommittedInv, FoundInv, Land
  <2>4. ReservedInv(o)'
    BY <1>1, <1>2, Owners, Entries DEF TypeOK, UnsentInv, SentInv, InflightInv, ReservedInv, CommittedInv, FoundInv, Land
  <2>5. CommittedInv(o)'
    BY <1>1, <1>2, Owners, Entries DEF TypeOK, UnsentInv, SentInv, InflightInv, ReservedInv, CommittedInv, FoundInv, Land
  <2>6. FoundInv(o)'
    BY <1>1, <1>2, Owners, Entries DEF TypeOK, UnsentInv, SentInv, InflightInv, ReservedInv, CommittedInv, FoundInv, Land
  <2> QED
    BY <2>1, <2>2, <2>3, <2>4, <2>5, <2>6
<1> QED
  BY <1>2, <1>3, <1>4

LEMMA VanishKeeps == ASSUME ObjectsInv, NEW x \in Objects, Vanish(x) PROVE ObjectsInv'
<1> USE DEF ObjectsInv, ObjectInv, storeVars, outcomeVars, boundVars, InStore, Queued
<1>1. UNCHANGED requestVars /\ kind' = kind /\ remote' = remote /\ \A u \in Attempts : ObjectsOf(u)' = ObjectsOf(u)
  BY OwnersStay DEF Vanish
<1>2. TypeOK'
  BY <1>1, Owners, Entries, PriorTold, ObjectsAssumption DEF TypeOK, Places, Vanish
<1>3. OutcomeInv'
  BY PriorTold, ObjectsAssumption DEF TypeOK, OutcomeInv, Vanish
<1>4. ASSUME NEW o \in Objects PROVE ObjectInv(o)'
  <2>1. UnsentInv(o)'
    BY <1>1, <1>2, Owners, Entries DEF TypeOK, UnsentInv, SentInv, InflightInv, ReservedInv, CommittedInv, FoundInv, Vanish
  <2>2. SentInv(o)'
    BY <1>1, <1>2, Owners, Entries DEF TypeOK, UnsentInv, SentInv, InflightInv, ReservedInv, CommittedInv, FoundInv, Vanish
  <2>3. InflightInv(o)'
    BY <1>1, <1>2, Owners, Entries DEF TypeOK, UnsentInv, SentInv, InflightInv, ReservedInv, CommittedInv, FoundInv, Vanish
  <2>4. ReservedInv(o)'
    BY <1>1, <1>2, Owners, Entries DEF TypeOK, UnsentInv, SentInv, InflightInv, ReservedInv, CommittedInv, FoundInv, Vanish
  <2>5. CommittedInv(o)'
    BY <1>1, <1>2, Owners, Entries DEF TypeOK, UnsentInv, SentInv, InflightInv, ReservedInv, CommittedInv, FoundInv, Vanish
  <2>6. FoundInv(o)'
    BY <1>1, <1>2, Owners, Entries DEF TypeOK, UnsentInv, SentInv, InflightInv, ReservedInv, CommittedInv, FoundInv, Vanish
  <2> QED
    BY <2>1, <2>2, <2>3, <2>4, <2>5, <2>6
<1> QED
  BY <1>2, <1>3, <1>4

LEMMA WrittenKeeps == ASSUME ObjectsInv, NEW t \in Attempts, Written(t) PROVE ObjectsInv'
<1> USE DEF ObjectsInv, ObjectInv, storeVars, outcomeVars, boundVars, InStore, Queued
<1>1. UNCHANGED requestVars /\ kind' = kind /\ remote' = remote /\ \A u \in Attempts : ObjectsOf(u)' = ObjectsOf(u)
  BY OwnersStay DEF Written
<1>2. TypeOK'
  BY <1>1, Owners, Entries, PriorTold, ObjectsAssumption DEF TypeOK, Places, Written, Goto
<1>3. OutcomeInv'
  BY PriorTold, ObjectsAssumption DEF TypeOK, OutcomeInv, Written, Goto
<1>4. ASSUME NEW o \in Objects PROVE ObjectInv(o)'
  <2>1. UnsentInv(o)'
    BY <1>1, <1>2, Owners, Entries DEF TypeOK, UnsentInv, SentInv, InflightInv, ReservedInv, CommittedInv, FoundInv, Written, Goto
  <2>2. SentInv(o)'
    BY <1>1, <1>2, Owners, Entries DEF TypeOK, UnsentInv, SentInv, InflightInv, ReservedInv, CommittedInv, FoundInv, Written, Goto
  <2>3. InflightInv(o)'
    BY <1>1, <1>2, Owners, Entries DEF TypeOK, UnsentInv, SentInv, InflightInv, ReservedInv, CommittedInv, FoundInv, Written, Goto
  <2>4. ReservedInv(o)'
    BY <1>1, <1>2, Owners, Entries DEF TypeOK, UnsentInv, SentInv, InflightInv, ReservedInv, CommittedInv, FoundInv, Written, Goto
  <2>5. CommittedInv(o)'
    BY <1>1, <1>2, Owners, Entries DEF TypeOK, UnsentInv, SentInv, InflightInv, ReservedInv, CommittedInv, FoundInv, Written, Goto
  <2>6. FoundInv(o)'
    BY <1>1, <1>2, Owners, Entries DEF TypeOK, UnsentInv, SentInv, InflightInv, ReservedInv, CommittedInv, FoundInv, Written, Goto
  <2> QED
    BY <2>1, <2>2, <2>3, <2>4, <2>5, <2>6
<1> QED
  BY <1>2, <1>3, <1>4

LEMMA RejectKeeps == ASSUME ObjectsInv, NEW t \in Attempts, Reject(t) PROVE ObjectsInv'
<1> USE DEF ObjectsInv, ObjectInv, storeVars, outcomeVars, boundVars, InStore, Queued
<1>1. UNCHANGED requestVars /\ kind' = kind /\ remote' = remote /\ \A u \in Attempts : ObjectsOf(u)' = ObjectsOf(u)
  BY OwnersStay DEF Reject
<1>5. /\ pc' \in [Attempts -> Places] /\ \A u \in Attempts : u # t => pc'[u] = pc[u]
      /\ (pc[t] = "decoding" /\ pc'[t] = "done") \/ (pc[t] = "written" /\ pc'[t] = "cleaning")
      /\ sent' \subseteq sent /\ acked' \subseteq acked /\ acked' \subseteq sent'
  BY AttemptGoes DEF Reject, Places
<1>6. /\ pc[t] = "decoding" => sent' = sent \ ObjectsOf(t) /\ acked' = acked \ ObjectsOf(t)
      /\ pc[t] = "written" => UNCHANGED <<sent, acked>>
  BY DEF Reject, Goto
<1>7. /\ UNCHANGED <<inflight, stored, intent, deletion, freeing, referenced, charged, unsure>>
      /\ receipt' = receipt \/ (receipt = None /\ receipt' = "rejected")
  BY DEF Reject
<1>8. ASSUME NEW o \in Objects
      PROVE  o[1] \in Attempts /\ UNCHANGED intent[o] /\ UNCHANGED deletion[o] /\ (o[1] # t => pc'[o[1]] = pc[o[1]] /\ o \notin ObjectsOf(t))
  BY <1>5, <1>7, Owners
<1>9. None \notin Attempts /\ "rejected" \notin Attempts
  BY ObjectsAssumption
<1>2. TypeOK'
  <2>1. pc' \in [Attempts -> Places] /\ sent' \subseteq sent /\ acked' \subseteq acked /\ acked' \subseteq sent'
        /\ \A u \in Attempts : pc'[u] = "removing" => kind = "plain"
    BY AttemptGoes DEF TypeOK, Places, Reject
  <2>2. answer' \in [Attempts -> Attempts \cup {None, "rejected", "gone", "failed"}]
    BY PriorTold, AttemptTold DEF TypeOK, Reject
  <2> QED
    BY <1>1, <2>1, <2>2 DEF TypeOK, Reject
<1>3. OutcomeInv'
  BY PriorTold, ObjectsAssumption DEF TypeOK, OutcomeInv, Reject, Goto, Tell
<1>4. ASSUME NEW o \in Objects PROVE ObjectInv(o)'
  <2>1. UnsentInv(o)'
    BY <1>1, <1>5, <1>6, <1>7, <1>8, <1>9, Owners DEF TypeOK, Places, SentInv, UnsentInv
  <2>2. SentInv(o)'
    BY <1>1, <1>5, <1>6, <1>7, <1>8, <1>9, Owners DEF TypeOK, Places, SentInv, UnsentInv
  <2>3. InflightInv(o)'
    BY <1>1, <1>5, <1>6, <1>7, <1>8, <1>9, Owners DEF TypeOK, Places, InflightInv, UnsentInv, SentInv
  <2>4. ReservedInv(o)'
    BY <1>1, <1>5, <1>6, <1>7, <1>8, <1>9, Owners DEF TypeOK, Places, ReservedInv, UnsentInv, SentInv
  <2>5. CommittedInv(o)'
    BY <1>1, <1>5, <1>6, <1>7, <1>8, <1>9, Owners DEF TypeOK, Places, CommittedInv, UnsentInv, SentInv
  <2>6. FoundInv(o)'
    BY <1>1, <1>5, <1>6, <1>7, <1>8, <1>9, Owners DEF TypeOK, Places, FoundInv, UnsentInv, SentInv
  <2> QED
    BY <2>1, <2>2, <2>3, <2>4, <2>5, <2>6
<1> QED
  BY <1>2, <1>3, <1>4

LEMMA AcceptKeeps == ASSUME ObjectsInv, NEW t \in Attempts, Accept(t) PROVE ObjectsInv'
<1> USE DEF ObjectsInv, ObjectInv, storeVars, outcomeVars, boundVars, InStore, Queued
<1>1. UNCHANGED requestVars /\ kind' = kind /\ remote' = remote /\ \A u \in Attempts : ObjectsOf(u)' = ObjectsOf(u)
  BY OwnersStay DEF Accept
<1>5. ASSUME NEW o \in ObjectsOf(t)
      PROVE  o \in Objects /\ o[1] = t /\ o \in acked /\ o \in stored /\ ~Queued(o) /\ o \notin inflight
  <2>1. o \in Objects /\ o[1] = t
    BY Owners
  <2>2. o \in acked /\ o \notin inflight
    BY <2>1 DEF Accept, SentInv
  <2>3. intent[o] # "none"
    BY Owners DEF Accept, ReservationHolds, TypeOK
  <2> QED
    BY <2>1, <2>2, <2>3 DEF Accept, ReservedInv
<1>6. receipt # t
  <2>1. Source(t) \in Objects /\ Source(t)[1] = t
    BY Owners
  <2> QED
    BY <2>1 DEF Accept, CommittedInv
<1>7. pc[t] = "written" /\ pc' \in [Attempts -> Places] /\ pc'[t] \in {"releasing", "cleaning"}
      /\ \A u \in Attempts : u # t => pc'[u] = pc[u]
  BY AttemptGoes DEF Accept, Places
<1>8. ASSUME receipt = None, NEW o \in Objects
      PROVE  CommittedInv(o)' /\ FoundInv(o)'
  <2>1. /\ receipt' = t /\ referenced' = referenced \cup ObjectsOf(t) /\ UNCHANGED <<stored, inflight, deletion, freeing>>
        /\ o \notin referenced /\ receipt # o[1] /\ o[1] \in Attempts
        /\ pc'[t] = "releasing" \/ (pc'[t] = "cleaning" /\ t \in unsure')
    BY <1>8, AttemptGoes, Owners, ObjectsAssumption DEF Accept, NoPrior, CommittedInv, Places
  <2>2. CASE o[1] = t
    BY <1>1, <1>5, <1>7, <2>1, <2>2 DEF CommittedInv, FoundInv, SentInv
  <2>3. CASE o[1] # t
    <3>1. o \notin ObjectsOf(t) /\ pc'[o[1]] = pc[o[1]] /\ intent'[o] = intent[o]
      BY <1>7, <2>1, <2>3, Owners DEF Accept, SetIntents, TypeOK
    <3> QED
      BY <1>1, <1>7, <2>1, <2>3, <3>1 DEF CommittedInv, FoundInv
  <2> QED
    BY <2>2, <2>3
<1>9. ASSUME receipt # None, NEW o \in Objects
      PROVE  CommittedInv(o)' /\ FoundInv(o)'
  <2>1. pc'[t] = "cleaning" /\ UNCHANGED <<stored, inflight, deletion, freeing, referenced, receipt, intent, unsure>>
    BY <1>9, AttemptGoes DEF Accept, NoPrior, Places
  <2> QED
    BY <1>1, <1>6, <1>7, <2>1, Owners DEF CommittedInv, FoundInv
<1>2. TypeOK'
  <2>1. pc' \in [Attempts -> Places] /\ sent' \subseteq sent /\ acked' \subseteq acked /\ acked' \subseteq sent'
        /\ \A u \in Attempts : pc'[u] = "removing" => kind = "plain"
    BY AttemptGoes DEF TypeOK, Places, Accept
  <2>2. answer' \in [Attempts -> Attempts \cup {None, "rejected", "gone", "failed"}]
    BY PriorTold, AttemptTold DEF TypeOK, Accept
  <2>3. intent' \in [Objects -> {"none", "live", "expired", "stale"}]
    BY DEF TypeOK, SetIntents, Accept
  <2>4. referenced' \subseteq Objects /\ charged' \subseteq Attempts /\ receipt' \in Attempts \cup {None, "rejected"}
        /\ unsure' \subseteq Attempts
    BY Owners DEF TypeOK, Accept
  <2> QED
    BY <1>1, <2>1, <2>2, <2>3, <2>4 DEF TypeOK, Accept
<1>3. OutcomeInv'
  BY PriorTold, ObjectsAssumption DEF TypeOK, OutcomeInv, Accept, NoPrior, Goto, Tell, SetIntents, ReservationHolds
<1>4. ASSUME NEW o \in Objects PROVE ObjectInv(o)'
  <2>1. UnsentInv(o)'
    BY <1>1, <1>2, Owners, Entries DEF TypeOK, UnsentInv, SentInv, InflightInv, ReservedInv, CommittedInv, FoundInv, Accept, NoPrior, Goto, Tell, SetIntents, ReservationHolds
  <2>2. SentInv(o)'
    BY <1>1, <1>2, Owners, Entries DEF TypeOK, UnsentInv, SentInv, InflightInv, ReservedInv, CommittedInv, FoundInv, Accept, NoPrior, Goto, Tell, SetIntents, ReservationHolds
  <2>3. InflightInv(o)'
    BY <1>1, <1>2, Owners, Entries DEF TypeOK, UnsentInv, SentInv, InflightInv, ReservedInv, CommittedInv, FoundInv, Accept, NoPrior, Goto, Tell, SetIntents, ReservationHolds
  <2>4. ReservedInv(o)'
    BY <1>1, <1>2, Owners, Entries DEF TypeOK, UnsentInv, SentInv, InflightInv, ReservedInv, CommittedInv, FoundInv, Accept, NoPrior, Goto, Tell, SetIntents, ReservationHolds
  <2>5. CommittedInv(o)'
    BY <1>8, <1>9
  <2>6. FoundInv(o)'
    BY <1>8, <1>9
  <2> QED
    BY <2>1, <2>2, <2>3, <2>4, <2>5, <2>6
<1> QED
  BY <1>2, <1>3, <1>4

LEMMA FailKeeps == ASSUME ObjectsInv, NEW t \in Attempts, Fail(t) PROVE ObjectsInv'
<1> USE DEF ObjectsInv, ObjectInv, storeVars, outcomeVars, boundVars, InStore, Queued
<1>1. UNCHANGED requestVars /\ kind' = kind /\ remote' = remote /\ \A u \in Attempts : ObjectsOf(u)' = ObjectsOf(u)
  BY OwnersStay DEF Fail
<1>2. TypeOK'
  BY <1>1, Owners, Entries, PriorTold, ObjectsAssumption DEF TypeOK, Places, Fail, Goto, Tell
<1>3. OutcomeInv'
  BY PriorTold, ObjectsAssumption DEF TypeOK, OutcomeInv, Fail, Goto, Tell
<1>4. ASSUME NEW o \in Objects PROVE ObjectInv(o)'
  <2>1. UnsentInv(o)'
    BY <1>1, <1>2, Owners, Entries DEF TypeOK, UnsentInv, SentInv, InflightInv, ReservedInv, CommittedInv, FoundInv, Fail, Goto, Tell
  <2>2. SentInv(o)'
    BY <1>1, <1>2, Owners, Entries DEF TypeOK, UnsentInv, SentInv, InflightInv, ReservedInv, CommittedInv, FoundInv, Fail, Goto, Tell
  <2>3. InflightInv(o)'
    BY <1>1, <1>2, Owners, Entries DEF TypeOK, UnsentInv, SentInv, InflightInv, ReservedInv, CommittedInv, FoundInv, Fail, Goto, Tell
  <2>4. ReservedInv(o)'
    BY <1>1, <1>2, Owners, Entries DEF TypeOK, UnsentInv, SentInv, InflightInv, ReservedInv, CommittedInv, FoundInv, Fail, Goto, Tell
  <2>5. CommittedInv(o)'
    BY <1>1, <1>2, Owners, Entries DEF TypeOK, UnsentInv, SentInv, InflightInv, ReservedInv, CommittedInv, FoundInv, Fail, Goto, Tell
  <2>6. FoundInv(o)'
    BY <1>1, <1>2, Owners, Entries DEF TypeOK, UnsentInv, SentInv, InflightInv, ReservedInv, CommittedInv, FoundInv, Fail, Goto, Tell
  <2> QED
    BY <2>1, <2>2, <2>3, <2>4, <2>5, <2>6
<1> QED
  BY <1>2, <1>3, <1>4

LEMMA ReleaseKeeps == ASSUME ObjectsInv, NEW t \in Attempts, Release(t) PROVE ObjectsInv'
<1> USE DEF ObjectsInv, ObjectInv, storeVars, outcomeVars, boundVars, InStore, Queued
<1>1. UNCHANGED requestVars /\ kind' = kind /\ remote' = remote /\ \A u \in Attempts : ObjectsOf(u)' = ObjectsOf(u)
  BY OwnersStay DEF Release
<1>2. TypeOK'
  BY <1>1, Owners, Entries, PriorTold, ObjectsAssumption DEF TypeOK, Places, Release, Goto, SetIntents
<1>3. OutcomeInv'
  BY PriorTold, ObjectsAssumption DEF TypeOK, OutcomeInv, Release, Goto, SetIntents
<1>4. ASSUME NEW o \in Objects PROVE ObjectInv(o)'
  <2>1. UnsentInv(o)'
    BY <1>1, <1>2, Owners, Entries DEF TypeOK, UnsentInv, SentInv, InflightInv, ReservedInv, CommittedInv, FoundInv, Release, Goto, SetIntents
  <2>2. SentInv(o)'
    BY <1>1, <1>2, Owners, Entries DEF TypeOK, UnsentInv, SentInv, InflightInv, ReservedInv, CommittedInv, FoundInv, Release, Goto, SetIntents
  <2>3. InflightInv(o)'
    BY <1>1, <1>2, Owners, Entries DEF TypeOK, UnsentInv, SentInv, InflightInv, ReservedInv, CommittedInv, FoundInv, Release, Goto, SetIntents
  <2>4. ReservedInv(o)'
    BY <1>1, <1>2, Owners, Entries DEF TypeOK, UnsentInv, SentInv, InflightInv, ReservedInv, CommittedInv, FoundInv, Release, Goto, SetIntents
  <2>5. CommittedInv(o)'
    BY <1>1, <1>2, Owners, Entries DEF TypeOK, UnsentInv, SentInv, InflightInv, ReservedInv, CommittedInv, FoundInv, Release, Goto, SetIntents
  <2>6. FoundInv(o)'
    BY <1>1, <1>2, Owners, Entries DEF TypeOK, UnsentInv, SentInv, InflightInv, ReservedInv, CommittedInv, FoundInv, Release, Goto, SetIntents
  <2> QED
    BY <2>1, <2>2, <2>3, <2>4, <2>5, <2>6
<1> QED
  BY <1>2, <1>3, <1>4

LEMMA CleanKeeps == ASSUME ObjectsInv, NEW t \in Attempts, Clean(t) PROVE ObjectsInv'
<1> USE DEF ObjectsInv, ObjectInv, storeVars, outcomeVars, boundVars, InStore, Queued
<1>1. UNCHANGED requestVars /\ kind' = kind /\ remote' = remote /\ \A u \in Attempts : ObjectsOf(u)' = ObjectsOf(u)
  BY OwnersStay DEF Clean
<1>2. TypeOK'
  <2>1. pc' \in [Attempts -> Places] /\ sent' \subseteq sent /\ acked' \subseteq acked /\ acked' \subseteq sent'
        /\ \A u \in Attempts : pc'[u] = "removing" => kind = "plain"
    BY AttemptGoes DEF TypeOK, Places, Clean
  <2>2. intent' \in [Objects -> {"none", "live", "expired", "stale"}]
    BY DEF TypeOK, SetIntents, EndLeases, Clean
  <2>3. deletion' \in [Objects -> [status : {"none", "due", "delayed", "failed"}, tries : Nat]]
    BY Entries DEF TypeOK, Enqueue, Entry, Clean
  <2> QED
    BY <1>1, <2>1, <2>2, <2>3 DEF TypeOK, Clean
<1>3. OutcomeInv'
  BY PriorTold, ObjectsAssumption DEF TypeOK, OutcomeInv, Clean, Goto, Enqueue, Entry, SetIntents, EndLeases
<1>4. ASSUME NEW o \in Objects PROVE ObjectInv(o)'
  <2>1. UnsentInv(o)'
    BY <1>1, <1>2, Owners, Entries DEF TypeOK, UnsentInv, SentInv, InflightInv, ReservedInv, CommittedInv, FoundInv, Clean, Goto, Enqueue, Entry, SetIntents, EndLeases
  <2>2. SentInv(o)'
    BY <1>1, <1>2, Owners, Entries DEF TypeOK, UnsentInv, SentInv, InflightInv, ReservedInv, CommittedInv, FoundInv, Clean, Goto, Enqueue, Entry, SetIntents, EndLeases
  <2>3. InflightInv(o)'
    BY <1>1, <1>2, Owners, Entries DEF TypeOK, UnsentInv, SentInv, InflightInv, ReservedInv, CommittedInv, FoundInv, Clean, Goto, Enqueue, Entry, SetIntents, EndLeases
  <2>4. ReservedInv(o)'
    BY <1>1, <1>2, Owners, Entries DEF TypeOK, UnsentInv, SentInv, InflightInv, ReservedInv, CommittedInv, FoundInv, Clean, Goto, Enqueue, Entry, SetIntents, EndLeases
  <2>5. CommittedInv(o)'
    BY <1>1, <1>2, Owners, Entries DEF TypeOK, UnsentInv, SentInv, InflightInv, ReservedInv, CommittedInv, FoundInv, Clean, Goto, Enqueue, Entry, SetIntents, EndLeases
  <2>6. FoundInv(o)'
    BY <1>1, <1>2, Owners, Entries DEF TypeOK, UnsentInv, SentInv, InflightInv, ReservedInv, CommittedInv, FoundInv, Clean, Goto, Enqueue, Entry, SetIntents, EndLeases
  <2> QED
    BY <2>1, <2>2, <2>3, <2>4, <2>5, <2>6
<1> QED
  BY <1>2, <1>3, <1>4

LEMMA CrashKeeps == ASSUME ObjectsInv, NEW t \in Attempts, Crash(t) PROVE ObjectsInv'
<1> USE DEF ObjectsInv, ObjectInv, storeVars, outcomeVars, boundVars, InStore, Queued
<1>1. UNCHANGED requestVars /\ kind' = kind /\ remote' = remote /\ \A u \in Attempts : ObjectsOf(u)' = ObjectsOf(u)
  BY OwnersStay DEF Crash
<1>2. TypeOK'
  BY <1>1, Owners, Entries, PriorTold, ObjectsAssumption DEF TypeOK, Places, Crash, Goto, Tell
<1>3. OutcomeInv'
  BY PriorTold, ObjectsAssumption DEF TypeOK, OutcomeInv, Crash, Goto, Tell
<1>4. ASSUME NEW o \in Objects PROVE ObjectInv(o)'
  <2>1. UnsentInv(o)'
    BY <1>1, <1>2, Owners, Entries DEF TypeOK, UnsentInv, SentInv, InflightInv, ReservedInv, CommittedInv, FoundInv, Crash, Goto, Tell
  <2>2. SentInv(o)'
    BY <1>1, <1>2, Owners, Entries DEF TypeOK, UnsentInv, SentInv, InflightInv, ReservedInv, CommittedInv, FoundInv, Crash, Goto, Tell
  <2>3. InflightInv(o)'
    BY <1>1, <1>2, Owners, Entries DEF TypeOK, UnsentInv, SentInv, InflightInv, ReservedInv, CommittedInv, FoundInv, Crash, Goto, Tell
  <2>4. ReservedInv(o)'
    BY <1>1, <1>2, Owners, Entries DEF TypeOK, UnsentInv, SentInv, InflightInv, ReservedInv, CommittedInv, FoundInv, Crash, Goto, Tell
  <2>5. CommittedInv(o)'
    BY <1>1, <1>2, Owners, Entries DEF TypeOK, UnsentInv, SentInv, InflightInv, ReservedInv, CommittedInv, FoundInv, Crash, Goto, Tell
  <2>6. FoundInv(o)'
    BY <1>1, <1>2, Owners, Entries DEF TypeOK, UnsentInv, SentInv, InflightInv, ReservedInv, CommittedInv, FoundInv, Crash, Goto, Tell
  <2> QED
    BY <2>1, <2>2, <2>3, <2>4, <2>5, <2>6
<1> QED
  BY <1>2, <1>3, <1>4

LEMMA RemoveNowKeeps == ASSUME ObjectsInv, NEW t \in Attempts, RemoveNow(t) PROVE ObjectsInv'
<1> USE DEF ObjectsInv, ObjectInv, storeVars, outcomeVars, boundVars, InStore, Queued
<1>1. UNCHANGED requestVars /\ kind' = kind /\ remote' = remote /\ \A u \in Attempts : ObjectsOf(u)' = ObjectsOf(u)
  BY OwnersStay DEF RemoveNow
<1>2. TypeOK'
  <2>1. pc' \in [Attempts -> Places] /\ sent' \subseteq sent /\ acked' \subseteq acked /\ acked' \subseteq sent'
        /\ \A u \in Attempts : pc'[u] = "removing" => kind = "plain"
    BY AttemptGoes DEF TypeOK, Places, RemoveNow
  <2>2. deletion' \in [Objects -> [status : {"none", "due", "delayed", "failed"}, tries : Nat]]
    <3>1. Source(t) \in Objects /\ deletion[Source(t)].tries + 1 \in Nat
      BY Owners DEF TypeOK
    <3> QED
      BY <3>1, Entries DEF TypeOK, Remove, RemoveNow
  <2>3. stored' \subseteq Objects /\ freeing' \subseteq Objects
    BY Owners DEF TypeOK, Remove, RemoveNow
  <2> QED
    BY <1>1, <2>1, <2>2, <2>3 DEF TypeOK, RemoveNow
<1>3. OutcomeInv'
  BY PriorTold, ObjectsAssumption DEF TypeOK, OutcomeInv, RemoveNow, Goto, Remove
<1>4. ASSUME NEW o \in Objects PROVE ObjectInv(o)'
  <2>1. UnsentInv(o)'
    BY <1>1, <1>2, Owners, Entries DEF TypeOK, UnsentInv, SentInv, InflightInv, ReservedInv, CommittedInv, FoundInv, RemoveNow, Goto, Remove
  <2>2. SentInv(o)'
    BY <1>1, <1>2, Owners, Entries DEF TypeOK, UnsentInv, SentInv, InflightInv, ReservedInv, CommittedInv, FoundInv, RemoveNow, Goto, Remove
  <2>3. InflightInv(o)'
    BY <1>1, <1>2, Owners, Entries DEF TypeOK, UnsentInv, SentInv, InflightInv, ReservedInv, CommittedInv, FoundInv, RemoveNow, Goto, Remove
  <2>4. ReservedInv(o)'
    BY <1>1, <1>2, Owners, Entries DEF TypeOK, UnsentInv, SentInv, InflightInv, ReservedInv, CommittedInv, FoundInv, RemoveNow, Goto, Remove
  <2>5. CommittedInv(o)'
    BY <1>1, <1>2, Owners, Entries DEF TypeOK, UnsentInv, SentInv, InflightInv, ReservedInv, CommittedInv, FoundInv, RemoveNow, Goto, Remove
  <2>6. FoundInv(o)'
    BY <1>1, <1>2, Owners, Entries DEF TypeOK, UnsentInv, SentInv, InflightInv, ReservedInv, CommittedInv, FoundInv, RemoveNow, Goto, Remove
  <2> QED
    BY <2>1, <2>2, <2>3, <2>4, <2>5, <2>6
<1> QED
  BY <1>2, <1>3, <1>4

LEMMA ProcessDeletionKeeps == ASSUME ObjectsInv, NEW x \in Objects, ProcessDeletion(x) PROVE ObjectsInv'
<1> USE DEF ObjectsInv, ObjectInv, storeVars, outcomeVars, boundVars, InStore, Queued
<1>1. UNCHANGED requestVars /\ kind' = kind /\ remote' = remote /\ \A u \in Attempts : ObjectsOf(u)' = ObjectsOf(u)
  BY OwnersStay DEF ProcessDeletion
<1>2. TypeOK'
  BY <1>1, Owners, Entries, PriorTold, ObjectsAssumption DEF TypeOK, Places, ProcessDeletion, Remove
<1>3. OutcomeInv'
  BY PriorTold, ObjectsAssumption DEF TypeOK, OutcomeInv, ProcessDeletion, Remove
<1>4. ASSUME NEW o \in Objects PROVE ObjectInv(o)'
  <2>1. UnsentInv(o)'
    BY <1>1, <1>2, Owners, Entries DEF TypeOK, UnsentInv, SentInv, InflightInv, ReservedInv, CommittedInv, FoundInv, ProcessDeletion, Remove
  <2>2. SentInv(o)'
    BY <1>1, <1>2, Owners, Entries DEF TypeOK, UnsentInv, SentInv, InflightInv, ReservedInv, CommittedInv, FoundInv, ProcessDeletion, Remove
  <2>3. InflightInv(o)'
    BY <1>1, <1>2, Owners, Entries DEF TypeOK, UnsentInv, SentInv, InflightInv, ReservedInv, CommittedInv, FoundInv, ProcessDeletion, Remove
  <2>4. ReservedInv(o)'
    BY <1>1, <1>2, Owners, Entries DEF TypeOK, UnsentInv, SentInv, InflightInv, ReservedInv, CommittedInv, FoundInv, ProcessDeletion, Remove
  <2>5. CommittedInv(o)'
    BY <1>1, <1>2, Owners, Entries DEF TypeOK, UnsentInv, SentInv, InflightInv, ReservedInv, CommittedInv, FoundInv, ProcessDeletion, Remove
  <2>6. FoundInv(o)'
    BY <1>1, <1>2, Owners, Entries DEF TypeOK, UnsentInv, SentInv, InflightInv, ReservedInv, CommittedInv, FoundInv, ProcessDeletion, Remove
  <2> QED
    BY <2>1, <2>2, <2>3, <2>4, <2>5, <2>6
<1> QED
  BY <1>2, <1>3, <1>4

LEMMA FreeKeeps == ASSUME ObjectsInv, NEW x \in Objects, Free(x) PROVE ObjectsInv'
<1> USE DEF ObjectsInv, ObjectInv, storeVars, outcomeVars, boundVars, InStore, Queued
<1>1. UNCHANGED requestVars /\ kind' = kind /\ remote' = remote /\ \A u \in Attempts : ObjectsOf(u)' = ObjectsOf(u)
  BY OwnersStay DEF Free
<1>2. TypeOK'
  BY <1>1, Owners, Entries, PriorTold, ObjectsAssumption DEF TypeOK, Places, Free, MayFree, SetIntents
<1>3. OutcomeInv'
  BY PriorTold, ObjectsAssumption DEF TypeOK, OutcomeInv, Free, MayFree, SetIntents
<1>4. ASSUME NEW o \in Objects PROVE ObjectInv(o)'
  <2>1. UnsentInv(o)'
    BY <1>1, <1>2, Owners, Entries DEF TypeOK, UnsentInv, SentInv, InflightInv, ReservedInv, CommittedInv, FoundInv, Free, MayFree, SetIntents
  <2>2. SentInv(o)'
    BY <1>1, <1>2, Owners, Entries DEF TypeOK, UnsentInv, SentInv, InflightInv, ReservedInv, CommittedInv, FoundInv, Free, MayFree, SetIntents
  <2>3. InflightInv(o)'
    BY <1>1, <1>2, Owners, Entries DEF TypeOK, UnsentInv, SentInv, InflightInv, ReservedInv, CommittedInv, FoundInv, Free, MayFree, SetIntents
  <2>4. ReservedInv(o)'
    BY <1>1, <1>2, Owners, Entries DEF TypeOK, UnsentInv, SentInv, InflightInv, ReservedInv, CommittedInv, FoundInv, Free, MayFree, SetIntents
  <2>5. CommittedInv(o)'
    BY <1>1, <1>2, Owners, Entries DEF TypeOK, UnsentInv, SentInv, InflightInv, ReservedInv, CommittedInv, FoundInv, Free, MayFree, SetIntents
  <2>6. FoundInv(o)'
    BY <1>1, <1>2, Owners, Entries DEF TypeOK, UnsentInv, SentInv, InflightInv, ReservedInv, CommittedInv, FoundInv, Free, MayFree, SetIntents
  <2> QED
    BY <2>1, <2>2, <2>3, <2>4, <2>5, <2>6
<1> QED
  BY <1>2, <1>3, <1>4

LEMMA RetryDeletionKeeps == ASSUME ObjectsInv, NEW x \in Objects, RetryDeletion(x) PROVE ObjectsInv'
<1> USE DEF ObjectsInv, ObjectInv, storeVars, outcomeVars, boundVars, InStore, Queued
<1>1. UNCHANGED requestVars /\ kind' = kind /\ remote' = remote /\ \A u \in Attempts : ObjectsOf(u)' = ObjectsOf(u)
  BY OwnersStay DEF RetryDeletion
<1>2. TypeOK'
  BY <1>1, Owners, Entries, PriorTold, ObjectsAssumption DEF TypeOK, Places, RetryDeletion
<1>3. OutcomeInv'
  BY PriorTold, ObjectsAssumption DEF TypeOK, OutcomeInv, RetryDeletion
<1>4. ASSUME NEW o \in Objects PROVE ObjectInv(o)'
  <2>1. UnsentInv(o)'
    BY <1>1, <1>2, Owners, Entries DEF TypeOK, UnsentInv, SentInv, InflightInv, ReservedInv, CommittedInv, FoundInv, RetryDeletion
  <2>2. SentInv(o)'
    BY <1>1, <1>2, Owners, Entries DEF TypeOK, UnsentInv, SentInv, InflightInv, ReservedInv, CommittedInv, FoundInv, RetryDeletion
  <2>3. InflightInv(o)'
    BY <1>1, <1>2, Owners, Entries DEF TypeOK, UnsentInv, SentInv, InflightInv, ReservedInv, CommittedInv, FoundInv, RetryDeletion
  <2>4. ReservedInv(o)'
    BY <1>1, <1>2, Owners, Entries DEF TypeOK, UnsentInv, SentInv, InflightInv, ReservedInv, CommittedInv, FoundInv, RetryDeletion
  <2>5. CommittedInv(o)'
    BY <1>1, <1>2, Owners, Entries DEF TypeOK, UnsentInv, SentInv, InflightInv, ReservedInv, CommittedInv, FoundInv, RetryDeletion
  <2>6. FoundInv(o)'
    BY <1>1, <1>2, Owners, Entries DEF TypeOK, UnsentInv, SentInv, InflightInv, ReservedInv, CommittedInv, FoundInv, RetryDeletion
  <2> QED
    BY <2>1, <2>2, <2>3, <2>4, <2>5, <2>6
<1> QED
  BY <1>2, <1>3, <1>4

LEMMA PurgeKeeps == ASSUME ObjectsInv, NEW t \in Attempts, NEW S \in SUBSET DocumentsOf(t), Purge(t, S) PROVE ObjectsInv'
<1> USE DEF ObjectsInv, ObjectInv, storeVars, outcomeVars, boundVars, InStore, Queued
<1>1. UNCHANGED requestVars /\ kind' = kind /\ remote' = remote /\ \A u \in Attempts : ObjectsOf(u)' = ObjectsOf(u)
  BY OwnersStay DEF Purge
<1>2. TypeOK'
  BY <1>1, Owners, Entries, PriorTold, ObjectsAssumption DEF TypeOK, Places, Purge, Enqueue
<1>3. OutcomeInv'
  BY PriorTold, ObjectsAssumption DEF TypeOK, OutcomeInv, Purge, Enqueue
<1>4. ASSUME NEW o \in Objects PROVE ObjectInv(o)'
  <2>1. UnsentInv(o)'
    BY <1>1, <1>2, Owners, Entries DEF TypeOK, UnsentInv, SentInv, InflightInv, ReservedInv, CommittedInv, FoundInv, Purge, Enqueue
  <2>2. SentInv(o)'
    BY <1>1, <1>2, Owners, Entries DEF TypeOK, UnsentInv, SentInv, InflightInv, ReservedInv, CommittedInv, FoundInv, Purge, Enqueue
  <2>3. InflightInv(o)'
    BY <1>1, <1>2, Owners, Entries DEF TypeOK, UnsentInv, SentInv, InflightInv, ReservedInv, CommittedInv, FoundInv, Purge, Enqueue
  <2>4. ReservedInv(o)'
    BY <1>1, <1>2, Owners, Entries DEF TypeOK, UnsentInv, SentInv, InflightInv, ReservedInv, CommittedInv, FoundInv, Purge, Enqueue
  <2>5. CommittedInv(o)'
    BY <1>1, <1>2, Owners, Entries DEF TypeOK, UnsentInv, SentInv, InflightInv, ReservedInv, CommittedInv, FoundInv, Purge, Enqueue
  <2>6. FoundInv(o)'
    BY <1>1, <1>2, Owners, Entries DEF TypeOK, UnsentInv, SentInv, InflightInv, ReservedInv, CommittedInv, FoundInv, Purge, Enqueue
  <2> QED
    BY <2>1, <2>2, <2>3, <2>4, <2>5, <2>6
<1> QED
  BY <1>2, <1>3, <1>4

LEMMA HeartbeatKeeps == ASSUME ObjectsInv, NEW t \in Attempts, Heartbeat(t) PROVE ObjectsInv'
<1> USE DEF ObjectsInv, ObjectInv, storeVars, outcomeVars, boundVars, InStore, Queued
<1>1. UNCHANGED requestVars /\ kind' = kind /\ remote' = remote /\ \A u \in Attempts : ObjectsOf(u)' = ObjectsOf(u)
  BY OwnersStay DEF Heartbeat
<1>2. TypeOK'
  BY <1>1, Owners, Entries, PriorTold, ObjectsAssumption DEF TypeOK, Places, Heartbeat, Running
<1>3. OutcomeInv'
  BY PriorTold, ObjectsAssumption DEF TypeOK, OutcomeInv, Heartbeat, Running
<1>4. ASSUME NEW o \in Objects PROVE ObjectInv(o)'
  <2>1. UnsentInv(o)'
    BY <1>1, <1>2, Owners, Entries DEF TypeOK, UnsentInv, SentInv, InflightInv, ReservedInv, CommittedInv, FoundInv, Heartbeat, Running
  <2>2. SentInv(o)'
    BY <1>1, <1>2, Owners, Entries DEF TypeOK, UnsentInv, SentInv, InflightInv, ReservedInv, CommittedInv, FoundInv, Heartbeat, Running
  <2>3. InflightInv(o)'
    BY <1>1, <1>2, Owners, Entries DEF TypeOK, UnsentInv, SentInv, InflightInv, ReservedInv, CommittedInv, FoundInv, Heartbeat, Running
  <2>4. ReservedInv(o)'
    BY <1>1, <1>2, Owners, Entries DEF TypeOK, UnsentInv, SentInv, InflightInv, ReservedInv, CommittedInv, FoundInv, Heartbeat, Running
  <2>5. CommittedInv(o)'
    BY <1>1, <1>2, Owners, Entries DEF TypeOK, UnsentInv, SentInv, InflightInv, ReservedInv, CommittedInv, FoundInv, Heartbeat, Running
  <2>6. FoundInv(o)'
    BY <1>1, <1>2, Owners, Entries DEF TypeOK, UnsentInv, SentInv, InflightInv, ReservedInv, CommittedInv, FoundInv, Heartbeat, Running
  <2> QED
    BY <2>1, <2>2, <2>3, <2>4, <2>5, <2>6
<1> QED
  BY <1>2, <1>3, <1>4

LEMMA LapseKeeps == ASSUME ObjectsInv, NEW t \in Attempts, Lapse(t) PROVE ObjectsInv'
<1> USE DEF ObjectsInv, ObjectInv, storeVars, outcomeVars, boundVars, InStore, Queued
<1>1. UNCHANGED requestVars /\ kind' = kind /\ remote' = remote /\ \A u \in Attempts : ObjectsOf(u)' = ObjectsOf(u)
  BY OwnersStay DEF Lapse
<1>2. TypeOK'
  BY <1>1, Owners, Entries, PriorTold, ObjectsAssumption DEF TypeOK, Places, Lapse, SetIntents, Running, Young
<1>3. OutcomeInv'
  BY PriorTold, ObjectsAssumption DEF TypeOK, OutcomeInv, Lapse, SetIntents, Running, Young
<1>4. ASSUME NEW o \in Objects PROVE ObjectInv(o)'
  <2>1. UnsentInv(o)'
    BY <1>1, <1>2, Owners, Entries DEF TypeOK, UnsentInv, SentInv, InflightInv, ReservedInv, CommittedInv, FoundInv, Lapse, SetIntents, Running, Young
  <2>2. SentInv(o)'
    BY <1>1, <1>2, Owners, Entries DEF TypeOK, UnsentInv, SentInv, InflightInv, ReservedInv, CommittedInv, FoundInv, Lapse, SetIntents, Running, Young
  <2>3. InflightInv(o)'
    BY <1>1, <1>2, Owners, Entries DEF TypeOK, UnsentInv, SentInv, InflightInv, ReservedInv, CommittedInv, FoundInv, Lapse, SetIntents, Running, Young
  <2>4. ReservedInv(o)'
    BY <1>1, <1>2, Owners, Entries DEF TypeOK, UnsentInv, SentInv, InflightInv, ReservedInv, CommittedInv, FoundInv, Lapse, SetIntents, Running, Young
  <2>5. CommittedInv(o)'
    BY <1>1, <1>2, Owners, Entries DEF TypeOK, UnsentInv, SentInv, InflightInv, ReservedInv, CommittedInv, FoundInv, Lapse, SetIntents, Running, Young
  <2>6. FoundInv(o)'
    BY <1>1, <1>2, Owners, Entries DEF TypeOK, UnsentInv, SentInv, InflightInv, ReservedInv, CommittedInv, FoundInv, Lapse, SetIntents, Running, Young
  <2> QED
    BY <2>1, <2>2, <2>3, <2>4, <2>5, <2>6
<1> QED
  BY <1>2, <1>3, <1>4

LEMMA BackoffPassesKeeps == ASSUME ObjectsInv, NEW x \in Objects, BackoffPasses(x) PROVE ObjectsInv'
<1> USE DEF ObjectsInv, ObjectInv, storeVars, outcomeVars, boundVars, InStore, Queued
<1>1. UNCHANGED requestVars /\ kind' = kind /\ remote' = remote /\ \A u \in Attempts : ObjectsOf(u)' = ObjectsOf(u)
  BY OwnersStay DEF BackoffPasses
<1>2. TypeOK'
  BY <1>1, Owners, Entries, PriorTold, ObjectsAssumption DEF TypeOK, Places, BackoffPasses
<1>3. OutcomeInv'
  BY PriorTold, ObjectsAssumption DEF TypeOK, OutcomeInv, BackoffPasses
<1>4. ASSUME NEW o \in Objects PROVE ObjectInv(o)'
  <2>1. UnsentInv(o)'
    BY <1>1, <1>2, Owners, Entries DEF TypeOK, UnsentInv, SentInv, InflightInv, ReservedInv, CommittedInv, FoundInv, BackoffPasses
  <2>2. SentInv(o)'
    BY <1>1, <1>2, Owners, Entries DEF TypeOK, UnsentInv, SentInv, InflightInv, ReservedInv, CommittedInv, FoundInv, BackoffPasses
  <2>3. InflightInv(o)'
    BY <1>1, <1>2, Owners, Entries DEF TypeOK, UnsentInv, SentInv, InflightInv, ReservedInv, CommittedInv, FoundInv, BackoffPasses
  <2>4. ReservedInv(o)'
    BY <1>1, <1>2, Owners, Entries DEF TypeOK, UnsentInv, SentInv, InflightInv, ReservedInv, CommittedInv, FoundInv, BackoffPasses
  <2>5. CommittedInv(o)'
    BY <1>1, <1>2, Owners, Entries DEF TypeOK, UnsentInv, SentInv, InflightInv, ReservedInv, CommittedInv, FoundInv, BackoffPasses
  <2>6. FoundInv(o)'
    BY <1>1, <1>2, Owners, Entries DEF TypeOK, UnsentInv, SentInv, InflightInv, ReservedInv, CommittedInv, FoundInv, BackoffPasses
  <2> QED
    BY <2>1, <2>2, <2>3, <2>4, <2>5, <2>6
<1> QED
  BY <1>2, <1>3, <1>4

LEMMA ReconcileRemoteKeeps == ASSUME ObjectsInv, NEW x \in Objects, ReconcileRemote(x) PROVE ObjectsInv'
<1> USE DEF ObjectsInv, ObjectInv, storeVars, outcomeVars, boundVars, InStore, Queued
<1>1. UNCHANGED requestVars /\ kind' = kind /\ remote' = remote /\ \A u \in Attempts : ObjectsOf(u)' = ObjectsOf(u)
  BY OwnersStay DEF ReconcileRemote
<1>2. TypeOK'
  BY <1>1, Owners, Entries, PriorTold, ObjectsAssumption DEF TypeOK, Places, ReconcileRemote, Referenced, Enqueue, SetIntents
<1>3. OutcomeInv'
  BY PriorTold, ObjectsAssumption DEF TypeOK, OutcomeInv, ReconcileRemote, Referenced, Enqueue, SetIntents
<1>4. ASSUME NEW o \in Objects PROVE ObjectInv(o)'
  <2>1. UnsentInv(o)'
    BY <1>1, <1>2, Owners, Entries DEF TypeOK, UnsentInv, SentInv, InflightInv, ReservedInv, CommittedInv, FoundInv, ReconcileRemote, Referenced, Enqueue, SetIntents
  <2>2. SentInv(o)'
    BY <1>1, <1>2, Owners, Entries DEF TypeOK, UnsentInv, SentInv, InflightInv, ReservedInv, CommittedInv, FoundInv, ReconcileRemote, Referenced, Enqueue, SetIntents
  <2>3. InflightInv(o)'
    BY <1>1, <1>2, Owners, Entries DEF TypeOK, UnsentInv, SentInv, InflightInv, ReservedInv, CommittedInv, FoundInv, ReconcileRemote, Referenced, Enqueue, SetIntents
  <2>4. ReservedInv(o)'
    BY <1>1, <1>2, Owners, Entries DEF TypeOK, UnsentInv, SentInv, InflightInv, ReservedInv, CommittedInv, FoundInv, ReconcileRemote, Referenced, Enqueue, SetIntents
  <2>5. CommittedInv(o)'
    BY <1>1, <1>2, Owners, Entries DEF TypeOK, UnsentInv, SentInv, InflightInv, ReservedInv, CommittedInv, FoundInv, ReconcileRemote, Referenced, Enqueue, SetIntents
  <2>6. FoundInv(o)'
    BY <1>1, <1>2, Owners, Entries DEF TypeOK, UnsentInv, SentInv, InflightInv, ReservedInv, CommittedInv, FoundInv, ReconcileRemote, Referenced, Enqueue, SetIntents
  <2> QED
    BY <2>1, <2>2, <2>3, <2>4, <2>5, <2>6
<1> QED
  BY <1>2, <1>3, <1>4

LEMMA SweepFileKeeps == ASSUME ObjectsInv, NEW x \in Objects, SweepFile(x) PROVE ObjectsInv'
<1> USE DEF ObjectsInv, ObjectInv, storeVars, outcomeVars, boundVars, InStore, Queued
<1>1. UNCHANGED requestVars /\ kind' = kind /\ remote' = remote /\ \A u \in Attempts : ObjectsOf(u)' = ObjectsOf(u)
  BY OwnersStay DEF SweepFile
<1>2. TypeOK'
  BY <1>1, Owners, Entries, PriorTold, ObjectsAssumption DEF TypeOK, Places, SweepFile, Young, Running, Referenced, Enqueue, SetIntents
<1>3. OutcomeInv'
  BY PriorTold, ObjectsAssumption DEF TypeOK, OutcomeInv, SweepFile, Young, Running, Referenced, Enqueue, SetIntents
<1>4. ASSUME NEW o \in Objects PROVE ObjectInv(o)'
  <2>1. UnsentInv(o)'
    BY <1>1, <1>2, Owners, Entries DEF TypeOK, UnsentInv, SentInv, InflightInv, ReservedInv, CommittedInv, FoundInv, SweepFile, Young, Running, Referenced, Enqueue, SetIntents
  <2>2. SentInv(o)'
    BY <1>1, <1>2, Owners, Entries DEF TypeOK, UnsentInv, SentInv, InflightInv, ReservedInv, CommittedInv, FoundInv, SweepFile, Young, Running, Referenced, Enqueue, SetIntents
  <2>3. InflightInv(o)'
    BY <1>1, <1>2, Owners, Entries DEF TypeOK, UnsentInv, SentInv, InflightInv, ReservedInv, CommittedInv, FoundInv, SweepFile, Young, Running, Referenced, Enqueue, SetIntents
  <2>4. ReservedInv(o)'
    BY <1>1, <1>2, Owners, Entries DEF TypeOK, UnsentInv, SentInv, InflightInv, ReservedInv, CommittedInv, FoundInv, SweepFile, Young, Running, Referenced, Enqueue, SetIntents
  <2>5. CommittedInv(o)'
    BY <1>1, <1>2, Owners, Entries DEF TypeOK, UnsentInv, SentInv, InflightInv, ReservedInv, CommittedInv, FoundInv, SweepFile, Young, Running, Referenced, Enqueue, SetIntents
  <2>6. FoundInv(o)'
    BY <1>1, <1>2, Owners, Entries DEF TypeOK, UnsentInv, SentInv, InflightInv, ReservedInv, CommittedInv, FoundInv, SweepFile, Young, Running, Referenced, Enqueue, SetIntents
  <2> QED
    BY <2>1, <2>2, <2>3, <2>4, <2>5, <2>6
<1> QED
  BY <1>2, <1>3, <1>4

LEMMA SweepIntentKeeps == ASSUME ObjectsInv, NEW x \in Objects, SweepIntent(x) PROVE ObjectsInv'
<1> USE DEF ObjectsInv, ObjectInv, storeVars, outcomeVars, boundVars, InStore, Queued
<1>1. UNCHANGED requestVars /\ kind' = kind /\ remote' = remote /\ \A u \in Attempts : ObjectsOf(u)' = ObjectsOf(u)
  BY OwnersStay DEF SweepIntent
<1>2. TypeOK'
  BY <1>1, Owners, Entries, PriorTold, ObjectsAssumption DEF TypeOK, Places, SweepIntent, Referenced, SetIntents
<1>3. OutcomeInv'
  BY PriorTold, ObjectsAssumption DEF TypeOK, OutcomeInv, SweepIntent, Referenced, SetIntents
<1>4. ASSUME NEW o \in Objects PROVE ObjectInv(o)'
  <2>1. UnsentInv(o)'
    BY <1>1, <1>2, Owners, Entries DEF TypeOK, UnsentInv, SentInv, InflightInv, ReservedInv, CommittedInv, FoundInv, SweepIntent, Referenced, SetIntents
  <2>2. SentInv(o)'
    BY <1>1, <1>2, Owners, Entries DEF TypeOK, UnsentInv, SentInv, InflightInv, ReservedInv, CommittedInv, FoundInv, SweepIntent, Referenced, SetIntents
  <2>3. InflightInv(o)'
    BY <1>1, <1>2, Owners, Entries DEF TypeOK, UnsentInv, SentInv, InflightInv, ReservedInv, CommittedInv, FoundInv, SweepIntent, Referenced, SetIntents
  <2>4. ReservedInv(o)'
    BY <1>1, <1>2, Owners, Entries DEF TypeOK, UnsentInv, SentInv, InflightInv, ReservedInv, CommittedInv, FoundInv, SweepIntent, Referenced, SetIntents
  <2>5. CommittedInv(o)'
    BY <1>1, <1>2, Owners, Entries DEF TypeOK, UnsentInv, SentInv, InflightInv, ReservedInv, CommittedInv, FoundInv, SweepIntent, Referenced, SetIntents
  <2>6. FoundInv(o)'
    BY <1>1, <1>2, Owners, Entries DEF TypeOK, UnsentInv, SentInv, InflightInv, ReservedInv, CommittedInv, FoundInv, SweepIntent, Referenced, SetIntents
  <2> QED
    BY <2>1, <2>2, <2>3, <2>4, <2>5, <2>6
<1> QED
  BY <1>2, <1>3, <1>4

LEMMA ObjectsInitial == ASSUME Init PROVE ObjectsInv
<1> USE DEF Init
<1>1. TypeOK
  BY ObjectsAssumption, Entries DEF TypeOK, Places
<1>2. OutcomeInv
  BY ObjectsAssumption DEF OutcomeInv
<1>3. ASSUME NEW o \in Objects PROVE ObjectInv(o)
  <2>1. pc[o[1]] = "idle" /\ o[1] \in Attempts /\ intent[o] = "none" /\ deletion[o] = NotQueued /\ receipt # o[1]
    BY Owners, ObjectsAssumption
  <2> QED
    BY <2>1, Entries DEF ObjectInv, UnsentInv, SentInv, InflightInv, ReservedInv, CommittedInv, FoundInv, InStore, Queued
<1> QED
  BY <1>1, <1>2, <1>3 DEF ObjectsInv

LEMMA ObjectsRest == ASSUME ObjectsInv, UNCHANGED vars PROVE ObjectsInv'
<1>1. UNCHANGED <<requestVars, storeVars, outcomeVars, boundVars, pc, sent, acked, intent, deletion, freeing, answer>>
  BY DEF vars
<1>2. kind' = kind /\ remote' = remote /\ \A t \in Attempts : ObjectsOf(t)' = ObjectsOf(t)
  BY <1>1, OwnersStay
<1>3. TypeOK' /\ OutcomeInv'
  BY <1>1, <1>2 DEF ObjectsInv, TypeOK, OutcomeInv, storeVars, outcomeVars, boundVars
<1>4. ASSUME NEW o \in Objects PROVE ObjectInv(o)'
  <2>1. ObjectInv(o) /\ o[1] \in Attempts
    BY Owners DEF ObjectsInv
  <2> QED
    BY <1>1, <1>2, <2>1 DEF ObjectInv, UnsentInv, SentInv, InflightInv, ReservedInv, CommittedInv, FoundInv, InStore, Queued,
         storeVars, outcomeVars, boundVars
<1> QED
  BY <1>3, <1>4 DEF ObjectsInv

LEMMA ObjectsStep == ASSUME ObjectsInv, [Next]_vars PROVE ObjectsInv'
<1>1. ASSUME NEW t \in Attempts, AttemptStep(t) PROVE ObjectsInv'
  <2>1. ASSUME NEW o \in Objects, Send(t, o) PROVE ObjectsInv'
    BY <2>1, SendKeeps
  <2> QED
    BY <1>1, <2>1, DecideKeeps, ReserveKeeps, WrittenKeeps, RejectKeeps, AcceptKeeps, FailKeeps, ReleaseKeeps, CleanKeeps,
       RemoveNowKeeps DEF AttemptStep
<1>2. ASSUME NEW t \in Attempts, Crash(t) \/ Heartbeat(t) \/ Lapse(t) PROVE ObjectsInv'
  BY <1>2, CrashKeeps, HeartbeatKeeps, LapseKeeps
<1>3. ASSUME NEW o \in Objects, Land(o) \/ Vanish(o) \/ ProcessDeletion(o) \/ Free(o) \/ RetryDeletion(o) \/ BackoffPasses(o)
      PROVE  ObjectsInv'
  BY <1>3, LandKeeps, VanishKeeps, ProcessDeletionKeeps, FreeKeeps, RetryDeletionKeeps, BackoffPassesKeeps
<1>4. ASSUME NEW o \in Objects, Reconcile(o) PROVE ObjectsInv'
  BY <1>4, ReconcileRemoteKeeps, SweepFileKeeps, SweepIntentKeeps DEF Reconcile
<1>5. ASSUME NEW t \in Attempts, NEW S \in {DocumentsOf(t)} \cup {{o} : o \in DocumentsOf(t)}, Purge(t, S)
      PROVE  ObjectsInv'
  <2>1. S \in SUBSET DocumentsOf(t)
    OBVIOUS
  <2> QED
    BY <1>5, <2>1, PurgeKeeps
<1> QED
  BY <1>1, <1>2, <1>3, <1>4, <1>5, ObjectsRest DEF Next

\* Every state of the storage and its rows satisfies the inductive invariant.
THEOREM ObjectsInvariant == Spec => []ObjectsInv
<1> QED
  BY ObjectsInitial, ObjectsStep, PTL DEF Spec

\* Types, that acknowledgements are of writes, and that only plain attempts remove at once.
THEOREM ObjectsAreTyped == Spec => []TypeOK
<1>1. ObjectsInv => TypeOK
  BY DEF ObjectsInv
<1> QED
  BY <1>1, ObjectsInvariant, PTL

\* "Referenced originals are never removed", but by the plain attempt that committed
\* and was not told (object-reconciliation.ts, intake.ts).
THEOREM ReferencedOriginalsStay == Spec => []OriginalsKept
<1>1. ObjectsInv => OriginalsKept
  BY DEF ObjectsInv, ObjectInv, CommittedInv, TypeOK, OriginalsKept
<1> QED
  BY <1>1, ObjectsInvariant, PTL

\* What is in the store or under way to it is a document's, queued for removal or reserved.
THEOREM NoObjectIsForgotten == Spec => []EveryObjectIsFound
<1>1. ObjectsInv => EveryObjectIsFound
  BY DEF ObjectsInv, ObjectInv, FoundInv, TypeOK, EveryObjectIsFound, InStore
<1> QED
  BY <1>1, ObjectsInvariant, PTL

\* A batch's reservation outlives its bytes (retention.ts).
THEOREM BatchBytesAreCounted == Spec => []BytesStayReserved
<1>1. ObjectsInv => BytesStayReserved
  <2> SUFFICES ASSUME ObjectsInv, kind = "batch", NEW o \in stored \cup inflight, o[1] \notin charged
               PROVE  intent[o] # "none"
    BY DEF BytesStayReserved
  <2>1. o \in Objects /\ o[1] \in Attempts /\ receipt # o[1]
    BY Owners DEF ObjectsInv, TypeOK, OutcomeInv
  <2> QED
    BY <2>1 DEF ObjectsInv, ObjectInv, FoundInv, InStore
<1> QED
  BY <1>1, ObjectsInvariant, PTL

\* One charge and one outcome for all requests of a key.
THEOREM KeysStandForOneOutcome == Spec => []OneOutcome
<1>1. ObjectsInv => OneOutcome
  <2> SUFFICES ASSUME ObjectsInv PROVE OneOutcome
    OBVIOUS
  <2>1. charged = {} \/ \E t \in Attempts : charged = {t}
    BY DEF ObjectsInv, OutcomeInv
  <2>2. Cardinality(charged) <= 1
    BY <2>1, FS_EmptySet, FS_Singleton
  <2>3. ASSUME NEW t \in Attempts, NEW u \in Attempts, {answer[t], answer[u]} \cap {None, "failed", "gone"} = {}
        PROVE  answer[t] = answer[u]
    BY <2>3 DEF ObjectsInv, OutcomeInv
  <2> QED
    BY <2>2, <2>3 DEF OneOutcome
<1> QED
  BY <1>1, ObjectsInvariant, PTL

-----------------------------------------------------------------------------
(***************************************************************************)
(* DirectUploads: an upload is decided once, whoever finalizes it.         *)
(***************************************************************************)
\* Rows: an owner is one of the leases given out, and only a finalizing row has one.
UploadRows ==
  /\ UploadsTypeOK
  /\ \A u \in Uploads : /\ upload[u].owner <= takeovers[u]
                        /\ upload[u].state = "none" => upload[u].plan = Unbound /\ takeovers[u] = 0

Finalizer == [at : {"idle", "verifying", "previewing", "accepting", "completing", "ending"},
              upload : Uploads \cup {Unbound}, owner : 0..MaxTakeovers,
              plan : BatchPlans \cup {Unbound}, outcome : {"none", "retry", "terminal"}]

\* What a request knows: its lease was given out, and while nobody took it over the row is
\* still bound to the plan it read; it accepts what it verified, and gives up for good only
\* an upload that never becomes a document.
KnowsUpload(r) ==
  /\ r.upload \in Uploads /\ r.owner \in 1..takeovers[r.upload]
  /\ upload[r.upload].owner = r.owner => r.plan = upload[r.upload].plan
  /\ r.at \in {"accepting", "completing"} => r.upload \in genuine
  /\ r.at = "completing" => uploadKind = "plain" /\ r.upload \in filed
  /\ r.at \in {"verifying", "accepting"} /\ uploadKind = "batch" => r.plan # Unbound
  /\ r.outcome = "terminal" => r.at = "ending" /\ (uploadKind = "plain" => r.upload \notin genuine \/ r.upload \in refused)

FinalizersInv ==
  /\ finalizer \in [Finalizers -> Finalizer]
  /\ \A f \in Finalizers : finalizer[f].at # "idle" => KnowsUpload(finalizer[f])

\* The receipts of the two kinds of request, and why a row failed or is complete.
ReceiptsInv ==
  /\ uploadKind = "plain" => batch = Unbound /\ \A u \in Uploads : upload[u].plan = Unbound
  /\ uploadKind = "batch" => filed = {} /\ refused \subseteq {"batch"}
  /\ filed \cap refused = {} /\ (batch # Unbound => refused = {})
  /\ \A u \in filed : takeovers[u] # 0

RowsDecided ==
  \A u \in Uploads :
    /\ uploadKind = "plain" =>
         /\ upload[u].state = "failed" => u \notin genuine \/ u \in refused \/ takeovers[u] = 0
         /\ upload[u].state = "complete" => u \in filed
    /\ uploadKind = "batch" /\ upload[u].state = "complete" => upload[u].plan # Unbound /\ batch = upload[u].plan

OnePlan ==
  \A u, v \in Uploads : upload[u].plan # Unbound => {upload[v].plan, batch} \subseteq {upload[u].plan, Unbound}

UploadsInv == UploadRows /\ FinalizersInv /\ ReceiptsInv /\ RowsDecided /\ OnePlan

UploadRow ==
  [state : {"none", "pending", "finalizing", "complete", "failed", "cleaned"}, owner : 0..MaxTakeovers,
   lease : {"none", "live", "expired"}, age : {"fresh", "expired", "over"}, plan : BatchPlans \cup {Unbound}]

LEMMA NobodyOwns == 0 \in 0..MaxTakeovers
  BY UploadsAssumption

\* A row that comes to rest: nobody holds it.
LEMMA RowChanges ==
  ASSUME UploadRows, NEW u \in Uploads, NEW row \in UploadRow, row.owner = 0, row.state \notin {"none", "finalizing"},
         upload' = [upload EXCEPT ![u] = row], UNCHANGED <<uploadKind, genuine, takeovers, filed>>,
         batch' \in BatchPlans \cup {Unbound}, refused' \subseteq Uploads \cup {"batch"}
  PROVE  UploadRows'
<1>1. upload' \in [Uploads -> UploadRow] /\ upload'[u] = row /\ \A v \in Uploads : v # u => upload'[v] = upload[v]
  BY DEF UploadRows, UploadsTypeOK, UploadRow
<1>2. takeovers[u] \in Nat
  BY DEF UploadRows, UploadsTypeOK
<1>3. ASSUME NEW v \in Uploads
      PROVE  /\ upload'[v].state = "finalizing" <=> upload'[v].owner # 0
             /\ upload'[v].owner <= takeovers'[v]
             /\ upload'[v].state = "none" => upload'[v].plan = Unbound /\ takeovers'[v] = 0
  <2>1. CASE v = u
    BY <1>1, <1>2, <2>1
  <2>2. CASE v # u
    BY <1>1, <2>2 DEF UploadRows, UploadsTypeOK
  <2> QED
    BY <2>1, <2>2
<1> QED
  BY <1>1, <1>3 DEF UploadRow, UploadRows, UploadsTypeOK

\* A request that gives up for now, or for good.
LEMMA EndsKeeps ==
  ASSUME FinalizersInv, NEW f \in Finalizers, NEW outcome \in {"retry", "terminal"}, Ends(f, outcome),
         finalizer[f].at # "idle", UNCHANGED <<uploadKind, genuine, takeovers>>,
         filed \subseteq filed', refused \subseteq refused',
         \A v \in Uploads : upload'[v].owner # 0 => upload'[v].owner = upload[v].owner /\ upload'[v].plan = upload[v].plan,
         outcome = "terminal" /\ uploadKind = "plain" =>
           finalizer[f].upload \notin genuine \/ finalizer[f].upload \in refused'
  PROVE  FinalizersInv'
<1> DEFINE r == [finalizer[f] EXCEPT !.at = "ending", !.outcome = outcome]
<1>1. finalizer[f] \in Finalizer /\ KnowsUpload(finalizer[f])
  BY DEF FinalizersInv
<1>2. /\ r \in Finalizer /\ r.at = "ending" /\ r.outcome = outcome /\ r.upload = finalizer[f].upload
      /\ r.owner = finalizer[f].owner /\ r.plan = finalizer[f].plan
  BY <1>1 DEF Finalizer
<1>3. finalizer' = [finalizer EXCEPT ![f] = r]
  BY DEF Ends
<1> HIDE DEF r
<1>4. r.owner # 0 /\ finalizer'[f] = r
  BY <1>1, <1>2, <1>3 DEF KnowsUpload, Finalizer, FinalizersInv
<1>5. KnowsUpload(finalizer[f])'
  BY <1>1, <1>2, <1>4 DEF KnowsUpload
<1>6. ASSUME NEW g \in Finalizers, g # f, finalizer[g].at # "idle" PROVE KnowsUpload(finalizer[g])'
  <2>1. finalizer[g] \in Finalizer /\ KnowsUpload(finalizer[g]) /\ finalizer'[g] = finalizer[g]
    BY <1>3, <1>6 DEF FinalizersInv
  <2> QED
    BY <2>1 DEF KnowsUpload, Finalizer
<1>7. finalizer' \in [Finalizers -> Finalizer] /\ \A g \in Finalizers : g # f => finalizer'[g] = finalizer[g]
  BY <1>2, <1>3 DEF FinalizersInv
<1>8. ASSUME NEW g \in Finalizers, finalizer'[g].at # "idle" PROVE KnowsUpload(finalizer[g])'
  BY <1>5, <1>6, <1>7, <1>8
<1> QED
  BY <1>7, <1>8 DEF FinalizersInv

\* A request that verified or filed its upload goes on.
LEMMA GoesOn ==
  ASSUME FinalizersInv, NEW f \in Finalizers, NEW at \in {"accepting", "completing"},
         finalizer' = [finalizer EXCEPT ![f].at = at], finalizer[f].at \in {"verifying", "accepting"},
         UNCHANGED <<uploadKind, genuine, takeovers, upload>>, filed \subseteq filed', refused \subseteq refused',
         finalizer[f].upload \in genuine, at = "completing" => uploadKind = "plain" /\ finalizer[f].upload \in filed'
  PROVE  FinalizersInv'
<1> DEFINE r == [finalizer[f] EXCEPT !.at = at]
<1>1. finalizer[f] \in Finalizer /\ KnowsUpload(finalizer[f])
  BY DEF FinalizersInv
<1>2. /\ r \in Finalizer /\ r.at = at /\ r.outcome = finalizer[f].outcome /\ r.upload = finalizer[f].upload
      /\ r.owner = finalizer[f].owner /\ r.plan = finalizer[f].plan
  BY <1>1 DEF Finalizer
<1>3. finalizer' = [finalizer EXCEPT ![f] = r]
  OBVIOUS
<1> HIDE DEF r
<1>4. KnowsUpload(finalizer[f])'
  <2>1. finalizer'[f] = r
    BY <1>3 DEF FinalizersInv
  <2> QED
    BY <1>1, <1>2, <2>1 DEF KnowsUpload
<1>5. ASSUME NEW g \in Finalizers, g # f, finalizer[g].at # "idle" PROVE KnowsUpload(finalizer[g])'
  <2>1. KnowsUpload(finalizer[g]) /\ finalizer'[g] = finalizer[g]
    BY <1>3, <1>5 DEF FinalizersInv
  <2> QED
    BY <2>1 DEF KnowsUpload
<1>6. finalizer' \in [Finalizers -> Finalizer] /\ \A g \in Finalizers : g # f => finalizer'[g] = finalizer[g]
  BY <1>2, <1>3 DEF FinalizersInv
<1>7. ASSUME NEW g \in Finalizers, finalizer'[g].at # "idle" PROVE KnowsUpload(finalizer[g])'
  BY <1>4, <1>5, <1>6, <1>7
<1> QED
  BY <1>6, <1>7 DEF FinalizersInv

LEMMA ReserveUploadKeeps ==
  ASSUME UploadsInv, NEW u \in Uploads, NEW plan \in BatchPlans \cup {Unbound}, ReserveUpload(u, plan)
  PROVE  UploadsInv'
<1> USE UploadsAssumption DEF UploadsInv, uploadFacts, intakeVars
<1>1. UploadRows'
  <2>1. PICK state \in {"pending", "failed"} :
          upload' = [upload EXCEPT ![u] = [NoUpload EXCEPT !.state = state, !.plan = plan]]
    BY DEF ReserveUpload
  <2> DEFINE row == [NoUpload EXCEPT !.state = state, !.plan = plan]
  <2>2. row \in UploadRow /\ row.state \in {"pending", "failed"} /\ row.owner = 0
    <3>1. NoUpload \in UploadRow /\ NoUpload.owner = 0
      BY NobodyOwns DEF NoUpload, UploadRow
    <3> QED
      BY <3>1 DEF UploadRow
  <2>3. UNCHANGED <<uploadKind, genuine, takeovers, batch, filed, refused>> /\ takeovers[u] \in Nat
    BY DEF ReserveUpload, UploadRows, UploadsTypeOK
  <2>4. upload' = [upload EXCEPT ![u] = row]
    BY <2>1
  <2> HIDE DEF row
  <2> QED
    BY <2>2, <2>3, <2>4, RowChanges DEF UploadRows, UploadsTypeOK
<1>2. FinalizersInv'
  BY DEF ReserveUpload, Compatible, NoUpload, UploadRows, UploadsTypeOK, FinalizersInv, KnowsUpload, Finalizer
<1>3. ReceiptsInv'
  BY DEF ReserveUpload, Compatible, NoUpload, UploadRows, UploadsTypeOK, FinalizersInv, KnowsUpload, ReceiptsInv
<1>4. RowsDecided'
  BY DEF ReserveUpload, Compatible, NoUpload, UploadRows, UploadsTypeOK, FinalizersInv, KnowsUpload, RowsDecided, ReceiptsInv
<1>5. OnePlan'
  BY DEF ReserveUpload, Compatible, NoUpload, UploadRows, UploadsTypeOK, FinalizersInv, KnowsUpload, OnePlan, RowsDecided, ReceiptsInv
<1> QED
  BY <1>1, <1>2, <1>3, <1>4, <1>5 DEF UploadsInv

LEMMA BindPlanKeeps ==
  ASSUME UploadsInv, NEW u \in Uploads, NEW plan \in BatchPlans, BindPlan(u, plan)
  PROVE  UploadsInv'
<1> USE UploadsAssumption DEF UploadsInv, uploadFacts, intakeVars
<1>1. UploadRows'
  <2> DEFINE row == [upload[u] EXCEPT !.plan = plan, !.state = "pending", !.owner = 0, !.lease = "none"]
  <2>0. upload[u] \in UploadRow
    BY DEF UploadRow, UploadRows, UploadsTypeOK
  <2>1. row \in UploadRow /\ row.state = "pending" /\ row.owner = 0
    BY <2>0, NobodyOwns DEF UploadRow
  <2>2. upload' = [upload EXCEPT ![u] = row] /\ UNCHANGED <<uploadKind, genuine, takeovers, batch, filed, refused>>
    BY DEF BindPlan
  <2> HIDE DEF row
  <2> QED
    BY <2>1, <2>2, RowChanges DEF UploadRows, UploadsTypeOK
<1>2. FinalizersInv'
  BY DEF BindPlan, Usable, LeaseHeld, Compatible, UploadRows, UploadsTypeOK, FinalizersInv, KnowsUpload, Finalizer
<1>3. ReceiptsInv'
  BY DEF BindPlan, Usable, LeaseHeld, Compatible, UploadRows, UploadsTypeOK, FinalizersInv, KnowsUpload, ReceiptsInv
<1>4. RowsDecided'
  BY DEF BindPlan, Usable, LeaseHeld, Compatible, UploadRows, UploadsTypeOK, FinalizersInv, KnowsUpload, RowsDecided, ReceiptsInv
<1>5. OnePlan'
  BY DEF BindPlan, Usable, LeaseHeld, Compatible, UploadRows, UploadsTypeOK, FinalizersInv, KnowsUpload, OnePlan, RowsDecided, ReceiptsInv
<1> QED
  BY <1>1, <1>2, <1>3, <1>4, <1>5 DEF UploadsInv

LEMMA TakeUploadKeeps ==
  ASSUME UploadsInv, NEW f \in Finalizers, NEW u \in Uploads, NEW purpose \in {"verifying", "previewing"}, TakeUpload(f, u, purpose)
  PROVE  UploadsInv'
<1> USE UploadsAssumption DEF UploadsInv, uploadFacts, intakeVars
<1>1. UploadRows'
  <2> DEFINE row == [upload[u] EXCEPT !.state = "finalizing", !.owner = takeovers'[u], !.lease = "live"]
  <2>1. /\ takeovers' = [takeovers EXCEPT ![u] = takeovers[u] + 1] /\ takeovers[u] + 1 \in 0..MaxTakeovers
        /\ takeovers'[u] = takeovers[u] + 1 /\ takeovers[u] \in Nat
    BY DEF TakeUpload, UploadRows, UploadsTypeOK
  <2>2. upload[u] \in UploadRow
    BY DEF UploadRow, UploadRows, UploadsTypeOK
  <2>3. row \in UploadRow /\ row.state = "finalizing" /\ row.owner = takeovers[u] + 1
    BY <2>1, <2>2 DEF UploadRow
  <2>4. upload' = [upload EXCEPT ![u] = row] /\ UNCHANGED <<uploadKind, genuine, batch, filed, refused>>
    BY DEF TakeUpload
  <2> HIDE DEF row
  <2>5. takeovers' \in [Uploads -> 0..MaxTakeovers] /\ \A v \in Uploads : takeovers'[v] >= takeovers[v]
    BY <2>1 DEF UploadRows, UploadsTypeOK
  <2>6. upload' \in [Uploads -> UploadRow] /\ upload'[u] = row /\ \A v \in Uploads : v # u => upload'[v] = upload[v] /\ takeovers'[v] = takeovers[v]
    BY <2>1, <2>3, <2>4 DEF UploadRow, UploadRows, UploadsTypeOK
  <2>7. ASSUME NEW v \in Uploads
        PROVE  /\ upload'[v].state = "finalizing" <=> upload'[v].owner # 0
               /\ upload'[v].owner <= takeovers'[v]
               /\ upload'[v].state = "none" => upload'[v].plan = Unbound /\ takeovers'[v] = 0
    <3>1. CASE v = u
      BY <2>1, <2>3, <2>6, <3>1
    <3>2. CASE v # u
      BY <2>6, <3>2 DEF UploadRows, UploadsTypeOK
    <3> QED
      BY <3>1, <3>2
  <2> QED
    BY <2>4, <2>5, <2>6, <2>7 DEF UploadRow, UploadRows, UploadsTypeOK
<1>2. FinalizersInv'
  BY DEF TakeUpload, Usable, LeaseHeld, UploadRows, UploadsTypeOK, FinalizersInv, KnowsUpload, Finalizer
<1>3. ReceiptsInv'
  BY DEF TakeUpload, Usable, LeaseHeld, UploadRows, UploadsTypeOK, FinalizersInv, KnowsUpload, ReceiptsInv
<1>4. RowsDecided'
  BY DEF TakeUpload, Usable, LeaseHeld, UploadRows, UploadsTypeOK, FinalizersInv, KnowsUpload, RowsDecided, ReceiptsInv
<1>5. OnePlan'
  BY DEF TakeUpload, Usable, LeaseHeld, UploadRows, UploadsTypeOK, FinalizersInv, KnowsUpload, OnePlan, RowsDecided, ReceiptsInv
<1> QED
  BY <1>1, <1>2, <1>3, <1>4, <1>5 DEF UploadsInv

LEMMA ReadStagedKeeps ==
  ASSUME UploadsInv, NEW f \in Finalizers, ReadStaged(f)
  PROVE  UploadsInv'
<1> USE UploadsAssumption DEF UploadsInv, uploadFacts, intakeVars
<1>1. UploadRows'
  BY DEF ReadStaged, Ends, UploadRows, UploadsTypeOK, FinalizersInv, KnowsUpload, Finalizer
<1>2. FinalizersInv'
  <2>1. finalizer[f] \in Finalizer /\ KnowsUpload(finalizer[f]) /\ finalizer[f].at = "verifying"
    BY DEF ReadStaged, FinalizersInv
  <2>2. UNCHANGED <<uploadKind, genuine, upload, takeovers, batch, filed, refused>>
    BY DEF ReadStaged
  <2>3. CASE Ends(f, "retry")
    BY <2>1, <2>2, <2>3, EndsKeeps
  <2>4. CASE finalizer[f].upload \notin genuine /\ Ends(f, "terminal")
    BY <2>1, <2>2, <2>4, EndsKeeps
  <2>5. CASE finalizer[f].upload \in genuine /\ finalizer' = [finalizer EXCEPT ![f].at = "accepting"]
    BY <2>1, <2>2, <2>5, GoesOn
  <2> QED
    BY <2>3, <2>4, <2>5 DEF ReadStaged
<1>3. ReceiptsInv'
  BY DEF ReadStaged, Ends, UploadRows, UploadsTypeOK, FinalizersInv, KnowsUpload, ReceiptsInv
<1>4. RowsDecided'
  BY DEF ReadStaged, Ends, UploadRows, UploadsTypeOK, FinalizersInv, KnowsUpload, RowsDecided, ReceiptsInv
<1>5. OnePlan'
  BY DEF ReadStaged, Ends, UploadRows, UploadsTypeOK, FinalizersInv, KnowsUpload, OnePlan, RowsDecided, ReceiptsInv
<1> QED
  BY <1>1, <1>2, <1>3, <1>4, <1>5 DEF UploadsInv

LEMMA FileDocumentKeeps ==
  ASSUME UploadsInv, NEW f \in Finalizers, FileDocument(f)
  PROVE  UploadsInv'
<1> USE UploadsAssumption DEF UploadsInv, uploadFacts, intakeVars
<1>1. UploadRows'
  BY DEF FileDocument, Ends, UploadRows, UploadsTypeOK, FinalizersInv, KnowsUpload, Finalizer
<1>2. FinalizersInv'
  <2> DEFINE u == finalizer[f].upload
  <2>1. /\ finalizer[f] \in Finalizer /\ KnowsUpload(finalizer[f]) /\ finalizer[f].at = "accepting" /\ uploadKind = "plain"
        /\ u \in genuine
    BY DEF FileDocument, FinalizersInv, KnowsUpload
  <2>2. UNCHANGED <<uploadKind, genuine, upload, takeovers, batch>> /\ filed \subseteq filed' /\ refused \subseteq refused'
    BY DEF FileDocument
  <2>3. CASE finalizer' = [finalizer EXCEPT ![f].at = "completing"] /\ u \in filed'
    BY <2>1, <2>2, <2>3, GoesOn
  <2>4. CASE Ends(f, "terminal") /\ u \in refused'
    BY <2>1, <2>2, <2>4, EndsKeeps
  <2>5. CASE Ends(f, "retry")
    BY <2>1, <2>2, <2>5, EndsKeeps
  <2> HIDE DEF u
  <2>6. \/ finalizer' = [finalizer EXCEPT ![f].at = "completing"] /\ u \in filed'
        \/ Ends(f, "terminal") /\ u \in refused'
        \/ Ends(f, "retry")
    BY DEF FileDocument, u
  <2> QED
    BY <2>3, <2>4, <2>5, <2>6
<1>3. ReceiptsInv'
  BY DEF FileDocument, Ends, UploadRows, UploadsTypeOK, FinalizersInv, KnowsUpload, ReceiptsInv
<1>4. RowsDecided'
  BY DEF FileDocument, Ends, UploadRows, UploadsTypeOK, FinalizersInv, KnowsUpload, RowsDecided, ReceiptsInv
<1>5. OnePlan'
  BY DEF FileDocument, Ends, UploadRows, UploadsTypeOK, FinalizersInv, KnowsUpload, OnePlan, RowsDecided, ReceiptsInv
<1> QED
  BY <1>1, <1>2, <1>3, <1>4, <1>5 DEF UploadsInv

LEMMA CompleteUploadKeeps ==
  ASSUME UploadsInv, NEW f \in Finalizers, CompleteUpload(f)
  PROVE  UploadsInv'
<1> USE UploadsAssumption DEF UploadsInv, uploadFacts, intakeVars
<1>1. UploadRows'
  <2> DEFINE u == finalizer[f].upload
             row == [upload[u] EXCEPT !.state = "complete", !.owner = 0, !.lease = "none"]
  <2>1. finalizer[f].at # "idle" /\ UNCHANGED <<uploadKind, genuine, takeovers, batch, filed, refused>>
    BY DEF CompleteUpload
  <2>2. u \in Uploads
    BY <2>1 DEF FinalizersInv, KnowsUpload
  <2>0. upload[u] \in UploadRow
    BY <2>2 DEF UploadRow, UploadRows, UploadsTypeOK
  <2>3. row \in UploadRow /\ row.state \in {"pending", "complete", "failed"} /\ row.owner = 0
    BY <2>0, NobodyOwns DEF UploadRow
  <2>4. upload' = [upload EXCEPT ![u] = row] \/ upload' = upload
    BY DEF CompleteUpload
  <2> HIDE DEF u, row
  <2> QED
    BY <2>1, <2>2, <2>3, <2>4, RowChanges DEF UploadRows, UploadsTypeOK
<1>2. FinalizersInv'
  BY DEF CompleteUpload, OwnsUpload, Resting, UploadRows, UploadsTypeOK, FinalizersInv, KnowsUpload, Finalizer
<1>3. ReceiptsInv'
  BY DEF CompleteUpload, OwnsUpload, Resting, UploadRows, UploadsTypeOK, FinalizersInv, KnowsUpload, ReceiptsInv
<1>4. RowsDecided'
  BY DEF CompleteUpload, OwnsUpload, Resting, UploadRows, UploadsTypeOK, FinalizersInv, KnowsUpload, RowsDecided, ReceiptsInv
<1>5. OnePlan'
  BY DEF CompleteUpload, OwnsUpload, Resting, UploadRows, UploadsTypeOK, FinalizersInv, KnowsUpload, OnePlan, RowsDecided, ReceiptsInv
<1> QED
  BY <1>1, <1>2, <1>3, <1>4, <1>5 DEF UploadsInv

LEMMA AcceptBatchKeeps ==
  ASSUME UploadsInv, NEW f \in Finalizers, AcceptBatch(f)
  PROVE  UploadsInv'
<1> USE UploadsAssumption DEF UploadsInv, uploadFacts, intakeVars
<1> DEFINE u == finalizer[f].upload
         row == [upload[u] EXCEPT !.state = "complete", !.owner = 0, !.lease = "none"]
<1>1. /\ finalizer[f] \in Finalizer /\ KnowsUpload(finalizer[f]) /\ finalizer[f].at = "accepting" /\ uploadKind = "batch"
      /\ u \in Uploads /\ upload[u].owner = finalizer[f].owner /\ finalizer[f].plan = upload[u].plan
      /\ finalizer[f].plan \in BatchPlans
  BY DEF AcceptBatch, FinalizersInv, KnowsUpload, Finalizer, StillFinalizing, OwnsUpload
<1>2. UNCHANGED <<uploadKind, genuine, takeovers, filed>> /\ batch \in {Unbound, finalizer[f].plan} /\ "batch" \notin refused
  BY DEF AcceptBatch
<1>0. upload[u] \in UploadRow
  BY <1>1 DEF UploadRow, UploadRows, UploadsTypeOK
<1>3. row \in UploadRow /\ row.state = "complete" /\ row.owner = 0 /\ row.plan = finalizer[f].plan
  BY <1>1, <1>0, NobodyOwns DEF UploadRow
<1>4. \/ /\ batch' = finalizer[f].plan /\ UNCHANGED refused /\ Ends(f, "retry")
       /\ upload' = [upload EXCEPT ![u] = row]
      \/ batch = Unbound /\ refused' = {"batch"} /\ Ends(f, "terminal") /\ UNCHANGED <<upload, batch>>
  BY DEF AcceptBatch
<1> HIDE DEF u, row
<1>5. UploadRows'
  BY <1>1, <1>2, <1>3, <1>4, RowChanges DEF UploadRows, UploadsTypeOK
<1>6. FinalizersInv'
  <2>1. FinalizersInv /\ \A v \in Uploads : upload'[v].owner # 0 => upload'[v].owner = upload[v].owner /\ upload'[v].plan = upload[v].plan
    BY <1>1, <1>3, <1>4 DEF UploadRows, UploadsTypeOK
  <2>2. refused \subseteq refused'
    BY <1>1, <1>2, <1>4 DEF ReceiptsInv
  <2> QED
    BY <1>1, <1>2, <1>4, <2>1, <2>2, EndsKeeps
<1>7. \A v \in Uploads : upload'[v] = upload[v] \/ (v = u /\ upload'[v] = row /\ batch' = row.plan)
  BY <1>1, <1>3, <1>4 DEF UploadRows, UploadsTypeOK
<1>8. ReceiptsInv'
  BY <1>1, <1>2, <1>3, <1>4, <1>7 DEF ReceiptsInv
<1>9. RowsDecided'
  BY <1>1, <1>2, <1>3, <1>4, <1>7 DEF RowsDecided
<1>10. OnePlan'
  <2>1. \A v \in Uploads : upload'[v].plan = upload[v].plan
    BY <1>1, <1>3, <1>7
  <2>2. batch' \in {batch, upload[u].plan}
    BY <1>1, <1>4
  <2> QED
    BY <1>1, <2>1, <2>2 DEF OnePlan
<1> QED
  BY <1>5, <1>6, <1>8, <1>9, <1>10 DEF UploadsInv

LEMMA BatchFailsKeeps ==
  ASSUME UploadsInv, NEW f \in Finalizers, BatchFails(f)
  PROVE  UploadsInv'
<1> USE UploadsAssumption DEF UploadsInv, uploadFacts, intakeVars
<1>1. UploadRows'
  BY DEF BatchFails, Ends, StillFinalizing, UploadRows, UploadsTypeOK, FinalizersInv, KnowsUpload, Finalizer
<1>2. FinalizersInv'
  <2>1. finalizer[f] \in Finalizer /\ KnowsUpload(finalizer[f]) /\ finalizer[f].at = "accepting" /\ uploadKind = "batch"
    BY DEF BatchFails, FinalizersInv
  <2>2. UNCHANGED <<uploadKind, genuine, upload, takeovers, batch, filed, refused>>
    BY DEF BatchFails
  <2>3. Ends(f, "retry") \/ Ends(f, "terminal")
    BY DEF BatchFails
  <2> QED
    BY <2>1, <2>2, <2>3, EndsKeeps
<1>3. ReceiptsInv'
  BY DEF BatchFails, Ends, StillFinalizing, UploadRows, UploadsTypeOK, FinalizersInv, KnowsUpload, ReceiptsInv
<1>4. RowsDecided'
  BY DEF BatchFails, Ends, StillFinalizing, UploadRows, UploadsTypeOK, FinalizersInv, KnowsUpload, RowsDecided, ReceiptsInv
<1>5. OnePlan'
  BY DEF BatchFails, Ends, StillFinalizing, UploadRows, UploadsTypeOK, FinalizersInv, KnowsUpload, OnePlan, RowsDecided, ReceiptsInv
<1> QED
  BY <1>1, <1>2, <1>3, <1>4, <1>5 DEF UploadsInv

LEMMA EndFinalizeKeeps ==
  ASSUME UploadsInv, NEW f \in Finalizers, EndFinalize(f)
  PROVE  UploadsInv'
<1> USE UploadsAssumption DEF UploadsInv, uploadFacts, intakeVars
<1>1. UploadRows'
  <2> DEFINE u == finalizer[f].upload
             row == [upload[u] EXCEPT !.state = IF finalizer[f].outcome = "terminal" THEN "failed" ELSE "pending", !.owner = 0, !.lease = "none"]
  <2>1. finalizer[f].at # "idle" /\ UNCHANGED <<uploadKind, genuine, takeovers, batch, filed, refused>>
    BY DEF EndFinalize
  <2>2. u \in Uploads
    BY <2>1 DEF FinalizersInv, KnowsUpload
  <2>0. upload[u] \in UploadRow
    BY <2>2 DEF UploadRow, UploadRows, UploadsTypeOK
  <2>3. row \in UploadRow /\ row.state \in {"pending", "complete", "failed"} /\ row.owner = 0
    BY <2>0, NobodyOwns DEF UploadRow
  <2>4. upload' = [upload EXCEPT ![u] = row] \/ upload' = upload
    BY DEF EndFinalize
  <2> HIDE DEF u, row
  <2> QED
    BY <2>1, <2>2, <2>3, <2>4, RowChanges DEF UploadRows, UploadsTypeOK
<1>2. FinalizersInv'
  BY DEF EndFinalize, OwnsUpload, Resting, UploadRows, UploadsTypeOK, FinalizersInv, KnowsUpload, Finalizer
<1>3. ReceiptsInv'
  BY DEF EndFinalize, OwnsUpload, Resting, UploadRows, UploadsTypeOK, FinalizersInv, KnowsUpload, ReceiptsInv
<1>4. RowsDecided'
  BY DEF EndFinalize, OwnsUpload, Resting, UploadRows, UploadsTypeOK, FinalizersInv, KnowsUpload, RowsDecided, ReceiptsInv
<1>5. OnePlan'
  BY DEF EndFinalize, OwnsUpload, Resting, UploadRows, UploadsTypeOK, FinalizersInv, KnowsUpload, OnePlan, RowsDecided, ReceiptsInv
<1> QED
  BY <1>1, <1>2, <1>3, <1>4, <1>5 DEF UploadsInv

LEMMA StopFinalizerKeeps ==
  ASSUME UploadsInv, NEW f \in Finalizers, StopFinalizer(f)
  PROVE  UploadsInv'
<1> USE UploadsAssumption DEF UploadsInv, uploadFacts, intakeVars
<1>1. UploadRows'
  BY DEF StopFinalizer, Resting, UploadRows, UploadsTypeOK, FinalizersInv, KnowsUpload, Finalizer
<1>2. FinalizersInv'
  BY DEF StopFinalizer, Resting, UploadRows, UploadsTypeOK, FinalizersInv, KnowsUpload, Finalizer
<1>3. ReceiptsInv'
  BY DEF StopFinalizer, Resting, UploadRows, UploadsTypeOK, FinalizersInv, KnowsUpload, ReceiptsInv
<1>4. RowsDecided'
  BY DEF StopFinalizer, Resting, UploadRows, UploadsTypeOK, FinalizersInv, KnowsUpload, RowsDecided, ReceiptsInv
<1>5. OnePlan'
  BY DEF StopFinalizer, Resting, UploadRows, UploadsTypeOK, FinalizersInv, KnowsUpload, OnePlan, RowsDecided, ReceiptsInv
<1> QED
  BY <1>1, <1>2, <1>3, <1>4, <1>5 DEF UploadsInv

LEMMA LapseUploadKeeps ==
  ASSUME UploadsInv, NEW u \in Uploads, LapseUpload(u)
  PROVE  UploadsInv'
<1> USE UploadsAssumption DEF UploadsInv, uploadFacts, intakeVars
<1>1. UploadRows'
  BY DEF LapseUpload, UploadRows, UploadsTypeOK, FinalizersInv, KnowsUpload, Finalizer
<1>2. FinalizersInv'
  BY DEF LapseUpload, UploadRows, UploadsTypeOK, FinalizersInv, KnowsUpload, Finalizer
<1>3. ReceiptsInv'
  BY DEF LapseUpload, UploadRows, UploadsTypeOK, FinalizersInv, KnowsUpload, ReceiptsInv
<1>4. RowsDecided'
  BY DEF LapseUpload, UploadRows, UploadsTypeOK, FinalizersInv, KnowsUpload, RowsDecided, ReceiptsInv
<1>5. OnePlan'
  BY DEF LapseUpload, UploadRows, UploadsTypeOK, FinalizersInv, KnowsUpload, OnePlan, RowsDecided, ReceiptsInv
<1> QED
  BY <1>1, <1>2, <1>3, <1>4, <1>5 DEF UploadsInv

LEMMA AgeUploadKeeps ==
  ASSUME UploadsInv, NEW u \in Uploads, AgeUpload(u)
  PROVE  UploadsInv'
<1> USE UploadsAssumption DEF UploadsInv, uploadFacts, intakeVars
<1>1. UploadRows'
  BY DEF AgeUpload, UploadRows, UploadsTypeOK, FinalizersInv, KnowsUpload, Finalizer
<1>2. FinalizersInv'
  BY DEF AgeUpload, UploadRows, UploadsTypeOK, FinalizersInv, KnowsUpload, Finalizer
<1>3. ReceiptsInv'
  BY DEF AgeUpload, UploadRows, UploadsTypeOK, FinalizersInv, KnowsUpload, ReceiptsInv
<1>4. RowsDecided'
  BY DEF AgeUpload, UploadRows, UploadsTypeOK, FinalizersInv, KnowsUpload, RowsDecided, ReceiptsInv
<1>5. OnePlan'
  BY DEF AgeUpload, UploadRows, UploadsTypeOK, FinalizersInv, KnowsUpload, OnePlan, RowsDecided, ReceiptsInv
<1> QED
  BY <1>1, <1>2, <1>3, <1>4, <1>5 DEF UploadsInv

LEMMA CleanUploadKeeps ==
  ASSUME UploadsInv, NEW u \in Uploads, CleanUpload(u)
  PROVE  UploadsInv'
<1> USE UploadsAssumption DEF UploadsInv, uploadFacts, intakeVars
<1>1. UploadRows'
  <2> DEFINE row == [upload[u] EXCEPT !.state = "cleaned", !.owner = 0, !.lease = "none"]
  <2>0. upload[u] \in UploadRow
    BY DEF UploadRow, UploadRows, UploadsTypeOK
  <2>1. row \in UploadRow /\ row.state = "cleaned" /\ row.owner = 0
    BY <2>0, NobodyOwns DEF UploadRow
  <2>2. upload' = [upload EXCEPT ![u] = row] /\ UNCHANGED <<uploadKind, genuine, takeovers, batch, filed, refused>>
    BY DEF CleanUpload
  <2> HIDE DEF row
  <2> QED
    BY <2>1, <2>2, RowChanges DEF UploadRows, UploadsTypeOK
<1>2. FinalizersInv'
  BY DEF CleanUpload, UploadRows, UploadsTypeOK, FinalizersInv, KnowsUpload, Finalizer
<1>3. ReceiptsInv'
  BY DEF CleanUpload, UploadRows, UploadsTypeOK, FinalizersInv, KnowsUpload, ReceiptsInv
<1>4. RowsDecided'
  BY DEF CleanUpload, UploadRows, UploadsTypeOK, FinalizersInv, KnowsUpload, RowsDecided, ReceiptsInv
<1>5. OnePlan'
  BY DEF CleanUpload, UploadRows, UploadsTypeOK, FinalizersInv, KnowsUpload, OnePlan, RowsDecided, ReceiptsInv
<1> QED
  BY <1>1, <1>2, <1>3, <1>4, <1>5 DEF UploadsInv

LEMMA UploadsInitial == ASSUME UploadsInit PROVE UploadsInv
<1> USE UploadsAssumption DEF UploadsInit, NoUpload, Resting
<1>1. UploadRows
  BY DEF UploadRows, UploadsTypeOK
<1>2. FinalizersInv
  BY DEF FinalizersInv, Finalizer
<1>3. ReceiptsInv /\ RowsDecided /\ OnePlan
  BY DEF ReceiptsInv, RowsDecided, OnePlan
<1> QED
  BY <1>1, <1>2, <1>3 DEF UploadsInv

\* In every reachable state rows, requests and receipts agree about what was decided.
THEOREM UploadsInvariant == UploadsSpec => []UploadsInv
<1>1. UploadsInit => UploadsInv
  BY UploadsInitial
<1>2. UploadsInv /\ [UploadsNext]_uploadsVars => UploadsInv'
  <2> SUFFICES ASSUME UploadsInv, [UploadsNext]_uploadsVars PROVE UploadsInv'
    OBVIOUS
  <2>1. CASE UNCHANGED uploadsVars
    <3>1. UNCHANGED <<uploadKind, genuine, upload, takeovers, batch, filed, refused, finalizer>>
      BY <2>1 DEF uploadsVars, uploadFacts, intakeVars
    <3> QED
      BY <3>1 DEF UploadsInv, UploadRows, UploadsTypeOK, FinalizersInv, KnowsUpload, ReceiptsInv, RowsDecided, OnePlan
  <2>2. ASSUME NEW u \in Uploads,
               (\E plan \in BatchPlans : BindPlan(u, plan) \/ ReserveUpload(u, plan))
                 \/ ReserveUpload(u, Unbound) \/ LapseUpload(u) \/ AgeUpload(u) \/ CleanUpload(u)
        PROVE  UploadsInv'
    BY <2>2, BindPlanKeeps, ReserveUploadKeeps, LapseUploadKeeps, AgeUploadKeeps, CleanUploadKeeps
  <2>3. ASSUME NEW f \in Finalizers,
               (\E u \in Uploads, purpose \in {"verifying", "previewing"} : TakeUpload(f, u, purpose))
                 \/ ReadStaged(f) \/ FileDocument(f) \/ CompleteUpload(f) \/ AcceptBatch(f) \/ BatchFails(f)
                 \/ EndFinalize(f) \/ StopFinalizer(f)
        PROVE  UploadsInv'
    BY <2>3, TakeUploadKeeps, ReadStagedKeeps, FileDocumentKeeps, CompleteUploadKeeps, AcceptBatchKeeps,
       BatchFailsKeeps, EndFinalizeKeeps, StopFinalizerKeeps
  <2> QED
    BY <2>1, <2>2, <2>3 DEF UploadsNext
<1> QED
  BY <1>1, <1>2, PTL DEF UploadsSpec

\* An upload is decided once: a plain one that failed has no document and one that is complete
\* has, though a slower request with a lapsed lease commits meanwhile; the uploads of a request
\* and its receipt have one plan.
THEOREM DecidedOnce == UploadsSpec => []UploadsAreDecidedOnce
<1>1. UploadsInv => UploadsAreDecidedOnce
  <2> SUFFICES ASSUME UploadsInv PROVE UploadsAreDecidedOnce
    OBVIOUS
  <2>1. \A u \in Uploads : uploadKind = "plain" /\ upload[u].state = "failed" => u \notin filed
    BY DEF UploadsInv, ReceiptsInv, RowsDecided, UploadRows, UploadsTypeOK
  <2> QED
    BY <2>1 DEF UploadsInv, ReceiptsInv, RowsDecided, OnePlan, UploadsAreDecidedOnce
<1> QED
  BY <1>1, UploadsInvariant, PTL

-----------------------------------------------------------------------------
(***************************************************************************)
(* SplitSources: types, and that the row and the copy agree, for any       *)
(* number of requests, reconciliations and attempts.                       *)
(***************************************************************************)
\* Where the processes are, and who may hold the write lease.
PlacesInv ==
  /\ writeLease \in [owner : Copiers \cup Cleaners \cup {"none"}, live : BOOLEAN]
  /\ writeLease.live => writeLease.owner # "none"
  /\ copier \in [Copiers -> {"idle", "verifying", "writing", "written", "stored"}]
  /\ cleaner \in [Cleaners -> {"idle", "removing", "removed"}]
  /\ lateCopies \subseteq Copiers /\ {past, held, copy} \subseteq BOOLEAN
  /\ adrift \subseteq {"write", "removal"}

\* The row; a suggestion that made documents is neither cancelled nor processed again.
SuggestionInv ==
  /\ suggestion \in [state : {"uploading", "queued", "processing", "ready", "failed", "cancelled"},
                     attempts : 0..MaxSuggestAttempts, accepted : BOOLEAN, confirmed : BOOLEAN]
  /\ aiLease \in {"none", "live", "expired"} /\ (aiLease # "none" => suggestion.state = "processing")
  /\ worker \in 0..MaxSuggestAttempts
  /\ suggestion.accepted => suggestion.state = "ready" /\ suggestion.confirmed

\* An operation holds the write lease until it is over, and a write that its deadline left behind
\* is covered by that lease until the lease lapses; so does a reconciliation while it removes.
LeaseInv ==
  /\ \A c \in Copiers : copier[c] # "idle" \/ c \in lateCopies => writeLease = Leased(c)
  /\ \A c \in lateCopies : copier[c] = "idle"
  /\ \A m \in Cleaners : cleaner[m] = "removing" => writeLease = Leased(m)

\* There is no copy, or one that a write without a lease put there.
Gone == copy => "write" \in adrift

\* A reconciliation that removed the copy finds it gone as long as its name is on the lease,
\* lapsed or not; and once the key is forgotten it is gone and no operation is there to write one.
GoneInv ==
  /\ \A m \in Cleaners : cleaner[m] = "removed" /\ writeLease.owner = m => Gone
  /\ ~held => Gone /\ \A c \in Copiers : copier[c] = "idle" /\ c \notin lateCopies

\* Neither is ever taken back.
Over == past \/ suggestion.state = "cancelled"

\* Removals are sent only once the suggestion is over; what was read back is there until then.
LiveInv ==
  /\ ~held \/ "removal" \in adrift \/ (\E m \in Cleaners : cleaner[m] # "idle") => Over
  /\ \A c \in Copiers : copier[c] = "stored" => copy \/ Over
  /\ suggestion.state \in {"queued", "processing", "ready"} => copy \/ past

SplitInv == PlacesInv /\ SuggestionInv /\ LeaseInv /\ GoneInv /\ LiveInv

-----------------------------------------------------------------------------
\* The invariant holds initially.
LEMMA SplitInitial == SplitInit => SplitInv
<1> SUFFICES ASSUME SplitInit PROVE SplitInv
  OBVIOUS
<1> USE SplitAssumption DEF SplitInit, NoOne
<1>1. PlacesInv
  BY DEF PlacesInv
<1>2. SuggestionInv
  BY DEF SuggestionInv
<1>3. LeaseInv
  BY DEF LeaseInv
<1>4. GoneInv
  BY DEF GoneInv, Gone
<1>5. LiveInv
  BY DEF LiveInv
<1> QED
  BY <1>1, <1>2, <1>3, <1>4, <1>5 DEF SplitInv

\* Every action preserves the invariant.
LEMMA SplitStep ==
  ASSUME SplitInv, [SplitNext]_splitVars
  PROVE  SplitInv'
<1> USE SplitAssumption DEF SplitInv
<1>1. ASSUME NEW c \in Copiers, BeginCopy(c) PROVE SplitInv'
  <2>1. PlacesInv'
    BY <1>1 DEF BeginCopy, LiveSource, CopyStep, PlacesInv, NoOne, Leased
  <2>2. SuggestionInv'
    BY <1>1 DEF BeginCopy, LiveSource, CopyStep, SuggestionInv, PlacesInv
  <2>3. LeaseInv'
    <3>1. /\ \A d \in Copiers : copier[d] = "idle" /\ d \notin lateCopies
          /\ \A n \in Cleaners : cleaner[n] # "removing"
      BY <1>1 DEF BeginCopy, LiveSource, CopyStep, LeaseInv, PlacesInv, NoOne, Leased
    <3> QED
      BY <1>1, <3>1 DEF BeginCopy, LiveSource, CopyStep, LeaseInv, PlacesInv, NoOne, Leased
  <2>4. GoneInv'
    BY <1>1 DEF BeginCopy, LiveSource, CopyStep, GoneInv, Gone, LeaseInv, PlacesInv, NoOne, Leased
  <2>5. LiveInv'
    BY <1>1 DEF BeginCopy, LiveSource, CopyStep, LiveInv, Over, SuggestionInv, PlacesInv
  <2> QED
    BY <2>1, <2>2, <2>3, <2>4, <2>5 DEF SplitInv
<1>2. ASSUME NEW c \in Copiers, Verified(c) PROVE SplitInv'
  <2>1. PlacesInv'
    BY <1>2 DEF Verified, CopyStep, PlacesInv, NoOne, Leased
  <2>2. SuggestionInv'
    BY <1>2 DEF Verified, CopyStep, SuggestionInv, PlacesInv
  <2>3. LeaseInv'
    BY <1>2 DEF Verified, CopyStep, LeaseInv, PlacesInv, NoOne, Leased
  <2>4. GoneInv'
    BY <1>2 DEF Verified, CopyStep, GoneInv, Gone, LeaseInv, PlacesInv, NoOne, Leased
  <2>5. LiveInv'
    BY <1>2 DEF Verified, CopyStep, LiveInv, Over, SuggestionInv, PlacesInv
  <2> QED
    BY <2>1, <2>2, <2>3, <2>4, <2>5 DEF SplitInv
<1>3. ASSUME NEW c \in Copiers, WriteCopy(c) PROVE SplitInv'
  <2>1. PlacesInv'
    BY <1>3 DEF WriteCopy, CopyStep, PlacesInv, NoOne, Leased
  <2>2. SuggestionInv'
    BY <1>3 DEF WriteCopy, CopyStep, SuggestionInv, PlacesInv
  <2>3. LeaseInv'
    BY <1>3 DEF WriteCopy, CopyStep, LeaseInv, PlacesInv, NoOne, Leased
  <2>4. GoneInv'
    BY <1>3 DEF WriteCopy, CopyStep, GoneInv, Gone, LeaseInv, PlacesInv, NoOne, Leased
  <2>5. LiveInv'
    BY <1>3 DEF WriteCopy, CopyStep, LiveInv, Over, SuggestionInv, PlacesInv
  <2> QED
    BY <2>1, <2>2, <2>3, <2>4, <2>5 DEF SplitInv
<1>4. ASSUME NEW c \in Copiers, QueueSuggestion(c) PROVE SplitInv'
  <2>1. PlacesInv'
    BY <1>4 DEF QueueSuggestion, LiveSource, CopyStep, PlacesInv, NoOne, Leased
  <2>2. SuggestionInv'
    BY <1>4 DEF QueueSuggestion, LiveSource, CopyStep, SuggestionInv, PlacesInv
  <2>3. LeaseInv'
    <3>1. /\ writeLease = Leased(c)
          /\ \A d \in Copiers : d # c => copier[d] = "idle" /\ d \notin lateCopies
          /\ \A n \in Cleaners : n # c => cleaner[n] # "removing"
      BY <1>4 DEF QueueSuggestion, LiveSource, CopyStep, LeaseInv, PlacesInv, NoOne, Leased
    <3> QED
      BY <1>4, <3>1 DEF QueueSuggestion, LiveSource, CopyStep, LeaseInv, PlacesInv, NoOne, Leased
  <2>4. GoneInv'
    BY <1>4 DEF QueueSuggestion, LiveSource, CopyStep, GoneInv, Gone, LeaseInv, PlacesInv, NoOne, Leased
  <2>5. LiveInv'
    BY <1>4 DEF QueueSuggestion, LiveSource, CopyStep, LiveInv, Over, SuggestionInv, PlacesInv
  <2> QED
    BY <2>1, <2>2, <2>3, <2>4, <2>5 DEF SplitInv
<1>5. ASSUME NEW c \in Copiers, CopyFails(c) PROVE SplitInv'
  <2>1. PlacesInv'
    BY <1>5 DEF CopyFails, CopyStep, Released, PlacesInv, NoOne, Leased
  <2>2. SuggestionInv'
    BY <1>5 DEF CopyFails, CopyStep, Released, SuggestionInv, PlacesInv
  <2>3. LeaseInv'
    <3>1. /\ writeLease = Leased(c)
          /\ \A d \in Copiers : d # c => copier[d] = "idle" /\ d \notin lateCopies
          /\ \A n \in Cleaners : n # c => cleaner[n] # "removing"
      BY <1>5 DEF CopyFails, CopyStep, Released, LeaseInv, PlacesInv, NoOne, Leased
    <3> QED
      BY <1>5, <3>1 DEF CopyFails, CopyStep, Released, LeaseInv, PlacesInv, NoOne, Leased
  <2>4. GoneInv'
    BY <1>5 DEF CopyFails, CopyStep, Released, GoneInv, Gone, LeaseInv, PlacesInv, NoOne, Leased
  <2>5. LiveInv'
    <3>1. (copy => copy') /\ ("removal" \in adrift' => "removal" \in adrift)
      BY <1>5 DEF CopyFails, PlacesInv
    <3>2. \A d \in Copiers : copier'[d] = "stored" => copier[d] = "stored"
      BY <1>5 DEF CopyFails, CopyStep, PlacesInv
    <3>3. UNCHANGED <<suggestion, past, held, cleaner>>
      BY <1>5 DEF CopyFails
    <3> QED
      BY <3>1, <3>2, <3>3 DEF LiveInv, Over
  <2> QED
    BY <2>1, <2>2, <2>3, <2>4, <2>5 DEF SplitInv
<1>6. ASSUME NEW c \in Copiers, CopyTimesOut(c) PROVE SplitInv'
  <2>1. PlacesInv'
    BY <1>6 DEF CopyTimesOut, CopyStep, Released, PlacesInv, NoOne, Leased
  <2>2. SuggestionInv'
    BY <1>6 DEF CopyTimesOut, CopyStep, Released, SuggestionInv, PlacesInv
  <2>3. LeaseInv'
    BY <1>6 DEF CopyTimesOut, CopyStep, Released, LeaseInv, PlacesInv, NoOne, Leased
  <2>4. GoneInv'
    BY <1>6 DEF CopyTimesOut, CopyStep, Released, GoneInv, Gone, LeaseInv, PlacesInv, NoOne, Leased
  <2>5. LiveInv'
    BY <1>6 DEF CopyTimesOut, CopyStep, Released, LiveInv, Over, SuggestionInv, PlacesInv
  <2> QED
    BY <2>1, <2>2, <2>3, <2>4, <2>5 DEF SplitInv
<1>7. ASSUME NEW c \in Copiers, LateCopy(c) PROVE SplitInv'
  <2>1. PlacesInv'
    BY <1>7 DEF LateCopy, PlacesInv, NoOne, Leased
  <2>2. SuggestionInv'
    BY <1>7 DEF LateCopy, SuggestionInv, PlacesInv
  <2>3. LeaseInv'
    BY <1>7 DEF LateCopy, LeaseInv, PlacesInv, NoOne, Leased
  <2>4. GoneInv'
    BY <1>7 DEF LateCopy, GoneInv, Gone, LeaseInv, PlacesInv, NoOne, Leased
  <2>5. LiveInv'
    <3>1. UNCHANGED <<suggestion, past, held, copier, adrift, cleaner>>
      BY <1>7 DEF LateCopy
    <3>2. copy => copy'
      BY <1>7 DEF LateCopy
    <3> QED
      BY <3>1, <3>2 DEF LiveInv, Over
  <2> QED
    BY <2>1, <2>2, <2>3, <2>4, <2>5 DEF SplitInv
<1>8. ASSUME NEW m \in Cleaners, TakeExpired(m) PROVE SplitInv'
  <2>1. PlacesInv'
    BY <1>8 DEF TakeExpired, CleanStep, PlacesInv, NoOne, Leased
  <2>2. SuggestionInv'
    BY <1>8 DEF TakeExpired, CleanStep, SuggestionInv, PlacesInv
  <2>3. LeaseInv'
    <3>1. /\ \A d \in Copiers : copier[d] = "idle" /\ d \notin lateCopies
          /\ \A n \in Cleaners : cleaner[n] # "removing"
      BY <1>8 DEF TakeExpired, CleanStep, LeaseInv, PlacesInv, NoOne, Leased
    <3> QED
      BY <1>8, <3>1 DEF TakeExpired, CleanStep, LeaseInv, PlacesInv, NoOne, Leased
  <2>4. GoneInv'
    BY <1>8 DEF TakeExpired, CleanStep, GoneInv, Gone, LeaseInv, PlacesInv, NoOne, Leased
  <2>5. LiveInv'
    BY <1>8 DEF TakeExpired, CleanStep, LiveInv, Over, SuggestionInv, PlacesInv
  <2> QED
    BY <2>1, <2>2, <2>3, <2>4, <2>5 DEF SplitInv
<1>9. ASSUME NEW m \in Cleaners, RemoveCopy(m) PROVE SplitInv'
  <2>1. PlacesInv'
    BY <1>9 DEF RemoveCopy, CleanStep, PlacesInv, NoOne, Leased
  <2>2. SuggestionInv'
    BY <1>9 DEF RemoveCopy, CleanStep, SuggestionInv, PlacesInv
  <2>3. LeaseInv'
    BY <1>9 DEF RemoveCopy, CleanStep, LeaseInv, PlacesInv, NoOne, Leased
  <2>4. GoneInv'
    BY <1>9 DEF RemoveCopy, CleanStep, GoneInv, Gone, LeaseInv, PlacesInv, NoOne, Leased
  <2>5. LiveInv'
    BY <1>9 DEF RemoveCopy, CleanStep, LiveInv, Over, SuggestionInv, PlacesInv
  <2> QED
    BY <2>1, <2>2, <2>3, <2>4, <2>5 DEF SplitInv
<1>10. ASSUME NEW m \in Cleaners, ForgetCopy(m) PROVE SplitInv'
  <2>1. PlacesInv'
    BY <1>10 DEF ForgetCopy, CleanStep, Released, PlacesInv, NoOne, Leased
  <2>2. SuggestionInv'
    BY <1>10 DEF ForgetCopy, CleanStep, Released, SuggestionInv, PlacesInv
  <2>3. LeaseInv'
    <3>1. CASE writeLease.owner # m
      BY <1>10, <3>1 DEF ForgetCopy, CleanStep, Released, LeaseInv, PlacesInv, NoOne, Leased
    <3>2. CASE writeLease.owner = m
      <4>1. /\ \A d \in Copiers : copier[d] = "idle" /\ d \notin lateCopies
            /\ \A n \in Cleaners : n # m => cleaner[n] # "removing"
        BY <3>2 DEF ForgetCopy, CleanStep, Released, LeaseInv, PlacesInv, NoOne, Leased
      <4> QED
        BY <1>10, <3>2, <4>1 DEF ForgetCopy, CleanStep, Released, LeaseInv, PlacesInv, NoOne, Leased
    <3> QED
      BY <3>1, <3>2
  <2>4. GoneInv'
    BY <1>10 DEF ForgetCopy, CleanStep, Released, GoneInv, Gone, LeaseInv, PlacesInv, NoOne, Leased
  <2>5. LiveInv'
    BY <1>10 DEF ForgetCopy, CleanStep, Released, LiveInv, Over, SuggestionInv, PlacesInv
  <2> QED
    BY <2>1, <2>2, <2>3, <2>4, <2>5 DEF SplitInv
<1>11. ASSUME NEW m \in Cleaners, CleaningFails(m) PROVE SplitInv'
  <2>1. PlacesInv'
    <3> PICK aborted \in BOOLEAN : Released(m, aborted)
      BY <1>11 DEF CleaningFails
    <3>1. CASE aborted \/ writeLease.owner # m
      <4>1. UNCHANGED writeLease
        BY <3>1 DEF Released
      <4> QED
        BY <1>11, <4>1 DEF CleaningFails, CleanStep, Released, PlacesInv, NoOne, Leased
    <3>2. CASE ~aborted /\ writeLease.owner = m
      <4>1. writeLease' = NoOne
        BY <3>2 DEF Released
      <4>2. writeLease' \in [owner : Copiers \cup Cleaners \cup {"none"}, live : BOOLEAN] /\ ~writeLease'.live
        BY <4>1 DEF NoOne
      <4> QED
        BY <1>11, <4>2 DEF CleaningFails, CleanStep, PlacesInv
    <3> QED
      BY <3>1, <3>2
  <2>2. SuggestionInv'
    BY <1>11 DEF CleaningFails, CleanStep, Released, SuggestionInv, PlacesInv
  <2>3. LeaseInv'
    <3> PICK aborted \in BOOLEAN : Released(m, aborted)
      BY <1>11 DEF CleaningFails
    <3>1. CASE aborted \/ writeLease.owner # m
      <4>1. UNCHANGED writeLease
        BY <3>1 DEF Released
      <4> QED
        BY <1>11, <4>1 DEF CleaningFails, CleanStep, Released, LeaseInv, PlacesInv, NoOne, Leased
    <3>2. CASE ~aborted /\ writeLease.owner = m
      <4>1. writeLease' = NoOne
        BY <3>2 DEF Released
      <4>2. /\ \A d \in Copiers : copier[d] = "idle" /\ d \notin lateCopies
            /\ \A n \in Cleaners : n # m => cleaner[n] # "removing"
        BY <1>11, <3>2 DEF CleaningFails, CleanStep, Released, LeaseInv, PlacesInv, NoOne, Leased
      <4> QED
        BY <1>11, <3>2, <4>1, <4>2 DEF CleaningFails, CleanStep, Released, LeaseInv, PlacesInv, NoOne, Leased
    <3> QED
      BY <3>1, <3>2
  <2>4. GoneInv'
    <3>1. /\ held' = held /\ copier' = copier /\ lateCopies' = lateCopies
          /\ copy' \in {copy, FALSE} /\ adrift \subseteq adrift' /\ cleaner' = [cleaner EXCEPT ![m] = "idle"]
      BY <1>11 DEF CleaningFails, CleanStep
    <3>2. writeLease' = writeLease \/ writeLease' = NoOne
      BY <1>11 DEF CleaningFails, Released
    <3>3. \A n \in Cleaners : n # "none"
      OBVIOUS
    <3>4. copy \in BOOLEAN /\ held \in BOOLEAN /\ cleaner'[m] = "idle"
          /\ \A n \in Cleaners : n # m => cleaner'[n] = cleaner[n]
      BY <3>1 DEF PlacesInv
    <3>5. CASE copy' = copy
      <4>1. Gone => Gone'
        BY <3>1, <3>5 DEF Gone
      <4>2. writeLease'.owner = writeLease.owner \/ writeLease'.owner = "none"
        BY <3>2 DEF NoOne
      <4> QED
        BY <3>1, <3>3, <3>4, <4>1, <4>2 DEF GoneInv
    <3>6. CASE ~copy'
      BY <3>1, <3>4, <3>6 DEF GoneInv, Gone
    <3> QED
      BY <3>1, <3>4, <3>5, <3>6
  <2>5. LiveInv'
    BY <1>11 DEF CleaningFails, CleanStep, Released, LiveInv, Over, SuggestionInv, PlacesInv
  <2> QED
    BY <2>1, <2>2, <2>3, <2>4, <2>5 DEF SplitInv
<1>12. CASE LapseWriteLease
  <2>1. PlacesInv'
    BY <1>12 DEF LapseWriteLease, PlacesInv, NoOne, Leased
  <2>2. SuggestionInv'
    BY <1>12 DEF LapseWriteLease, SuggestionInv, PlacesInv
  <2>3. LeaseInv'
    BY <1>12 DEF LapseWriteLease, LeaseInv, PlacesInv, NoOne, Leased
  <2>4. GoneInv'
    BY <1>12 DEF LapseWriteLease, GoneInv, Gone, LeaseInv, PlacesInv, NoOne, Leased
  <2>5. LiveInv'
    BY <1>12 DEF LapseWriteLease, LiveInv, Over, SuggestionInv, PlacesInv
  <2> QED
    BY <2>1, <2>2, <2>3, <2>4, <2>5 DEF SplitInv
<1>13. CASE RecoverSuggestion
  <2>1. PlacesInv'
    BY <1>13 DEF RecoverSuggestion, PlacesInv, NoOne, Leased
  <2>2. SuggestionInv'
    BY <1>13 DEF RecoverSuggestion, SuggestionInv, PlacesInv
  <2>3. LeaseInv'
    BY <1>13 DEF RecoverSuggestion, LeaseInv, PlacesInv, NoOne, Leased
  <2>4. GoneInv'
    BY <1>13 DEF RecoverSuggestion, GoneInv, Gone, LeaseInv, PlacesInv, NoOne, Leased
  <2>5. LiveInv'
    BY <1>13 DEF RecoverSuggestion, LiveInv, Over, SuggestionInv, PlacesInv
  <2> QED
    BY <2>1, <2>2, <2>3, <2>4, <2>5 DEF SplitInv
<1>14. CASE ClaimSuggestion
  <2>1. PlacesInv'
    BY <1>14 DEF ClaimSuggestion, PlacesInv, NoOne, Leased
  <2>2. SuggestionInv'
    <3>1. suggestion' = [suggestion EXCEPT !.state = "processing", !.attempts = suggestion.attempts + 1]
          /\ suggestion.attempts + 1 \in 0..MaxSuggestAttempts /\ suggestion.state = "queued"
      BY <1>14 DEF ClaimSuggestion, SuggestionInv, PlacesInv
    <3>2. suggestion' = [state |-> "processing", attempts |-> suggestion.attempts + 1,
                         accepted |-> suggestion.accepted, confirmed |-> suggestion.confirmed]
      BY <3>1 DEF SuggestionInv
    <3> QED
      BY <1>14, <3>1, <3>2 DEF ClaimSuggestion, SuggestionInv, PlacesInv
  <2>3. LeaseInv'
    BY <1>14 DEF ClaimSuggestion, LeaseInv, PlacesInv, NoOne, Leased
  <2>4. GoneInv'
    BY <1>14 DEF ClaimSuggestion, GoneInv, Gone, LeaseInv, PlacesInv, NoOne, Leased
  <2>5. LiveInv'
    BY <1>14 DEF ClaimSuggestion, LiveInv, Over, SuggestionInv, PlacesInv
  <2> QED
    BY <2>1, <2>2, <2>3, <2>4, <2>5 DEF SplitInv
<1>15. CASE SettleSuggestion
  <2>1. PlacesInv'
    BY <1>15 DEF SettleSuggestion, OwnsAttempt, PlacesInv, NoOne, Leased
  <2>2. SuggestionInv'
    BY <1>15 DEF SettleSuggestion, OwnsAttempt, SuggestionInv, PlacesInv
  <2>3. LeaseInv'
    BY <1>15 DEF SettleSuggestion, OwnsAttempt, LeaseInv, PlacesInv, NoOne, Leased
  <2>4. GoneInv'
    BY <1>15 DEF SettleSuggestion, OwnsAttempt, GoneInv, Gone, LeaseInv, PlacesInv, NoOne, Leased
  <2>5. LiveInv'
    BY <1>15 DEF SettleSuggestion, OwnsAttempt, LiveInv, Over, SuggestionInv, PlacesInv
  <2> QED
    BY <2>1, <2>2, <2>3, <2>4, <2>5 DEF SplitInv
<1>16. CASE LapseAiLease
  <2>1. PlacesInv'
    BY <1>16 DEF LapseAiLease, PlacesInv, NoOne, Leased
  <2>2. SuggestionInv'
    BY <1>16 DEF LapseAiLease, SuggestionInv, PlacesInv
  <2>3. LeaseInv'
    BY <1>16 DEF LapseAiLease, LeaseInv, PlacesInv, NoOne, Leased
  <2>4. GoneInv'
    BY <1>16 DEF LapseAiLease, GoneInv, Gone, LeaseInv, PlacesInv, NoOne, Leased
  <2>5. LiveInv'
    BY <1>16 DEF LapseAiLease, LiveInv, Over, SuggestionInv, PlacesInv
  <2> QED
    BY <2>1, <2>2, <2>3, <2>4, <2>5 DEF SplitInv
<1>17. CASE CancelSuggestion
  <2>1. PlacesInv'
    BY <1>17 DEF CancelSuggestion, PlacesInv, NoOne, Leased
  <2>2. SuggestionInv'
    BY <1>17 DEF CancelSuggestion, SuggestionInv, PlacesInv
  <2>3. LeaseInv'
    BY <1>17 DEF CancelSuggestion, LeaseInv, PlacesInv, NoOne, Leased
  <2>4. GoneInv'
    BY <1>17 DEF CancelSuggestion, GoneInv, Gone, LeaseInv, PlacesInv, NoOne, Leased
  <2>5. LiveInv'
    BY <1>17 DEF CancelSuggestion, LiveInv, Over, SuggestionInv, PlacesInv
  <2> QED
    BY <2>1, <2>2, <2>3, <2>4, <2>5 DEF SplitInv
<1>18. CASE ConfirmSuggestion
  <2>1. PlacesInv'
    BY <1>18 DEF ConfirmSuggestion, Creatable, PlacesInv, NoOne, Leased
  <2>2. SuggestionInv'
    BY <1>18 DEF ConfirmSuggestion, Creatable, SuggestionInv, PlacesInv
  <2>3. LeaseInv'
    BY <1>18 DEF ConfirmSuggestion, Creatable, LeaseInv, PlacesInv, NoOne, Leased
  <2>4. GoneInv'
    BY <1>18 DEF ConfirmSuggestion, Creatable, GoneInv, Gone, LeaseInv, PlacesInv, NoOne, Leased
  <2>5. LiveInv'
    BY <1>18 DEF ConfirmSuggestion, Creatable, LiveInv, Over, SuggestionInv, PlacesInv
  <2> QED
    BY <2>1, <2>2, <2>3, <2>4, <2>5 DEF SplitInv
<1>19. ASSUME NEW accepted \in BOOLEAN, CompleteSplit(accepted) PROVE SplitInv'
  <2>1. PlacesInv'
    BY <1>19 DEF CompleteSplit, Creatable, PlacesInv, NoOne, Leased
  <2>2. SuggestionInv'
    BY <1>19 DEF CompleteSplit, Creatable, SuggestionInv, PlacesInv
  <2>3. LeaseInv'
    BY <1>19 DEF CompleteSplit, Creatable, LeaseInv, PlacesInv, NoOne, Leased
  <2>4. GoneInv'
    BY <1>19 DEF CompleteSplit, Creatable, GoneInv, Gone, LeaseInv, PlacesInv, NoOne, Leased
  <2>5. LiveInv'
    BY <1>19 DEF CompleteSplit, Creatable, LiveInv, Over, SuggestionInv, PlacesInv
  <2> QED
    BY <2>1, <2>2, <2>3, <2>4, <2>5 DEF SplitInv
<1>20. CASE ExpireSuggestion
  <2>1. PlacesInv'
    BY <1>20 DEF ExpireSuggestion, PlacesInv, NoOne, Leased
  <2>2. SuggestionInv'
    BY <1>20 DEF ExpireSuggestion, SuggestionInv, PlacesInv
  <2>3. LeaseInv'
    BY <1>20 DEF ExpireSuggestion, LeaseInv, PlacesInv, NoOne, Leased
  <2>4. GoneInv'
    BY <1>20 DEF ExpireSuggestion, GoneInv, Gone, LeaseInv, PlacesInv, NoOne, Leased
  <2>5. LiveInv'
    BY <1>20 DEF ExpireSuggestion, LiveInv, Over, SuggestionInv, PlacesInv
  <2> QED
    BY <2>1, <2>2, <2>3, <2>4, <2>5 DEF SplitInv
<1>21. CASE UNCHANGED splitVars
  <2>1. PlacesInv'
    BY <1>21 DEF splitVars, PlacesInv, NoOne, Leased
  <2>2. SuggestionInv'
    BY <1>21 DEF splitVars, SuggestionInv, PlacesInv
  <2>3. LeaseInv'
    BY <1>21 DEF splitVars, LeaseInv, PlacesInv, NoOne, Leased
  <2>4. GoneInv'
    BY <1>21 DEF splitVars, GoneInv, Gone, LeaseInv, PlacesInv, NoOne, Leased
  <2>5. LiveInv'
    BY <1>21 DEF splitVars, LiveInv, Over, SuggestionInv, PlacesInv
  <2> QED
    BY <2>1, <2>2, <2>3, <2>4, <2>5 DEF SplitInv
<1>22. ASSUME NEW c \in Copiers, ReadBack(c) PROVE SplitInv'
  <2>1. PlacesInv'
    BY <1>22 DEF ReadBack, CopyStep, PlacesInv
  <2>2. SuggestionInv'
    BY <1>22 DEF ReadBack, SuggestionInv
  <2>3. LeaseInv'
    BY <1>22 DEF ReadBack, CopyStep, LeaseInv, PlacesInv
  <2>4. GoneInv'
    BY <1>22 DEF ReadBack, CopyStep, GoneInv, Gone, PlacesInv
  <2>5. LiveInv'
    BY <1>22 DEF ReadBack, CopyStep, LiveInv, Over, PlacesInv
  <2> QED
    BY <2>1, <2>2, <2>3, <2>4, <2>5 DEF SplitInv
<1>23. CASE ApplyAdrift
  <2>1. PlacesInv'
    BY <1>23 DEF ApplyAdrift, PlacesInv
  <2>2. SuggestionInv'
    BY <1>23 DEF ApplyAdrift, SuggestionInv
  <2>3. LeaseInv'
    BY <1>23 DEF ApplyAdrift, LeaseInv
  <2>4. GoneInv'
    BY <1>23 DEF ApplyAdrift, GoneInv, Gone, PlacesInv
  <2>5. LiveInv'
    BY <1>23 DEF ApplyAdrift, LiveInv, Over, PlacesInv
  <2> QED
    BY <2>1, <2>2, <2>3, <2>4, <2>5 DEF SplitInv
<1> QED
  BY <1>1, <1>2, <1>3, <1>4, <1>5, <1>6, <1>7, <1>8, <1>9, <1>10, <1>11, <1>12, <1>13, <1>14, <1>15, <1>16, <1>17, <1>18, <1>19, <1>20, <1>21, <1>22, <1>23 DEF SplitNext

\* The invariant holds in every reachable state.
THEOREM SplitReached == SplitSpec => []SplitInv
<1>1. SplitInv /\ [SplitNext]_splitVars => SplitInv'
  BY SplitStep
<1> QED
  BY SplitInitial, <1>1, PTL DEF SplitSpec

\* Types; a suggestion that made documents is neither cancelled nor processed again.
THEOREM SplitTypes == SplitSpec => []SplitTypeOK
<1>1. SplitInv => SplitTypeOK
  BY DEF SplitInv, PlacesInv, SuggestionInv, SplitTypeOK
<1> QED
  BY SplitReached, <1>1, PTL

\* Bytes are released only after physical deletion: a copy that outlives its key was put there by
\* a write that outlived its lease, and nobody works under an older one. The forgetting transaction
\* checks the owner and not the clock; that is enough, because nobody writes under another's lease.
\* A suggestion that is not over keeps its copy, whatever removals are applied late.
THEOREM RowAndCopyAgree == SplitSpec => []CopyMatchesRow
<1>1. SplitInv => ReleasedIsGone
  BY DEF SplitInv, GoneInv, Gone, PlacesInv, ReleasedIsGone
<1>2. SplitInv => LiveIsStored
  <2>1. SplitInv /\ suggestion.state \in {"queued", "processing", "ready"} /\ ~past => ~Over
    BY DEF Over
  <2> QED
    BY <2>1 DEF SplitInv, LiveInv, PlacesInv, LiveIsStored
<1>3. SplitInv => CopyMatchesRow
  BY <1>1, <1>2 DEF CopyMatchesRow
<1> QED
  BY SplitReached, <1>3, PTL

-----------------------------------------------------------------------------
(***************************************************************************)
(* RestoreActivation: what services run on is one whole backup that was    *)
(* activated, for any number of operators, backups and originals.          *)
(***************************************************************************)
\* What a command has verified stays whole.
VerifiedInv ==
  \A o \in Operators, b \in Backups : command[o].step \in {"record", "unlink"} /\ command[o].backup = b => Whole(b)

\* A command that removes the marker knows of a receipt for its backup.
RecordedInv ==
  \A o \in Operators : command[o].step = "unlink" \/ (command[o].step = "verify" /\ command[o].recorded) =>
    activation = command[o].backup

\* While a restore can still load the database, its marker is there.
MarkedInv == database = "fresh" => \A o \in Operators : command[o].step \in {"copy", "load"} => marker # "absent"

Activated(b) == activation = b /\ Whole(b)

\* A loaded database without a marker is part of a whole backup that was activated.
ActiveInv == database # "fresh" /\ (marker = "absent" \/ inUse) => Activated(database)

RestoreInv == RestoreTypeOK /\ VerifiedInv /\ RecordedInv /\ MarkedInv /\ ActiveInv /\ (inUse => database # "fresh")

\* No step of a command or a service takes anything from a backup that is whole: files are only
\* created, and a loaded database is not loaded again.
LEMMA WholeStaysWhole ==
  ASSUME RestoreTypeOK, RestoreNext, NEW b \in Backups, Whole(b)
  PROVE  Whole(b)'
<1>1. b \notin {"absent", "torn", "fresh"}
  BY RestoreAssumption
<1>2. contents' = contents /\ secret' = b /\ database' = b
  BY <1>1 DEF RestoreNext, OperatorStep, Serve, Restore, WriteMarker, CopyObject, WriteKey, Load, Activate, Verify,
     Record, Unlink, Abandon, Creates, Whole
<1>3. ASSUME NEW k \in Keys, placed[k] = "whole"
      PROVE  placed'[k] = "whole"
  BY <1>3 DEF RestoreNext, OperatorStep, Serve, Restore, WriteMarker, CopyObject, WriteKey, Load, Activate, Verify,
     Record, Unlink, Abandon, RestoreTypeOK
<1>. QED
  BY <1>2, <1>3 DEF Whole, RestoreTypeOK

\* A receipt is never replaced.
LEMMA ReceiptStays ==
  ASSUME RestoreTypeOK, RestoreNext, activation # "absent"
  PROVE  activation' = activation
BY DEF RestoreNext, OperatorStep, Serve, Restore, WriteMarker, CopyObject, WriteKey, Load, Activate, Verify, Record,
   Unlink, Abandon, Creates

\* Every step keeps files, rows and commands what they may be.
LEMMA RestoreTypeStep ==
  ASSUME RestoreTypeOK, RestoreNext
  PROVE  RestoreTypeOK'
<1>1. CASE Serve
  BY <1>1 DEF Serve, RestoreTypeOK
<1>2. ASSUME NEW o \in Operators, OperatorStep(o)
      PROVE  RestoreTypeOK'
  <2>1. ASSUME NEW b \in Backups, Restore(o, b)
        PROVE  RestoreTypeOK'
    BY <2>1 DEF Restore, RestoreTypeOK, Steps
  <2>2. ASSUME NEW b \in Backups, Activate(o, b)
        PROVE  RestoreTypeOK'
    BY <2>2 DEF Activate, RestoreTypeOK, Steps
  <2>3. CASE WriteMarker(o)
    BY <2>3 DEF WriteMarker, Creates, At, Goes, Finishes, Idle, RestoreTypeOK, Steps
  <2>4. ASSUME NEW k \in Keys, CopyObject(o, k)
        PROVE  RestoreTypeOK'
    BY <2>4 DEF CopyObject, At, Finishes, Idle, RestoreTypeOK, Steps
  <2>5. CASE WriteKey(o)
    BY <2>5 DEF WriteKey, Creates, At, Goes, Finishes, Idle, RestoreTypeOK, Steps
  <2>6. CASE Load(o)
    BY <2>6 DEF Load, At, Finishes, Idle, RestoreTypeOK, Steps
  <2>7. CASE Verify(o)
    BY <2>7 DEF Verify, At, Goes, RestoreTypeOK, Steps
  <2>8. CASE Record(o)
    BY <2>8 DEF Record, Creates, At, Goes, Finishes, Idle, RestoreTypeOK, Steps
  <2>9. CASE Unlink(o) \/ Abandon(o)
    BY <2>9 DEF Unlink, Abandon, At, Finishes, Idle, RestoreTypeOK, Steps
  <2>. QED
    BY <1>2, <2>1, <2>2, <2>3, <2>4, <2>5, <2>6, <2>7, <2>8, <2>9 DEF OperatorStep
<1>. QED
  BY <1>1, <1>2 DEF RestoreNext

\* A command that records or removes the marker has verified a backup that is whole still.
LEMMA VerifiedStep ==
  ASSUME RestoreInv, RestoreNext
  PROVE  VerifiedInv'
<1>. SUFFICES ASSUME NEW p \in Operators, NEW b \in Backups,
                     command'[p].step \in {"record", "unlink"}, command'[p].backup = b
              PROVE  Whole(b)'
  BY DEF VerifiedInv
<1>1. RestoreTypeOK
  BY DEF RestoreInv
<1>2. CASE command[p].step \in {"record", "unlink"} /\ command[p].backup = b
  BY <1>1, <1>2, WholeStaysWhole DEF RestoreInv, VerifiedInv
<1>3. CASE ~(command[p].step \in {"record", "unlink"} /\ command[p].backup = b)
  <2>1. PICK o \in Operators : OperatorStep(o)
    BY <1>3 DEF RestoreNext, Serve
  <2>2. o = p /\ Verify(p)
    BY <1>1, <1>3, <2>1 DEF OperatorStep, Restore, WriteMarker, CopyObject, WriteKey, Load, Activate, Verify, Record,
       Unlink, Abandon, Creates, At, Goes, Finishes, Idle, RestoreTypeOK, Steps
  <2>3. Whole(b)
    BY <1>1, <2>2 DEF Verify, Restored, Whole, Goes, At, RestoreTypeOK, Steps
  <2>. QED
    BY <1>1, <2>3, WholeStaysWhole
<1>. QED
  BY <1>2, <1>3

\* A command comes to remove the marker over a receipt that it read or wrote.
LEMMA RecordedStep ==
  ASSUME RestoreInv, RestoreNext
  PROVE  RecordedInv'
<1>. DEFINE Knows(c) == c.step = "unlink" \/ (c.step = "verify" /\ c.recorded)
<1>. SUFFICES ASSUME NEW p \in Operators, Knows(command'[p])
              PROVE  activation' = command'[p].backup
  BY DEF RecordedInv
<1>1. RestoreTypeOK /\ {"absent", "torn", "fresh"} \cap Backups = {}
  BY RestoreAssumption DEF RestoreInv
<1>2. CASE command'[p] = command[p]
  <2>1. activation = command[p].backup
    BY <1>2 DEF RestoreInv, RecordedInv
  <2>2. command[p].backup \in Backups
    BY <1>1, <1>2 DEF RestoreTypeOK, Steps
  <2>. QED
    BY <1>1, <1>2, <2>1, <2>2, ReceiptStays
<1>3. CASE command'[p] # command[p]
  <2>1. PICK o \in Operators : OperatorStep(o)
    BY <1>3 DEF RestoreNext, Serve
  <2>2. o = p /\ (Verify(p) \/ Record(p) \/ \E b \in Backups : Activate(p, b))
    BY <1>1, <1>3, <2>1 DEF OperatorStep, Restore, WriteMarker, CopyObject, WriteKey, Load, Activate, Verify, Record,
       Unlink, Abandon, Creates, At, Goes, Finishes, Idle, RestoreTypeOK, Steps
  <2>3. ASSUME NEW b \in Backups, Activate(p, b)
        PROVE  activation' = command'[p].backup
    BY <1>1, <2>3 DEF Activate, RestoreTypeOK, Steps
  <2>4. CASE Verify(p)
    BY <1>1, <2>4 DEF Verify, At, Goes, RestoreInv, RecordedInv, RestoreTypeOK, Steps
  <2>5. CASE Record(p)
    BY <1>1, <2>5 DEF Record, Creates, At, Goes, Finishes, Idle, RestoreTypeOK, Steps
  <2>. QED
    BY <2>2, <2>3, <2>4, <2>5
<1>. QED
  BY <1>2, <1>3

\* The marker outlives every restore that has not loaded the database.
LEMMA MarkedStep ==
  ASSUME RestoreInv, RestoreNext
  PROVE  MarkedInv'
<1>. SUFFICES ASSUME database' = "fresh", NEW p \in Operators, command'[p].step \in {"copy", "load"}
              PROVE  marker' # "absent"
  BY DEF MarkedInv
<1>1. RestoreTypeOK /\ {"absent", "torn", "fresh"} \cap Backups = {}
  BY RestoreAssumption DEF RestoreInv
<1>2. database = "fresh"
  BY <1>1 DEF RestoreNext, OperatorStep, Serve, Restore, WriteMarker, CopyObject, WriteKey, Load, Activate, Verify,
     Record, Unlink, Abandon, RestoreTypeOK, Steps, At
<1>3. CASE marker = "absent"
  <2>1. command[p].step \notin {"copy", "load"}
    BY <1>2, <1>3 DEF RestoreInv, MarkedInv
  <2>2. PICK o \in Operators : OperatorStep(o)
    BY <2>1 DEF RestoreNext, Serve
  <2>3. WriteMarker(p)
    BY <1>1, <2>1, <2>2 DEF OperatorStep, Restore, WriteMarker, CopyObject, WriteKey, Load, Activate, Verify, Record,
       Unlink, Abandon, Creates, At, Goes, Finishes, Idle, RestoreTypeOK, Steps
  <2>. QED
    BY <1>1, <2>3 DEF WriteMarker, At, RestoreTypeOK, Steps
<1>4. CASE marker # "absent"
  <2>1. ASSUME NEW o \in Operators, Unlink(o)
        PROVE  FALSE
    BY <1>1, <1>2, <2>1 DEF Unlink, At, RestoreInv, VerifiedInv, Whole, RestoreTypeOK, Steps
  <2>. QED
    BY <1>1, <1>4, <2>1 DEF RestoreNext, OperatorStep, Serve, Restore, WriteMarker, CopyObject, WriteKey, Load, Activate,
       Verify, Record, Abandon, At, RestoreTypeOK, Steps
<1>. QED
  BY <1>3, <1>4

\* The marker is removed, and services start, only over a whole backup that was
\* activated.
LEMMA ActiveStep ==
  ASSUME RestoreInv, RestoreNext
  PROVE  ActiveInv' /\ (inUse' => database' # "fresh")
<1>1. RestoreTypeOK /\ {"absent", "torn", "fresh"} \cap Backups = {}
  BY RestoreAssumption DEF RestoreInv
<1>2. CASE database # "fresh"
  <2>1. database' = database /\ database \in Backups
    BY <1>1, <1>2 DEF RestoreNext, OperatorStep, Serve, Restore, WriteMarker, CopyObject, WriteKey, Load, Activate,
       Verify, Record, Unlink, Abandon, RestoreTypeOK
  <2>2. CASE Activated(database)
    <3>1. Whole(database)'
      BY <1>1, <2>1, <2>2, WholeStaysWhole DEF Activated
    <3>2. activation' = activation
      BY <1>1, <2>1, <2>2, ReceiptStays DEF Activated
    <3>. QED
      BY <1>2, <2>1, <2>2, <3>1, <3>2 DEF ActiveInv, Activated, Whole
  <2>3. CASE ~Activated(database)
    <3>1. marker # "absent" /\ ~inUse
      BY <1>2, <2>3 DEF RestoreInv, ActiveInv
    <3>2. ASSUME NEW o \in Operators, Unlink(o)
          PROVE  FALSE
      <4>1. Whole(command[o].backup)
        BY <1>1, <3>2 DEF Unlink, At, RestoreInv, VerifiedInv, RestoreTypeOK, Steps
      <4>2. activation = command[o].backup
        BY <3>2 DEF Unlink, At, RestoreInv, RecordedInv
      <4>. QED
        BY <2>3, <4>1, <4>2 DEF Activated, Whole
    <3>3. marker' # "absent" /\ ~inUse'
      BY <1>1, <3>1, <3>2 DEF RestoreNext, OperatorStep, Serve, MayServe, Restore, WriteMarker, CopyObject, WriteKey,
         Load, Activate, Verify, Record, Abandon, At, RestoreTypeOK, Steps
    <3>. QED
      BY <1>2, <2>1, <3>3 DEF ActiveInv
  <2>. QED
    BY <2>2, <2>3
<1>3. CASE database = "fresh"
  <2>1. ~inUse
    BY <1>3 DEF RestoreInv
  <2>2. ~inUse'
    BY <1>3, <2>1 DEF RestoreNext, OperatorStep, Serve, Restore, WriteMarker, CopyObject, WriteKey, Load, Activate,
       Verify, Record, Unlink, Abandon
  <2>3. ASSUME database' # "fresh"
        PROVE  marker' # "absent"
    <3>1. PICK o \in Operators : Load(o)
      BY <1>3, <2>3 DEF RestoreNext, OperatorStep, Serve, Restore, WriteMarker, CopyObject, WriteKey, Activate,
         Verify, Record, Unlink, Abandon
    <3>. QED
      BY <1>3, <3>1 DEF Load, At, RestoreInv, MarkedInv
  <2>. QED
    BY <2>2, <2>3 DEF ActiveInv
<1>. QED
  BY <1>2, <1>3

\* A state with the invariant keeps it through every step.
THEOREM RestoreInvariant == RestoreSpec => []RestoreInv
<1>1. RestoreInit => RestoreInv
  <2>. SUFFICES ASSUME RestoreInit
                PROVE  RestoreInv
    OBVIOUS
  <2>1. RestoreTypeOK
    BY DEF RestoreInit, RestoreTypeOK, Idle, Steps
  <2>2. \A o \in Operators : command[o].step = "none"
    BY DEF RestoreInit, Idle
  <2>. QED
    BY <2>1, <2>2 DEF RestoreInit, RestoreInv, VerifiedInv, RecordedInv, MarkedInv, ActiveInv
<1>2. RestoreInv /\ [RestoreNext]_restoreVars => RestoreInv'
  <2>. SUFFICES ASSUME RestoreInv, [RestoreNext]_restoreVars
                PROVE  RestoreInv'
    OBVIOUS
  <2>1. CASE RestoreNext
    BY <2>1, RestoreTypeStep, VerifiedStep, RecordedStep, MarkedStep, ActiveStep DEF RestoreInv
  <2>2. CASE UNCHANGED restoreVars
    BY <2>2 DEF restoreVars, RestoreInv, RestoreTypeOK, VerifiedInv, RecordedInv, MarkedInv, ActiveInv, Activated, Whole
  <2>. QED
    BY <2>1, <2>2
<1>. QED
  BY <1>1, <1>2, PTL DEF RestoreSpec

\* Services only ever run on one whole backup with its key, its rows and all its originals, and
\* only once it was activated, however many commands overlap, repeat each other or die half-way
\* (restoreOrActivate, assertStorageRestoreReady).
THEOREM ServedIsActivated == RestoreSpec => []RunsOnlyActivated
<1>1. RestoreInv => RunsOnlyActivated
  BY DEF RestoreInv, ActiveInv, Activated, RunsOnlyActivated, RestoreTypeOK
<1>. QED
  BY <1>1, RestoreInvariant, PTL
=============================================================================
