------------------------ MODULE ParserDocuments_proofs ------------------------
(* Proofs about ParserDocuments for any documents, attempts, suggestions and  *)
(* versions. What holds of a document is stated of its row of jobs, its        *)
(* status, its two references to runs and the parser's setup, so that a step   *)
(* on one document says nothing of the others, and one on the parser is the    *)
(* same for each.                                                              *)
EXTENDS ParserDocuments, SequenceTheorems, FiniteSetTheorems, TLAPS

RunsOf(row) == {i \in DOMAIN row : row[i].state = "completed"}

RowTypes(row, st, la, ap) ==
  /\ row \in Seq(Job) /\ Len(row) <= MaxJobs /\ st \in Statuses
  /\ la \in {0} \cup RunsOf(row) /\ ap \in {0} \cup RunsOf(row)
  /\ st \in {"absent", "deleted"} <=> row = << >>

\* Only the newest job is ever queued or processing.
NewestWorks(row) == \A i \in DOMAIN row : row[i].state \in Active => i = Len(row)

\* A held job is its document's only one: nothing is reprocessed before setup is ready.
HeldRow(row, su) ==
  \A i \in DOMAIN row : row[i].waiting =>
    /\ Len(row) = 1 /\ row[i].attempts = 0
    /\ \/ su = "suggesting" /\ row[i].state = "queued"
       \/ su = "failed" /\ row[i].state = "failed"

\* A job that is not held has fields somebody chose.
FieldsKnown(row) ==
  SetupMode = "sample" => \A i \in DOMAIN row : ~row[i].waiting => row[i].schema > 1

StatusTrue(row, st, la) ==
  row # << >> =>
    /\ st = "queued" => row[Len(row)].state = "queued"
    /\ st = "processing" => row[Len(row)].state = "processing"
    /\ st = "failed" => row[Len(row)].state = "failed"
    /\ st \in {"needs_review", "processed", "exported"} => la # 0

DocInv(row, st, la, ap, su) ==
  /\ RowTypes(row, st, la, ap) /\ NewestWorks(row) /\ HeldRow(row, su)
  /\ FieldsKnown(row) /\ StatusTrue(row, st, la)

\* The placeholder fields are version 1, and the only one until setup is over.
SetupInv ==
  /\ setup \in {"awaiting_sample", "suggesting", "failed", "ready"} /\ archived \in BOOLEAN
  /\ versions \in VersionIds /\ active \in 1..versions
  /\ setup # "ready" => versions = 1
  /\ SetupMode = "sample" /\ setup = "ready" => active > 1

\* A discovery under way is the parser's own or comes too late; one that was not applied
\* when it finished can be applied later, by a user.
DiscoveryInv ==
  /\ suggestions \in Seq(Suggestion) /\ Len(suggestions) <= MaxSuggestions /\ pointer \in Nat
  /\ pointer # 0 => pointer \in DOMAIN suggestions /\ suggestions[pointer].state # "gone"
  /\ setup = "suggesting" =>
       pointer # 0 /\ suggestions[pointer].auto /\ suggestions[pointer].state \in Active
  /\ \A s \in DOMAIN suggestions :
       /\ suggestions[s].auto /\ suggestions[s].state \in Active =>
            setup = "ready" \/ (setup = "suggesting" /\ pointer = s)
       /\ suggestions[s].applied # 0 => suggestions[s].state \in {"ready", "gone"}

Tables ==
  /\ jobs \in [Docs -> Seq(Job)] /\ status \in [Docs -> Statuses]
  /\ latest \in [Docs -> Nat] /\ approved \in [Docs -> Nat]

DocsInv == \A d \in Docs : DocInv(jobs[d], status[d], latest[d], approved[d], setup)

ParserInv == Tables /\ DocsInv /\ SetupInv /\ DiscoveryInv

-----------------------------------------------------------------------------
(***************************************************************************)
(* Rows of jobs.                                                           *)
(***************************************************************************)
LEMMA SameLength ==
  ASSUME NEW S, NEW s \in Seq(S), NEW t \in [DOMAIN s -> S]
  PROVE  t \in Seq(S) /\ Len(t) = Len(s) /\ DOMAIN t = DOMAIN s
<1>1. Len(s) \in Nat /\ DOMAIN s = 1..Len(s)
  BY LenProperties
<1>2. t \in [1..Len(s) -> S]
  BY <1>1
<1>3. t \in Seq(S)
  BY <1>1, <1>2, SeqDef
<1>4. Len(t) \in Nat /\ DOMAIN t = 1..Len(t)
  BY <1>3, LenProperties
<1>5. 1..Len(t) = 1..Len(s)
  BY <1>1, <1>2, <1>4
<1>6. Len(t) = Len(s)
  BY <1>1, <1>4, <1>5
<1> QED
  BY <1>1, <1>2, <1>3, <1>6

Held(row) == \E i \in DOMAIN row : row[i].waiting
HeldAs(row, s) == [i \in DOMAIN row |-> IF row[i].waiting THEN [row[i] EXCEPT !.state = s] ELSE row[i]]
ReleasedAt(row, v) ==
  [i \in DOMAIN row |->
     IF row[i].waiting THEN [row[i] EXCEPT !.waiting = FALSE, !.state = "queued", !.schema = v] ELSE row[i]]

\* Whoever holds work, and in what state it comes to be.
LEMMA HeldTypes ==
  ASSUME NEW row \in Seq(Job), NEW s \in {"queued", "failed"}
  PROVE  /\ HeldAs(row, s) \in Seq(Job) /\ Len(HeldAs(row, s)) = Len(row)
         /\ DOMAIN HeldAs(row, s) = DOMAIN row
         /\ \A i \in DOMAIN row :
              /\ HeldAs(row, s)[i].state = IF row[i].waiting THEN s ELSE row[i].state
              /\ HeldAs(row, s)[i].waiting = row[i].waiting /\ HeldAs(row, s)[i].attempts = row[i].attempts
              /\ HeldAs(row, s)[i].schema = row[i].schema
<1>1. DOMAIN row = 1..Len(row) /\ \A i \in DOMAIN row : row[i] \in Job
  BY LenProperties, ElementOfSeq
<1>2. \A i \in DOMAIN row : [row[i] EXCEPT !.state = s] \in Job
  BY <1>1 DEF Job
<1>3. HeldAs(row, s) \in [DOMAIN row -> Job]
  BY <1>1, <1>2 DEF HeldAs
<1>4. \A i \in DOMAIN row :
        /\ HeldAs(row, s)[i].state = IF row[i].waiting THEN s ELSE row[i].state
        /\ HeldAs(row, s)[i].waiting = row[i].waiting /\ HeldAs(row, s)[i].attempts = row[i].attempts
        /\ HeldAs(row, s)[i].schema = row[i].schema
  BY <1>1 DEF HeldAs, Job
<1> QED
  BY <1>3, <1>4, SameLength

\* Held jobs fail, or are queued again, together with their document.
LEMMA HeldBecome ==
  ASSUME NEW row, NEW st, NEW la, NEW ap, NEW su, DocInv(row, st, la, ap, su), NEW s \in {"queued", "failed"}
  PROVE  DocInv(HeldAs(row, s), IF Held(row) THEN s ELSE st, la, ap, IF s = "queued" THEN "suggesting" ELSE "failed")
<1> DEFINE new == HeldAs(row, s)
           to == IF Held(row) THEN s ELSE st
           so == IF s = "queued" THEN "suggesting" ELSE "failed"
<1>1. row \in Seq(Job) /\ Len(row) \in Nat /\ DOMAIN row = 1..Len(row) /\ \A i \in DOMAIN row : row[i] \in Job
  BY LenProperties, ElementOfSeq DEF DocInv, RowTypes
<1>2. /\ new \in Seq(Job) /\ Len(new) = Len(row) /\ DOMAIN new = DOMAIN row
      /\ \A i \in DOMAIN row :
           /\ new[i].state = IF row[i].waiting THEN s ELSE row[i].state
           /\ new[i].waiting = row[i].waiting /\ new[i].attempts = row[i].attempts /\ new[i].schema = row[i].schema
  BY <1>1, HeldTypes
<1> HIDE DEF new
<1>3. \A i \in DOMAIN row : row[i].waiting => Len(row) = 1 /\ i = 1 /\ row[i].state \in {"queued", "failed"} /\ row[i].attempts = 0
  BY <1>1 DEF DocInv, HeldRow
<1>4. RunsOf(new) = RunsOf(row)
  BY <1>2, <1>3 DEF RunsOf
<1>5. row = << >> <=> new = << >>
  BY <1>1, <1>2, EmptySeq
<1>6. Held(row) => row # << >> /\ Len(row) = 1 /\ 1 \in DOMAIN row /\ row[1].waiting
  BY <1>1, <1>3, EmptySeq DEF Held
<1>7. RowTypes(new, to, la, ap)
  BY <1>2, <1>4, <1>5, <1>6 DEF DocInv, RowTypes, Statuses
<1>8. NewestWorks(new)
  BY <1>2, <1>3 DEF DocInv, NewestWorks, Active
<1>9. HeldRow(new, so)
  BY <1>2, <1>3 DEF HeldRow
<1>10. FieldsKnown(new)
  BY <1>2 DEF DocInv, FieldsKnown
<1>11. StatusTrue(new, to, la)
  <2>1. CASE Held(row)
    <3>1. Len(new) = 1 /\ new[1].state = s /\ to = s
      BY <2>1, <1>1, <1>2, <1>6
    <3> QED
      BY <3>1 DEF StatusTrue
  <2>2. CASE ~Held(row)
    <3>1. row # << >> => Len(row) \in DOMAIN row /\ new[Len(row)].state = row[Len(row)].state
      BY <2>2, <1>1, <1>2, EmptySeq DEF Held
    <3> QED
      BY <2>2, <3>1, <1>2, <1>5 DEF DocInv, StatusTrue
  <2> QED
    BY <2>1, <2>2
<1> QED
  BY <1>7, <1>8, <1>9, <1>10, <1>11 DEF DocInv, new

\* Held jobs are released with the fields that end the setup.
LEMMA HeldReleased ==
  ASSUME NEW row, NEW st, NEW la, NEW ap, NEW su, DocInv(row, st, la, ap, su), NEW v \in VersionIds, v > 1
  PROVE  DocInv(ReleasedAt(row, v), IF Held(row) THEN "queued" ELSE st, la, ap, "ready")
<1> DEFINE new == ReleasedAt(row, v)
           to == IF Held(row) THEN "queued" ELSE st
<1>1. row \in Seq(Job) /\ Len(row) \in Nat /\ DOMAIN row = 1..Len(row) /\ \A i \in DOMAIN row : row[i] \in Job
  BY LenProperties, ElementOfSeq DEF DocInv, RowTypes
<1>2. \A i \in DOMAIN row : row[i].waiting => Len(row) = 1 /\ i = 1 /\ row[i].state \in {"queued", "failed"}
  BY <1>1 DEF DocInv, HeldRow
<1>3. \A i \in DOMAIN row : [row[i] EXCEPT !.waiting = FALSE, !.state = "queued", !.schema = v] \in Job
  BY <1>1 DEF Job
<1>4. new \in [DOMAIN row -> Job]
  BY <1>1, <1>3 DEF ReleasedAt
<1>5. new \in Seq(Job) /\ Len(new) = Len(row) /\ DOMAIN new = DOMAIN row
  BY <1>1, <1>4, SameLength
<1>6. \A i \in DOMAIN row :
        /\ ~new[i].waiting
        /\ IF row[i].waiting THEN new[i].state = "queued" /\ new[i].schema = v
           ELSE new[i].state = row[i].state /\ new[i].schema = row[i].schema
  BY <1>1 DEF ReleasedAt, Job
<1> HIDE DEF new
<1>7. RunsOf(new) = RunsOf(row)
  BY <1>2, <1>5, <1>6 DEF RunsOf
<1>8. row = << >> <=> new = << >>
  BY <1>1, <1>5, EmptySeq
<1>9. Held(row) => row # << >> /\ Len(row) = 1 /\ 1 \in DOMAIN row /\ row[1].waiting
  BY <1>1, <1>2, EmptySeq DEF Held
<1>10. RowTypes(new, to, la, ap)
  BY <1>5, <1>7, <1>8, <1>9 DEF DocInv, RowTypes, Statuses
<1>11. NewestWorks(new)
  BY <1>2, <1>5, <1>6 DEF DocInv, NewestWorks, Active
<1>12. HeldRow(new, "ready")
  BY <1>5, <1>6 DEF HeldRow
<1>13. FieldsKnown(new)
  BY <1>5, <1>6 DEF DocInv, FieldsKnown
<1>14. StatusTrue(new, to, la)
  <2>1. CASE Held(row)
    <3>1. Len(new) = 1 /\ new[1].state = "queued" /\ to = "queued"
      BY <2>1, <1>5, <1>6, <1>9
    <3> QED
      BY <3>1 DEF StatusTrue
  <2>2. CASE ~Held(row)
    <3>1. row # << >> => Len(row) \in DOMAIN row /\ new[Len(row)].state = row[Len(row)].state
      BY <2>2, <1>1, <1>5, <1>6, EmptySeq DEF Held
    <3> QED
      BY <2>2, <3>1, <1>5, <1>8 DEF DocInv, StatusTrue
  <2> QED
    BY <2>1, <2>2
<1> QED
  BY <1>10, <1>11, <1>12, <1>13, <1>14 DEF DocInv, new

\* A worker's step on the job in hand, with whatever it makes of the document's status.
LEMMA Worked ==
  ASSUME NEW row, NEW st, NEW la, NEW ap, NEW su, DocInv(row, st, la, ap, su),
         NEW i \in DOMAIN row, row[i].state \in Active, ~row[i].waiting,
         NEW job \in Job, ~job.waiting, job.schema = row[i].schema,
         NEW to \in Statuses \ {"absent", "deleted"}, to \in Active \cup {"failed"} => to = job.state,
         NEW run \in {0, la} \cup (IF job.state = "completed" THEN {i} ELSE {}),
         to \in {"needs_review", "processed", "exported"} => run # 0
  PROVE  DocInv([row EXCEPT ![i] = job], to, run, ap, su)
<1> DEFINE new == [row EXCEPT ![i] = job]
<1>1. row \in Seq(Job) /\ Len(row) \in Nat /\ DOMAIN row = 1..Len(row) /\ \A j \in DOMAIN row : row[j] \in Job
  BY LenProperties, ElementOfSeq DEF DocInv, RowTypes
<1>2. new \in Seq(Job) /\ Len(new) = Len(row) /\ DOMAIN new = DOMAIN row
  BY <1>1, ExceptSeq
<1>3. new[i] = job /\ \A j \in DOMAIN row : j # i => new[j] = row[j]
  BY <1>1
<1> HIDE DEF new
<1>4. i = Len(row)
  BY DEF DocInv, NewestWorks
<1>5. \A j \in DOMAIN row : ~row[j].waiting
  <2> SUFFICES ASSUME NEW j \in DOMAIN row, row[j].waiting PROVE FALSE
    OBVIOUS
  <2>1. Len(row) = 1
    BY DEF DocInv, HeldRow
  <2>2. i = j
    BY <1>1, <2>1
  <2> QED
    BY <2>2
<1>6. RunsOf(row) \subseteq RunsOf(new) /\ (job.state = "completed" => i \in RunsOf(new))
  BY <1>2, <1>3 DEF RunsOf, Active
<1>7. row # << >> /\ new # << >>
  BY <1>1, <1>2, EmptySeq
<1>8. RowTypes(new, to, run, ap)
  BY <1>2, <1>6, <1>7 DEF DocInv, RowTypes
<1>9. NewestWorks(new)
  BY <1>2, <1>3, <1>4 DEF DocInv, NewestWorks
<1>10. HeldRow(new, su)
  BY <1>2, <1>3, <1>5 DEF HeldRow
<1>11. FieldsKnown(new)
  BY <1>2, <1>3 DEF DocInv, FieldsKnown
<1>12. StatusTrue(new, to, run)
  BY <1>2, <1>3, <1>4 DEF StatusTrue, Active
<1> QED
  BY <1>8, <1>9, <1>10, <1>11, <1>12 DEF DocInv, new

\* One more job, when nothing is in hand and nothing is held.
LEMMA Asked ==
  ASSUME NEW row, NEW st, NEW la, NEW ap, DocInv(row, st, la, ap, "ready"),
         \A i \in DOMAIN row : row[i].state \notin Active, Len(row) < MaxJobs,
         NEW job \in Job, job.state = "queued", ~job.waiting, SetupMode = "sample" => job.schema > 1
  PROVE  DocInv(Append(row, job), "queued", la, ap, "ready")
<1> DEFINE new == Append(row, job)
<1>1. row \in Seq(Job) /\ Len(row) \in Nat /\ DOMAIN row = 1..Len(row) /\ \A j \in DOMAIN row : row[j] \in Job
  BY LenProperties, ElementOfSeq DEF DocInv, RowTypes
<1>2. /\ new \in Seq(Job) /\ Len(new) = Len(row) + 1 /\ \A j \in DOMAIN row : new[j] = row[j]
      /\ new[Len(row) + 1] = job
  BY <1>1, AppendProperties
<1>3. DOMAIN new = 1..(Len(row) + 1)
  BY <1>2, LenProperties
<1> HIDE DEF new
<1>4. \A j \in DOMAIN new : (j \in DOMAIN row /\ new[j] = row[j]) \/ (j = Len(new) /\ new[j] = job)
  BY <1>1, <1>2, <1>3
<1>5. RunsOf(row) \subseteq RunsOf(new)
  BY <1>1, <1>2, <1>3 DEF RunsOf
<1>6. new # << >>
  BY <1>1, <1>2, EmptySeq
<1>7. RowTypes(new, "queued", la, ap)
  BY <1>1, <1>2, <1>5, <1>6, DocumentsAssumption DEF DocInv, RowTypes, Statuses
<1>8. NewestWorks(new)
  BY <1>4 DEF NewestWorks
<1>9. HeldRow(new, "ready")
  BY <1>4 DEF DocInv, HeldRow
<1>10. FieldsKnown(new)
  BY <1>4 DEF DocInv, FieldsKnown
<1>11. StatusTrue(new, "queued", la)
  BY <1>2 DEF StatusTrue
<1> QED
  BY <1>7, <1>8, <1>9, <1>10, <1>11 DEF DocInv, new

\* The first job of a document.
LEMMA Begun ==
  ASSUME NEW st, NEW la, NEW ap, NEW su, DocInv(<< >>, st, la, ap, su), NEW job \in Job, NEW now,
         job.state \in {"queued", "failed"}, job.attempts = 0,
         job.waiting => now = IF job.state = "queued" THEN "suggesting" ELSE "failed",
         SetupMode = "sample" /\ ~job.waiting => job.schema > 1
  PROVE  DocInv(<<job>>, job.state, la, ap, now)
<1>1. /\ <<job>> \in Seq(Job) /\ Len(<<job>>) = 1 /\ DOMAIN <<job>> = {1} /\ <<job>>[1] = job
      /\ <<job>> # << >>
  OBVIOUS
<1>2. la = 0 /\ ap = 0
  BY DEF DocInv, RowTypes, RunsOf
<1>3. RowTypes(<<job>>, job.state, la, ap)
  BY <1>1, <1>2, DocumentsAssumption DEF RowTypes, Statuses
<1>4. NewestWorks(<<job>>) /\ HeldRow(<<job>>, now) /\ FieldsKnown(<<job>>) /\ StatusTrue(<<job>>, job.state, la)
  BY <1>1 DEF NewestWorks, HeldRow, FieldsKnown, StatusTrue
<1> QED
  BY <1>3, <1>4 DEF DocInv

\* Reviews leave the jobs alone.
LEMMA Reviewed ==
  ASSUME NEW row, NEW st, NEW la, NEW ap, NEW su, DocInv(row, st, la, ap, su), row # << >>,
         NEW to, to = st \/ (la # 0 /\ to \in {"needs_review", "processed", "exported"}),
         NEW run \in {0, ap} \cup RunsOf(row)
  PROVE  DocInv(row, to, la, run, su)
<1>1. RowTypes(row, to, la, run)
  BY DEF DocInv, RowTypes, Statuses
<1>2. StatusTrue(row, to, la)
  BY DEF DocInv, StatusTrue
<1> QED
  BY <1>1, <1>2 DEF DocInv

-----------------------------------------------------------------------------
(***************************************************************************)
(* The parser's setup and all its documents.                               *)
(***************************************************************************)
LEMMA HeldRows ==
  ASSUME NEW js, NEW st, NEW s, NEW d \in Docs
  PROVE  /\ WithHeld(js, s)[d] = HeldAs(js[d], s)
         /\ Mark(st, HeldDocs(js), s)[d] = IF Held(js[d]) THEN s ELSE st[d]
  BY DEF WithHeld, HeldAs, Mark, HeldDocs, Held

LEMMA HeldTables ==
  ASSUME Tables, DocsInv, NEW s \in {"queued", "failed"}
  PROVE  WithHeld(jobs, s) \in [Docs -> Seq(Job)] /\ Mark(status, HeldDocs(jobs), s) \in [Docs -> Statuses]
<1>1. \A d \in Docs : jobs[d] \in Seq(Job) /\ HeldAs(jobs[d], s) \in Seq(Job)
  BY HeldTypes DEF Tables
<1>2. WithHeld(jobs, s) \in [Docs -> Seq(Job)]
  BY <1>1 DEF WithHeld, HeldAs
<1>3. Mark(status, HeldDocs(jobs), s) \in [Docs -> Statuses]
  BY DEF Mark, Tables, Statuses
<1> QED
  BY <1>2, <1>3

\* Setup fails, and what is held for it.
LEMMA SetupFails ==
  ASSUME Tables, DocsInv, FailInitialSetup(jobs, status), UNCHANGED reviewVars
  PROVE  Tables' /\ DocsInv' /\ setup' = "failed"
<1>1. Tables'
  BY HeldTables DEF FailInitialSetup, Tables, reviewVars
<1>2. ASSUME NEW d \in Docs PROVE DocInv(jobs'[d], status'[d], latest'[d], approved'[d], setup')
  <2>1. DocInv(HeldAs(jobs[d], "failed"), IF Held(jobs[d]) THEN "failed" ELSE status[d], latest[d], approved[d], "failed")
    BY HeldBecome DEF DocsInv
  <2> QED
    BY <2>1, HeldRows DEF FailInitialSetup, reviewVars
<1> QED
  BY <1>1, <1>2 DEF DocsInv, FailInitialSetup

\* Setup is over, and what was held for it starts.
LEMMA SetupEnds ==
  ASSUME Tables, DocsInv, NEW v \in VersionIds, v > 1, ReleaseInitialJobs(v), setup' = "ready", UNCHANGED reviewVars
  PROVE  Tables' /\ DocsInv'
<1>1. \A d \in Docs : DocInv(ReleasedAt(jobs[d], v), IF Held(jobs[d]) THEN "queued" ELSE status[d], latest[d], approved[d], "ready")
  BY HeldReleased DEF DocsInv
<1>2. \A d \in Docs : jobs'[d] = ReleasedAt(jobs[d], v) /\ status'[d] = IF Held(jobs[d]) THEN "queued" ELSE status[d]
  BY DEF ReleaseInitialJobs, Released, ReleasedAt, Mark, HeldDocs, Held
<1>3. DocsInv'
  BY <1>1, <1>2 DEF DocsInv, reviewVars
<1>4. \A d \in Docs : jobs'[d] \in Seq(Job)
  BY <1>1, <1>2 DEF DocInv, RowTypes
<1>5. Tables'
  BY <1>4 DEF Tables, ReleaseInitialJobs, Released, Mark, Statuses, reviewVars
<1> QED
  BY <1>3, <1>5

\* Setup starts again, and what was held for it waits again.
LEMMA SetupStarts ==
  ASSUME ParserInv, NEW d \in Docs, QueueInitialSetup(d, jobs, status), UNCHANGED reviewVars
  PROVE  Tables' /\ DocsInv'
<1>1. \A c \in Docs : DocInv(HeldAs(jobs[c], "queued"), IF Held(jobs[c]) THEN "queued" ELSE status[c], latest[c], approved[c], "suggesting")
  BY HeldBecome DEF DocsInv, ParserInv
<1>2. StuckDocs(jobs) = HeldDocs(jobs)
  BY DEF StuckDocs, HeldDocs, ParserInv, DocsInv, DocInv, HeldRow, QueueInitialSetup
<1>3. DocsInv'
  BY <1>1, <1>2, HeldRows DEF QueueInitialSetup, DocsInv, reviewVars
<1>4. Tables'
  BY <1>2, HeldTables DEF QueueInitialSetup, ParserInv, Tables, reviewVars
<1> QED
  BY <1>3, <1>4

-----------------------------------------------------------------------------
(***************************************************************************)
(* Suggestions.                                                            *)
(***************************************************************************)
\* One more request.
LEMMA SuggestionAsked ==
  ASSUME SetupInv, DiscoveryInv, NEW d \in Docs, NEW auto \in BOOLEAN, SuggestionCapacity,
         suggestions' = Append(suggestions, NewSuggestion(d, auto)),
         \/ auto /\ setup \in {"awaiting_sample", "failed"} /\ setup' = "suggesting" /\ pointer' = Len(suggestions) + 1
         \/ ~auto /\ UNCHANGED <<setup, pointer>>
  PROVE  DiscoveryInv'
<1> DEFINE new == NewSuggestion(d, auto)
<1>1. new \in Suggestion
  BY DocumentsAssumption DEF NewSuggestion, Suggestion, SetupInv, VersionIds
<1>2. Len(suggestions) \in Nat /\ DOMAIN suggestions = 1..Len(suggestions)
  BY LenProperties DEF DiscoveryInv
<1>3. /\ suggestions' \in Seq(Suggestion) /\ Len(suggestions') = Len(suggestions) + 1
      /\ suggestions'[Len(suggestions) + 1] = new /\ \A s \in DOMAIN suggestions : suggestions'[s] = suggestions[s]
  BY <1>1, <1>2, AppendProperties DEF DiscoveryInv
<1>4. DOMAIN suggestions' = 1..(Len(suggestions) + 1)
  BY <1>3, LenProperties
<1>5. new.state = "queued" /\ new.auto = auto /\ new.applied = 0
  BY DEF NewSuggestion
<1> HIDE DEF new
<1>6. Len(suggestions') <= MaxSuggestions
  BY <1>2, <1>3, DocumentsAssumption DEF SuggestionCapacity
<1>7. ASSUME NEW s \in DOMAIN suggestions'
      PROVE  \/ s \in DOMAIN suggestions /\ suggestions'[s] = suggestions[s] /\ s # Len(suggestions) + 1
             \/ s = Len(suggestions) + 1 /\ suggestions'[s] = new
  BY <1>2, <1>3, <1>4
<1>8. pointer' \in Nat /\ (pointer' # 0 => pointer' \in DOMAIN suggestions' /\ suggestions'[pointer'].state # "gone")
  BY <1>2, <1>3, <1>4, <1>5 DEF DiscoveryInv
<1>9. setup' = "suggesting" => pointer' # 0 /\ suggestions'[pointer'].auto /\ suggestions'[pointer'].state \in Active
  BY <1>2, <1>3, <1>4, <1>5 DEF DiscoveryInv, Active
<1>10. ASSUME NEW s \in DOMAIN suggestions'
       PROVE  /\ suggestions'[s].auto /\ suggestions'[s].state \in Active =>
                   setup' = "ready" \/ (setup' = "suggesting" /\ pointer' = s)
              /\ suggestions'[s].applied # 0 => suggestions'[s].state \in {"ready", "gone"}
  BY <1>5, <1>7 DEF DiscoveryInv
<1> QED
  BY <1>3, <1>6, <1>8, <1>9, <1>10 DEF DiscoveryInv

\* One suggestion moves, and the setup with it if it was the parser's.
LEMMA SuggestionMoves ==
  ASSUME DiscoveryInv, NEW s \in DOMAIN suggestions, NEW new \in Suggestion,
         suggestions' = [suggestions EXCEPT ![s] = new], UNCHANGED pointer,
         new.state # "gone", new.auto = suggestions[s].auto,
         new.applied # 0 => new.state = "ready",
         new.auto /\ new.state \in Active => suggestions[s].state \in Active,
         setup' # setup => setup = "suggesting" /\ (setup' = "ready" \/ (setup' = "failed" /\ pointer = s /\ new.state \notin Active)),
         setup' = "suggesting" /\ pointer = s => new.state \in Active
  PROVE  DiscoveryInv'
<1>1. Len(suggestions) \in Nat /\ DOMAIN suggestions = 1..Len(suggestions)
  BY LenProperties DEF DiscoveryInv
<1>2. suggestions' \in Seq(Suggestion) /\ Len(suggestions') = Len(suggestions) /\ DOMAIN suggestions' = DOMAIN suggestions
  BY <1>1, ExceptSeq DEF DiscoveryInv
<1>3. suggestions'[s] = new /\ \A r \in DOMAIN suggestions : r # s => suggestions'[r] = suggestions[r]
  BY <1>1
<1>4. pointer' # 0 => pointer' \in DOMAIN suggestions' /\ suggestions'[pointer'].state # "gone"
  BY <1>2, <1>3 DEF DiscoveryInv
<1>5. setup' = "suggesting" => pointer' # 0 /\ suggestions'[pointer'].auto /\ suggestions'[pointer'].state \in Active
  BY <1>2, <1>3 DEF DiscoveryInv
<1>6. ASSUME NEW r \in DOMAIN suggestions'
      PROVE  /\ suggestions'[r].auto /\ suggestions'[r].state \in Active =>
                  setup' = "ready" \/ (setup' = "suggesting" /\ pointer' = r)
             /\ suggestions'[r].applied # 0 => suggestions'[r].state \in {"ready", "gone"}
  BY <1>2, <1>3 DEF DiscoveryInv
<1> QED
  BY <1>2, <1>4, <1>5, <1>6 DEF DiscoveryInv

-----------------------------------------------------------------------------
(***************************************************************************)
(* The steps.                                                              *)
(***************************************************************************)
\* A step on one document says nothing of the others.
LEMMA OneDocument ==
  ASSUME Tables, DocsInv, NEW d \in Docs, NEW row, NEW to, NEW run, NEW app,
         jobs' = [jobs EXCEPT ![d] = row], status' = [status EXCEPT ![d] = to],
         latest' = [latest EXCEPT ![d] = run], approved' = [approved EXCEPT ![d] = app],
         UNCHANGED setup, DocInv(row, to, run, app, setup)
  PROVE  Tables' /\ DocsInv'
<1>1. row \in Seq(Job) /\ to \in Statuses /\ run \in {0} \cup DOMAIN row /\ app \in {0} \cup DOMAIN row
  BY DEF DocInv, RowTypes, RunsOf
<1>2. DOMAIN row = 1..Len(row) /\ Len(row) \in Nat
  BY <1>1, LenProperties
<1>3. run \in Nat /\ app \in Nat
  BY <1>1, <1>2
<1>4. Tables'
  BY <1>1, <1>3 DEF Tables
<1>5. ASSUME NEW c \in Docs PROVE DocInv(jobs'[c], status'[c], latest'[c], approved'[c], setup')
  <2>1. CASE c = d
    <3>1. jobs'[c] = row /\ status'[c] = to /\ latest'[c] = run /\ approved'[c] = app
      BY <2>1 DEF Tables
    <3> QED
      BY <3>1
  <2>2. CASE c # d
    <3>1. jobs'[c] = jobs[c] /\ status'[c] = status[c] /\ latest'[c] = latest[c] /\ approved'[c] = approved[c]
      BY <2>2 DEF Tables
    <3> QED
      BY <3>1 DEF DocsInv
  <2> QED
    BY <2>1, <2>2
<1> QED
  BY <1>4, <1>5 DEF DocsInv

\* Nothing of the parser itself changes in the steps on a document.
LEMMA ParserKept ==
  ASSUME SetupInv, DiscoveryInv, UNCHANGED <<setup, pointer, archived, schemaVars, suggestions>>
  PROVE  SetupInv' /\ DiscoveryInv'
<1>1. SetupInv'
  BY DEF SetupInv, schemaVars
<1>2. DiscoveryInv'
  BY DEF DiscoveryInv
<1> QED
  BY <1>1, <1>2

LEMMA KeptTables ==
  ASSUME Tables, NEW d \in Docs
  PROVE  /\ jobs = [jobs EXCEPT ![d] = jobs[d]] /\ status = [status EXCEPT ![d] = status[d]]
         /\ latest = [latest EXCEPT ![d] = latest[d]] /\ approved = [approved EXCEPT ![d] = approved[d]]
  BY DEF Tables

\* The worker's step on a job, in general.
LEMMA JobMoves ==
  ASSUME ParserInv, NEW d \in Docs, NEW i \in DOMAIN jobs[d], jobs[d][i].state \in Active, ~jobs[d][i].waiting,
         NEW job \in Job, ~job.waiting, job.schema = jobs[d][i].schema,
         NEW to \in Statuses \ {"absent", "deleted"}, to \in Active \cup {"failed"} => to = job.state,
         NEW run \in {latest[d]} \cup (IF job.state = "completed" THEN {i} ELSE {}),
         to \in {"needs_review", "processed", "exported"} => run # 0,
         jobs' = [jobs EXCEPT ![d] = [jobs[d] EXCEPT ![i] = job]], status' = [status EXCEPT ![d] = to],
         latest' = [latest EXCEPT ![d] = run], UNCHANGED approved,
         UNCHANGED <<setup, pointer, archived, schemaVars, suggestions>>
  PROVE  ParserInv'
<1>1. DocInv(jobs[d], status[d], latest[d], approved[d], setup)
  BY DEF ParserInv, DocsInv
<1>2. DocInv([jobs[d] EXCEPT ![i] = job], to, run, approved[d], setup)
  BY <1>1, Worked
<1>3. approved' = [approved EXCEPT ![d] = approved[d]]
  BY KeptTables DEF ParserInv
<1>4. Tables' /\ DocsInv'
  BY <1>2, <1>3, OneDocument DEF ParserInv
<1> QED
  BY <1>4, ParserKept DEF ParserInv

\* A job in hand is not a held one, and what its document shows is one of these.
LEMMA InHand ==
  ASSUME ParserInv, NEW d \in Docs, NEW i \in DOMAIN jobs[d], jobs[d][i].state = "processing"
  PROVE  /\ ~jobs[d][i].waiting /\ jobs[d][i] \in Job
         /\ status[d] \in {"processing", "needs_review", "processed", "exported"}
         /\ status[d] \in {"needs_review", "processed", "exported"} => latest[d] # 0
         /\ ~\E j \in DOMAIN jobs[d] \ {i} : jobs[d][j].state \in Active
<1>1. DocInv(jobs[d], status[d], latest[d], approved[d], setup)
  BY DEF ParserInv, DocsInv
<1>2. jobs[d] \in Seq(Job) /\ Len(jobs[d]) \in Nat /\ DOMAIN jobs[d] = 1..Len(jobs[d]) /\ jobs[d][i] \in Job
  BY <1>1, LenProperties, ElementOfSeq DEF DocInv, RowTypes
<1>3. ~jobs[d][i].waiting
  BY <1>1 DEF DocInv, HeldRow
<1>4. i = Len(jobs[d]) /\ \A j \in DOMAIN jobs[d] : jobs[d][j].state \in Active => j = i
  BY <1>1 DEF DocInv, NewestWorks, Active
<1>5. jobs[d] # << >>
  BY <1>2, EmptySeq
<1>6. /\ status[d] \notin {"queued", "failed", "absent", "deleted"} /\ status[d] \in Statuses
      /\ status[d] \in {"needs_review", "processed", "exported"} => latest[d] # 0
  BY <1>1, <1>4, <1>5 DEF DocInv, StatusTrue, RowTypes
<1> QED
  BY <1>2, <1>3, <1>4, <1>6 DEF Statuses

LEMMA ClaimJobKeeps == ASSUME ParserInv, NEW d \in Docs, NEW i \in DOMAIN jobs[d], ClaimJob(d, i) PROVE ParserInv'
<1> DEFINE job == [jobs[d][i] EXCEPT !.state = "processing", !.attempts = @ + 1]
<1>1. DocInv(jobs[d], status[d], latest[d], approved[d], setup) /\ jobs[d] \in Seq(Job)
  BY DEF ParserInv, DocsInv, DocInv, RowTypes
<1>2. jobs[d][i] \in Job
  BY <1>1, ElementOfSeq, LenProperties
<1>3. job \in Job /\ job.state = "processing" /\ ~job.waiting /\ job.schema = jobs[d][i].schema
  <2>1. jobs[d][i].attempts \in 0..MaxAttempts /\ jobs[d][i].attempts < MaxAttempts /\ MaxAttempts \in Nat
    BY <1>2, DocumentsAssumption DEF ClaimJob, Job
  <2>2. jobs[d][i].attempts + 1 \in 0..MaxAttempts /\ "processing" \in {"queued", "processing", "completed", "failed"}
    BY <2>1
  <2> HIDE DEF VersionIds
  <2>3. job \in Job
    BY <1>2, <2>2 DEF Job
  <2>4. job.state = "processing" /\ job.waiting = jobs[d][i].waiting /\ job.schema = jobs[d][i].schema
    BY <1>2 DEF Job
  <2> QED
    BY <2>3, <2>4 DEF ClaimJob
<1>4. jobs' = [jobs EXCEPT ![d] = [jobs[d] EXCEPT ![i] = job]]
  BY DEF ClaimJob, ParserInv, Tables
<1> HIDE DEF job
<1>5. latest' = [latest EXCEPT ![d] = latest[d]]
  BY KeptTables DEF ParserInv, ClaimJob, jobStep, reviewVars
<1>6. /\ jobs[d][i].state \in Active /\ ~jobs[d][i].waiting
      /\ status' = [status EXCEPT ![d] = "processing"]
      /\ UNCHANGED approved /\ UNCHANGED <<setup, pointer, archived, schemaVars, suggestions>>
  BY DEF ClaimJob, jobStep, reviewVars, SetStatus, Active
<1>7. "processing" \in Statuses \ {"absent", "deleted"} /\ latest[d] \in {latest[d]}
  BY DEF Statuses
<1> QED
  BY <1>3, <1>4, <1>5, <1>6, <1>7, JobMoves

LEMMA JobEndsKeeps == ASSUME ParserInv, NEW d \in Docs, NEW i \in DOMAIN jobs[d], JobEnds(d, i) PROVE ParserInv'
<1>1. jobs[d][i].state = "processing"
  BY DEF JobEnds, SaveRun, RejectJob, RetryJob, RecoverJob
<1>2. /\ ~jobs[d][i].waiting /\ jobs[d][i] \in Job
      /\ status[d] \in {"processing", "needs_review", "processed", "exported"}
      /\ status[d] \in {"needs_review", "processed", "exported"} => latest[d] # 0
      /\ ~\E j \in DOMAIN jobs[d] \ {i} : jobs[d][j].state \in Active
  BY <1>1, InHand
<1> DEFINE As(s) == [jobs[d][i] EXCEPT !.state = s]
<1>3. ASSUME NEW s \in {"queued", "completed", "failed"}
      PROVE  /\ As(s) \in Job /\ As(s).state = s /\ ~As(s).waiting /\ As(s).schema = jobs[d][i].schema
             /\ SetJob(d, i, s) => jobs' = [jobs EXCEPT ![d] = [jobs[d] EXCEPT ![i] = As(s)]]
  BY <1>2 DEF Job, SetJob
<1> HIDE DEF As
<1>4. ASSUME NEW s \in {"queued", "failed"}, SetJob(d, i, s), NEW to, SetStatus(d, to),
             to = s \/ (to = status[d] /\ to # "processing"), UNCHANGED jobStep
      PROVE  ParserInv'
  <2>1. latest' = [latest EXCEPT ![d] = latest[d]] /\ UNCHANGED <<approved, setup, pointer, archived, schemaVars, suggestions>>
    BY <1>4, KeptTables DEF ParserInv, jobStep, reviewVars
  <2>2. /\ to \in Statuses \ {"absent", "deleted"} /\ (to \in Active \cup {"failed"} => to = s)
        /\ to \in {"needs_review", "processed", "exported"} => latest[d] # 0
    BY <1>2, <1>4 DEF Statuses, Active
  <2>3. jobs[d][i].state \in Active
    BY <1>1 DEF Active
  <2>4. /\ As(s) \in Job /\ As(s).state = s /\ ~As(s).waiting /\ As(s).schema = jobs[d][i].schema
        /\ jobs' = [jobs EXCEPT ![d] = [jobs[d] EXCEPT ![i] = As(s)]] /\ status' = [status EXCEPT ![d] = to]
    BY <1>3, <1>4 DEF SetStatus
  <2>5. latest[d] \in {latest[d]} \cup (IF As(s).state = "completed" THEN {i} ELSE {})
    OBVIOUS
  <2> QED
    BY <1>2, <2>1, <2>2, <2>3, <2>4, <2>5, JobMoves
<1>5. CASE SaveRun(d, i)
  <2>1. i # 0
    <3>1. jobs[d] \in Seq(Job)
      BY DEF ParserInv, Tables
    <3> QED
      BY <3>1, LenProperties
  <2>2. jobs[d][i].state \in Active /\ "completed" \in {"queued", "completed", "failed"}
        /\ "needs_review" \in Statuses \ {"absent", "deleted"} /\ "needs_review" \notin Active \cup {"failed"}
    BY <1>1 DEF Active, Statuses
  <2>3. As("completed").state = "completed"
    BY <1>3
  <2> QED
    BY <1>2, <1>3, <1>5, <2>1, <2>2, <2>3, JobMoves DEF SaveRun, SetStatus
<1>6. CASE RejectJob(d, i)
  BY <1>4, <1>6 DEF RejectJob
<1>7. CASE RetryJob(d, i)
  BY <1>4, <1>7 DEF RetryJob
<1>8. CASE RecoverJob(d, i)
  <2>1. CASE jobs[d][i].attempts >= MaxAttempts
    BY <1>2, <1>4, <1>8, <2>1 DEF RecoverJob, RecoveredStatus
  <2>2. CASE ~(jobs[d][i].attempts >= MaxAttempts)
    <3>1. CASE status[d] = "processing"
      BY <1>4, <1>8, <2>2, <3>1 DEF RecoverJob, RecoveredStatus
    <3>2. CASE status[d] # "processing"
      BY <1>4, <1>8, <2>2, <3>2 DEF RecoverJob, RecoveredStatus
    <3> QED
      BY <3>1, <3>2
  <2> QED
    BY <2>1, <2>2
<1> QED
  BY <1>5, <1>6, <1>7, <1>8 DEF JobEnds

LEMMA ReprocessKeeps == ASSUME ParserInv, NEW d \in Docs, Reprocess(d) PROVE ParserInv'
<1> DEFINE job == NewJob(FALSE)
<1>1. setup = "ready" /\ \A i \in DOMAIN jobs[d] : jobs[d][i].state \notin Active
  BY DEF Reprocess, Reprocessable, HasActiveJob
<1>2. DocInv(jobs[d], status[d], latest[d], approved[d], "ready")
  BY <1>1 DEF ParserInv, DocsInv
<1>3. job \in Job /\ job.state = "queued" /\ ~job.waiting /\ (SetupMode = "sample" => job.schema > 1)
  BY <1>1, DocumentsAssumption DEF NewJob, Job, ParserInv, SetupInv, VersionIds
<1> HIDE DEF job
<1>4. DocInv(Append(jobs[d], job), "queued", latest[d], approved[d], "ready")
  BY <1>1, <1>2, <1>3, Asked DEF Reprocess
<1>5. /\ jobs' = [jobs EXCEPT ![d] = Append(jobs[d], job)] /\ status' = [status EXCEPT ![d] = "queued"]
      /\ UNCHANGED <<latest, approved>> /\ UNCHANGED <<setup, pointer, archived, schemaVars, suggestions>>
  BY DEF Reprocess, SetStatus, reviewVars, job
<1>6. latest' = [latest EXCEPT ![d] = latest[d]] /\ approved' = [approved EXCEPT ![d] = approved[d]]
  BY <1>5, KeptTables DEF ParserInv
<1>7. Tables' /\ DocsInv'
  <2> DEFINE row == Append(jobs[d], job)
  <2>1. DocInv(row, "queued", latest[d], approved[d], setup) /\ jobs' = [jobs EXCEPT ![d] = row]
    BY <1>1, <1>4, <1>5
  <2> HIDE DEF row
  <2> QED
    BY <1>5, <1>6, <2>1, OneDocument DEF ParserInv
<1> QED
  BY <1>5, <1>7, ParserKept DEF ParserInv

\* A run in a document's row says the document is there.
LEMMA ReviewMoves ==
  ASSUME ParserInv, NEW d \in Docs, jobs[d] # << >>,
         NEW to, to = status[d] \/ (latest[d] # 0 /\ to \in {"needs_review", "processed", "exported"}),
         NEW run \in {0, approved[d]} \cup Runs(d),
         status' = [status EXCEPT ![d] = to], approved' = [approved EXCEPT ![d] = run],
         UNCHANGED <<latest, jobs, setup, pointer, archived, schemaVars, suggestions>>
  PROVE  ParserInv'
<1>1. DocInv(jobs[d], status[d], latest[d], approved[d], setup) /\ run \in {0, approved[d]} \cup RunsOf(jobs[d])
  BY DEF ParserInv, DocsInv, Runs, RunsOf
<1>2. DocInv(jobs[d], to, latest[d], run, setup)
  BY <1>1, Reviewed
<1>3. jobs' = [jobs EXCEPT ![d] = jobs[d]] /\ latest' = [latest EXCEPT ![d] = latest[d]]
  BY KeptTables DEF ParserInv
<1>4. Tables' /\ DocsInv'
  BY <1>2, <1>3, OneDocument DEF ParserInv
<1> QED
  BY <1>4, ParserKept DEF ParserInv

LEMMA ReviewKeeps == ASSUME ParserInv, NEW d \in Docs, Review(d) PROVE ParserInv'
<1>1. PICK r \in Runs(d) : Correct(d, r) \/ Approve(d, r)
  BY DEF Review
<1>2. r \in DOMAIN jobs[d] /\ jobs[d] \in Seq(Job)
  BY DEF Runs, ParserInv, Tables
<1>3. jobs[d] # << >> /\ r # 0
  BY <1>2, LenProperties, EmptySeq
<1>4. CASE Correct(d, r)
  <2>1. (IF approved[d] = r THEN 0 ELSE approved[d]) \in {0, approved[d]} \cup Runs(d)
    OBVIOUS
  <2>2. approved' = [approved EXCEPT ![d] = IF approved[d] = r THEN 0 ELSE approved[d]]
    BY <1>4 DEF Correct
  <2> QED
    BY <1>3, <1>4, <2>1, <2>2, ReviewMoves DEF Correct, SetStatus
<1>5. CASE Approve(d, r)
  BY <1>3, <1>5, ReviewMoves DEF Approve, SetStatus
<1> QED
  BY <1>1, <1>4, <1>5

LEMMA ExportKeeps == ASSUME ParserInv, NEW d \in Docs, Export(d) PROVE ParserInv'
<1>1. DocInv(jobs[d], status[d], latest[d], approved[d], setup)
  BY DEF ParserInv, DocsInv
<1>2. jobs[d] # << >>
  BY <1>1 DEF Export, Present, DocInv, RowTypes
<1>3. approved' = [approved EXCEPT ![d] = approved[d]]
  BY KeptTables DEF ParserInv, Export, reviewVars
<1> QED
  BY <1>2, <1>3, ReviewMoves DEF Export, SetStatus, reviewVars

LEMMA ArchiveKeeps == ASSUME ParserInv, Archive PROVE ParserInv'
<1>1. Tables' /\ DocsInv'
  BY DEF ParserInv, Tables, DocsInv, Archive, reviewVars
<1>2. SetupInv' /\ DiscoveryInv'
  BY DEF ParserInv, SetupInv, DiscoveryInv, Archive, schemaVars
<1> QED
  BY <1>1, <1>2 DEF ParserInv

\* The documents are as they were.
LEMMA DocumentsKept ==
  ASSUME Tables, DocsInv, UNCHANGED <<status, reviewVars, jobs, setup>>
  PROVE  Tables' /\ DocsInv'
  BY DEF Tables, DocsInv, reviewVars

LEMMA RequestSuggestionKeeps == ASSUME ParserInv, NEW d \in Docs, RequestSuggestion(d) PROVE ParserInv'
<1>1. Tables' /\ DocsInv'
  BY DocumentsKept DEF ParserInv, RequestSuggestion
<1>2. SetupInv'
  BY DEF ParserInv, SetupInv, RequestSuggestion, schemaVars
<1>3. DiscoveryInv'
  BY SuggestionAsked DEF ParserInv, RequestSuggestion
<1> QED
  BY <1>1, <1>2, <1>3 DEF ParserInv

LEMMA RetrySetupKeeps == ASSUME ParserInv, NEW d \in Docs, RetrySetup(d) PROVE ParserInv'
<1>1. Tables' /\ DocsInv'
  BY SetupStarts DEF RetrySetup
<1>2. SetupInv'
  BY DEF ParserInv, SetupInv, RetrySetup, QueueInitialSetup, schemaVars
<1>3. DiscoveryInv'
  BY SuggestionAsked DEF ParserInv, RetrySetup, QueueInitialSetup
<1> QED
  BY <1>1, <1>2, <1>3 DEF ParserInv

\* What is held in tables that a step is still writing becomes what setup makes of it.
LEMMA AllHeldBecome ==
  ASSUME NEW js \in [Docs -> Seq(Job)], NEW st \in [Docs -> Statuses], NEW s \in {"queued", "failed"},
         \A c \in Docs : \E su : DocInv(js[c], st[c], latest[c], approved[c], su)
  PROVE  /\ WithHeld(js, s) \in [Docs -> Seq(Job)] /\ Mark(st, HeldDocs(js), s) \in [Docs -> Statuses]
         /\ \A c \in Docs : DocInv(WithHeld(js, s)[c], Mark(st, HeldDocs(js), s)[c], latest[c], approved[c],
                                   IF s = "queued" THEN "suggesting" ELSE "failed")
<1>1. \A c \in Docs : js[c] \in Seq(Job) /\ HeldAs(js[c], s) \in Seq(Job)
  BY HeldTypes
<1>2. WithHeld(js, s) \in [Docs -> Seq(Job)]
  BY <1>1 DEF WithHeld, HeldAs
<1>3. Mark(st, HeldDocs(js), s) \in [Docs -> Statuses]
  BY DEF Mark, Statuses
<1>4. ASSUME NEW c \in Docs
      PROVE  DocInv(WithHeld(js, s)[c], Mark(st, HeldDocs(js), s)[c], latest[c], approved[c],
                    IF s = "queued" THEN "suggesting" ELSE "failed")
  <2>1. PICK su : DocInv(js[c], st[c], latest[c], approved[c], su)
    OBVIOUS
  <2>2. DocInv(HeldAs(js[c], s), IF Held(js[c]) THEN s ELSE st[c], latest[c], approved[c],
               IF s = "queued" THEN "suggesting" ELSE "failed")
    BY <2>1, HeldBecome
  <2> QED
    BY <2>2, HeldRows
<1> QED
  BY <1>2, <1>3, <1>4

LEMMA UploadKeeps == ASSUME ParserInv, NEW d \in Docs, Upload(d) PROVE ParserInv'
<1> DEFINE job == NewJob(setup # "ready")
           js == [jobs EXCEPT ![d] = <<job>>]
           st == [status EXCEPT ![d] = "queued"]
<1>1. DocInv(jobs[d], status[d], latest[d], approved[d], setup) /\ jobs[d] = << >>
  BY DEF ParserInv, DocsInv, DocInv, RowTypes, Upload
<1>2. /\ job \in Job /\ job.state = "queued" /\ job.attempts = 0 /\ (job.waiting <=> setup # "ready")
      /\ SetupMode = "sample" /\ ~job.waiting => job.schema > 1
  <2>1. active \in VersionIds /\ (SetupMode = "sample" /\ setup = "ready" => active > 1) /\ 0 \in 0..MaxAttempts
    BY DocumentsAssumption DEF ParserInv, SetupInv, VersionIds
  <2>2. CASE setup = "ready"
    <3>1. job = [state |-> "queued", waiting |-> FALSE, schema |-> active, attempts |-> 0]
      BY <2>2 DEF NewJob
    <3> HIDE DEF job
    <3>2. job \in Job /\ ~job.waiting /\ job.state = "queued" /\ job.attempts = 0 /\ job.schema = active
      BY <2>1, <3>1 DEF Job
    <3> QED
      BY <2>1, <2>2, <3>2
  <2>3. CASE setup # "ready"
    <3>1. job = [state |-> "queued", waiting |-> TRUE, schema |-> active, attempts |-> 0]
      BY <2>3 DEF NewJob
    <3> HIDE DEF job
    <3>2. job \in Job /\ job.waiting /\ job.state = "queued" /\ job.attempts = 0
      BY <2>1, <3>1 DEF Job
    <3> QED
      BY <2>3, <3>2
  <2> QED
    BY <2>2, <2>3
<1>3. \/ /\ setup = "awaiting_sample" \/ (setup = "failed" /\ pointer = 0)
         /\ QueueInitialSetup(d, js, st)
      \/ /\ setup = "failed" /\ pointer # 0
         /\ FailInitialSetup(js, st) /\ UNCHANGED <<pointer, suggestions>>
      \/ /\ setup \in {"ready", "suggesting"}
         /\ jobs' = js /\ status' = st /\ UNCHANGED <<setup, pointer, suggestions>>
  BY DEF Upload
<1>4. UNCHANGED <<latest, approved, archived, active, versions>>
  BY DEF Upload, reviewVars, schemaVars
<1> HIDE DEF job
<1>5. DocInv(<<job>>, "queued", latest[d], approved[d], IF setup = "ready" THEN "ready" ELSE "suggesting")
  BY <1>1, <1>2, Begun
<1>6. /\ js[d] = <<job>> /\ st[d] = "queued" /\ js \in [Docs -> Seq(Job)] /\ st \in [Docs -> Statuses]
      /\ \A c \in Docs : c # d => js[c] = jobs[c] /\ st[c] = status[c]
  <2>1. <<job>> \in Seq(Job)
    BY <1>2
  <2> QED
    BY <2>1 DEF ParserInv, Tables, Statuses
<1>7. \A c \in Docs : \E su : DocInv(js[c], st[c], latest[c], approved[c], su)
  <2> SUFFICES ASSUME NEW c \in Docs PROVE \E su : DocInv(js[c], st[c], latest[c], approved[c], su)
    OBVIOUS
  <2>1. CASE c = d
    BY <1>5, <1>6, <2>1
  <2>2. CASE c # d
    BY <1>6, <2>2 DEF ParserInv, DocsInv
  <2> QED
    BY <2>1, <2>2
<1> HIDE DEF js, st
<1>8. CASE (setup = "awaiting_sample" \/ (setup = "failed" /\ pointer = 0)) /\ QueueInitialSetup(d, js, st)
  <2>1. StuckDocs(js) \subseteq HeldDocs(js)
    BY DEF StuckDocs, HeldDocs
  <2>2. ASSUME NEW c \in Docs, c \in HeldDocs(js), c # d PROVE c \in StuckDocs(js)
    <3>1. HeldRow(jobs[c], setup) /\ js[c] = jobs[c]
      BY <1>6, <2>2 DEF ParserInv, DocsInv, DocInv
    <3> QED
      BY <1>8, <2>2, <3>1 DEF StuckDocs, HeldDocs, HeldRow
  <2>3. Mark(st, StuckDocs(js), "queued") = Mark(st, HeldDocs(js), "queued")
    BY <1>6, <2>1, <2>2 DEF Mark, StuckDocs, HeldDocs
  <2>4. jobs' = WithHeld(js, "queued") /\ status' = Mark(st, HeldDocs(js), "queued") /\ setup' = "suggesting"
    BY <1>8, <2>3 DEF QueueInitialSetup
  <2>5. Tables' /\ DocsInv'
    BY <1>4, <1>6, <1>7, <2>4, AllHeldBecome DEF ParserInv, Tables, DocsInv
  <2>6. SetupInv'
    BY <1>4, <1>8, <2>4 DEF ParserInv, SetupInv
  <2>7. DiscoveryInv'
    BY <1>8, SuggestionAsked DEF ParserInv, QueueInitialSetup
  <2> QED
    BY <2>5, <2>6, <2>7 DEF ParserInv
<1>9. CASE setup = "failed" /\ FailInitialSetup(js, st) /\ UNCHANGED <<pointer, suggestions>>
  <2>1. jobs' = WithHeld(js, "failed") /\ status' = Mark(st, HeldDocs(js), "failed") /\ setup' = "failed"
    BY <1>9 DEF FailInitialSetup
  <2>2. Tables' /\ DocsInv'
    BY <1>4, <1>6, <1>7, <2>1, AllHeldBecome DEF ParserInv, Tables, DocsInv
  <2>3. SetupInv' /\ DiscoveryInv'
    BY <1>4, <1>9, <2>1, ParserKept DEF ParserInv, schemaVars
  <2> QED
    BY <2>2, <2>3 DEF ParserInv
<1>10. CASE setup \in {"ready", "suggesting"} /\ jobs' = js /\ status' = st /\ UNCHANGED <<setup, pointer, suggestions>>
  <2>1. DocInv(<<job>>, "queued", latest[d], approved[d], setup)
    BY <1>5, <1>10
  <2>2. latest' = [latest EXCEPT ![d] = latest[d]] /\ approved' = [approved EXCEPT ![d] = approved[d]]
    BY <1>4, KeptTables DEF ParserInv
  <2>3. Tables' /\ DocsInv'
    BY <1>10, <2>1, <2>2, OneDocument DEF ParserInv, js, st
  <2>4. SetupInv' /\ DiscoveryInv'
    BY <1>4, <1>10, ParserKept DEF ParserInv, schemaVars
  <2> QED
    BY <2>3, <2>4 DEF ParserInv
<1> QED
  BY <1>3, <1>8, <1>9, <1>10

\* The cascade empties the document's row and its references.
LEMMA DeleteDocuments == ASSUME ParserInv, NEW d \in Docs, Delete(d) PROVE Tables' /\ DocsInv'
<1>1. \A su : DocInv(<< >>, "deleted", 0, 0, su)
  BY DocumentsAssumption DEF DocInv, RowTypes, RunsOf, NewestWorks, HeldRow, FieldsKnown, StatusTrue, Statuses
<1>2. latest' = [latest EXCEPT ![d] = 0] /\ approved' = [approved EXCEPT ![d] = 0]
  BY DEF Delete
<1>3. << >> \in Seq(Job) /\ "deleted" \in Statuses
  BY DEF Statuses
<1>4. CASE setup # "ready" /\ IsSetupSource(d)
  <2> DEFINE js == WithHeld(jobs, "failed")
             st == Mark(status, HeldDocs(jobs), "failed")
  <2>1. jobs' = [js EXCEPT ![d] = << >>] /\ status' = [st EXCEPT ![d] = "deleted"] /\ setup' = "failed"
    BY <1>4 DEF Delete, Detach
  <2>2. /\ js \in [Docs -> Seq(Job)] /\ st \in [Docs -> Statuses]
        /\ \A c \in Docs : DocInv(js[c], st[c], latest[c], approved[c], "failed")
    <3>1. \A c \in Docs : \E su : DocInv(jobs[c], status[c], latest[c], approved[c], su)
      BY DEF ParserInv, DocsInv
    <3> QED
      BY <3>1, AllHeldBecome DEF ParserInv, Tables
  <2> HIDE DEF js, st
  <2>3. Tables'
    BY <1>2, <1>3, <2>1, <2>2 DEF ParserInv, Tables
  <2>4. ASSUME NEW c \in Docs PROVE DocInv(jobs'[c], status'[c], latest'[c], approved'[c], setup')
    <3>1. CASE c = d
      <4>1. jobs'[c] = << >> /\ status'[c] = "deleted" /\ latest'[c] = 0 /\ approved'[c] = 0
        BY <1>2, <2>1, <2>2, <3>1 DEF ParserInv, Tables
      <4> QED
        BY <1>1, <4>1
    <3>2. CASE c # d
      <4>1. jobs'[c] = js[c] /\ status'[c] = st[c] /\ latest'[c] = latest[c] /\ approved'[c] = approved[c]
        BY <1>2, <2>1, <2>2, <3>2 DEF ParserInv, Tables
      <4> QED
        BY <2>1, <2>2, <4>1
    <3> QED
      BY <3>1, <3>2
  <2> QED
    BY <2>3, <2>4 DEF DocsInv
<1>5. CASE ~(setup # "ready" /\ IsSetupSource(d))
  <2>1. jobs' = [jobs EXCEPT ![d] = << >>] /\ status' = [status EXCEPT ![d] = "deleted"] /\ UNCHANGED setup
    BY <1>5 DEF Delete, Detach, DetachNothing, SetStatus
  <2> QED
    BY <1>1, <1>2, <2>1, OneDocument DEF ParserInv
<1> QED
  BY <1>4, <1>5

LEMMA DeleteKeeps == ASSUME ParserInv, NEW d \in Docs, Delete(d) PROVE ParserInv'
<1>1. Tables' /\ DocsInv'
  BY DeleteDocuments
<1>2. IF setup # "ready" /\ IsSetupSource(d) THEN setup' = "failed" ELSE setup' = setup
  BY DEF Delete, Detach
<1>3. SetupInv'
  BY <1>2 DEF ParserInv, SetupInv, Delete, schemaVars
<1> DEFINE Gone(s) == [suggestions[s] EXCEPT !.state = "gone"]
<1>4. Len(suggestions) \in Nat /\ DOMAIN suggestions = 1..Len(suggestions)
      /\ \A s \in DOMAIN suggestions : suggestions[s] \in Suggestion
  BY LenProperties, ElementOfSeq DEF ParserInv, DiscoveryInv
<1>5. ASSUME NEW s \in DOMAIN suggestions
      PROVE  Gone(s) \in Suggestion /\ Gone(s).state = "gone"
  BY <1>4 DEF Suggestion
<1>6. suggestions' = [s \in DOMAIN suggestions |-> IF suggestions[s].doc = d THEN Gone(s) ELSE suggestions[s]]
  BY DEF Delete
<1> HIDE DEF Gone
<1>7. suggestions' \in [DOMAIN suggestions -> Suggestion]
  BY <1>4, <1>5, <1>6
<1>8. suggestions' \in Seq(Suggestion) /\ Len(suggestions') = Len(suggestions) /\ DOMAIN suggestions' = DOMAIN suggestions
  BY <1>7, SameLength DEF ParserInv, DiscoveryInv
<1>9. \A s \in DOMAIN suggestions :
        /\ suggestions[s].doc = d => suggestions'[s].state = "gone"
        /\ suggestions[s].doc # d => suggestions'[s] = suggestions[s]
  BY <1>5, <1>6
<1>10. pointer' = IF IsSetupSource(d) THEN 0 ELSE pointer
  BY DEF Delete, PointerCleared
<1>11. pointer' # 0 => pointer' = pointer /\ pointer \in DOMAIN suggestions /\ suggestions'[pointer] = suggestions[pointer]
  BY <1>9, <1>10 DEF ParserInv, DiscoveryInv, IsSetupSource
<1>12. setup' = "suggesting" => setup = "suggesting" /\ pointer' = pointer
  BY <1>2, <1>10
<1>13. ASSUME NEW s \in DOMAIN suggestions'
       PROVE  /\ suggestions'[s].auto /\ suggestions'[s].state \in Active =>
                   setup' = "ready" \/ (setup' = "suggesting" /\ pointer' = s)
              /\ suggestions'[s].applied # 0 => suggestions'[s].state \in {"ready", "gone"}
  <2>1. CASE suggestions[s].doc = d
    BY <1>8, <1>9, <2>1 DEF Active
  <2>2. CASE suggestions[s].doc # d
    <3>1. suggestions'[s] = suggestions[s]
      BY <1>8, <1>9, <2>2
    <3>2. pointer = s => ~IsSetupSource(d)
      BY <2>2 DEF IsSetupSource
    <3> QED
      BY <1>2, <1>8, <1>10, <3>1, <3>2 DEF ParserInv, DiscoveryInv
  <2> QED
    BY <2>1, <2>2
<1>14. DiscoveryInv'
  BY <1>8, <1>10, <1>11, <1>12, <1>13 DEF ParserInv, DiscoveryInv
<1> QED
  BY <1>1, <1>3, <1>14 DEF ParserInv

LEMMA SaveSchemaKeeps ==
  ASSUME ParserInv, NEW s \in {0} \cup DOMAIN suggestions, SaveSchema(s) PROVE ParserInv'
<1>1. versions \in Nat /\ versions >= 1 /\ versions + 1 \in VersionIds /\ versions + 1 > 1 /\ setup' = "ready"
  BY DocumentsAssumption DEF SaveSchema, ParserInv, SetupInv, VersionIds
<1>2. Tables' /\ DocsInv'
  <2>1. CASE setup = "ready"
    BY <1>1, <2>1, DocumentsKept DEF SaveSchema, ParserInv
  <2>2. CASE setup # "ready"
    BY <1>1, <2>2, SetupEnds DEF SaveSchema, ParserInv
  <2> QED
    BY <2>1, <2>2
<1>3. SetupInv'
  BY <1>1 DEF SaveSchema, ParserInv, SetupInv
<1>4. pointer' \in {0, pointer}
  BY DEF SaveSchema
<1>5. CASE s = 0
  BY <1>1, <1>2, <1>3, <1>4, <1>5 DEF ParserInv, DiscoveryInv, SaveSchema
<1>6. CASE s # 0
  <2> DEFINE new == [suggestions[s] EXCEPT !.applied = versions + 1]
  <2>1. s \in DOMAIN suggestions /\ suggestions[s] \in Suggestion /\ suggestions[s].state = "ready"
    BY <1>6, LenProperties, ElementOfSeq DEF ParserInv, DiscoveryInv, SaveSchema, Applicable
  <2>2. new \in Suggestion /\ new.state = "ready"
    BY <1>1, <2>1 DEF Suggestion
  <2>3. suggestions' = [suggestions EXCEPT ![s] = new]
    BY <1>6 DEF SaveSchema
  <2> HIDE DEF new
  <2>4. /\ suggestions' \in Seq(Suggestion) /\ Len(suggestions') = Len(suggestions)
        /\ DOMAIN suggestions' = DOMAIN suggestions
        /\ suggestions'[s] = new /\ \A r \in DOMAIN suggestions : r # s => suggestions'[r] = suggestions[r]
    BY <2>1, <2>2, <2>3, ExceptSeq DEF ParserInv, DiscoveryInv
  <2>5. ASSUME NEW r \in DOMAIN suggestions'
        PROVE  suggestions'[r].applied # 0 => suggestions'[r].state \in {"ready", "gone"}
    BY <2>2, <2>4 DEF ParserInv, DiscoveryInv
  <2>6. pointer' # 0 => pointer' \in DOMAIN suggestions' /\ suggestions'[pointer'].state # "gone"
    BY <1>4, <2>2, <2>4 DEF ParserInv, DiscoveryInv
  <2>7. DiscoveryInv'
    BY <1>1, <1>4, <2>4, <2>5, <2>6 DEF ParserInv, DiscoveryInv
  <2> QED
    BY <1>2, <1>3, <2>7 DEF ParserInv
<1> QED
  BY <1>5, <1>6

\* A suggestion that the parser waits for is the one it points at.
LEMMA Finishing ==
  ASSUME ParserInv, NEW s \in DOMAIN suggestions, suggestions[s].state = "processing"
  PROVE  /\ suggestions[s] \in Suggestion /\ suggestions[s].applied = 0 /\ s # 0
         /\ setup = "suggesting" /\ pointer = s => FinishesSetup(s)
<1>1. suggestions \in Seq(Suggestion)
  BY DEF ParserInv, DiscoveryInv
<1>2. suggestions[s] \in Suggestion /\ s # 0
  BY <1>1, LenProperties, ElementOfSeq
<1>3. suggestions[s].applied = 0
  BY DEF ParserInv, DiscoveryInv
<1>4. setup = "suggesting" /\ pointer = s => FinishesSetup(s)
  BY DEF ParserInv, DiscoveryInv, FinishesSetup
<1> QED
  BY <1>2, <1>3, <1>4

\* A suggestion comes to rest, is put back or is applied, with what that makes of the setup.
LEMMA SuggestionSettles ==
  ASSUME ParserInv, NEW s \in DOMAIN suggestions, suggestions[s].state \in Active,
         NEW new \in Suggestion, new.state \in {"queued", "processing", "ready", "failed"},
         new.auto = suggestions[s].auto, new.applied # 0 => new.state = "ready",
         suggestions' = [suggestions EXCEPT ![s] = new], UNCHANGED pointer,
         setup' # setup => setup = "suggesting" /\ (setup' = "ready" \/ (setup' = "failed" /\ pointer = s /\ new.state \notin Active)),
         setup' = "suggesting" /\ pointer = s => new.state \in Active
  PROVE  DiscoveryInv'
  BY SuggestionMoves DEF ParserInv

LEMMA SuggestionRests ==
  ASSUME ParserInv, NEW s \in DOMAIN suggestions, suggestions[s].state = "processing",
         NEW to \in {"queued", "ready", "failed"}, SetSuggestion(s, to),
         IF FinishesSetup(s) /\ to # "queued" THEN FailInitialSetup(jobs, status)
         ELSE UNCHANGED <<status, jobs, setup>>,
         UNCHANGED <<reviewVars, pointer, archived, schemaVars>>
  PROVE  ParserInv'
<1> DEFINE new == [suggestions[s] EXCEPT !.state = to]
<1>1. /\ suggestions[s] \in Suggestion /\ suggestions[s].applied = 0 /\ s # 0
      /\ setup = "suggesting" /\ pointer = s => FinishesSetup(s)
  BY Finishing
<1>2. new \in Suggestion /\ new.state = to /\ new.auto = suggestions[s].auto /\ new.applied = 0
  BY <1>1 DEF Suggestion
<1>3. suggestions' = [suggestions EXCEPT ![s] = new]
  BY DEF SetSuggestion
<1> HIDE DEF new
<1>4. CASE FinishesSetup(s) /\ to # "queued"
  <2>1. Tables' /\ DocsInv' /\ setup' = "failed"
    BY <1>4, SetupFails DEF ParserInv
  <2>2. SetupInv'
    BY <1>4, <2>1 DEF ParserInv, SetupInv, FinishesSetup, schemaVars
  <2>3. setup = "suggesting" /\ pointer = s /\ to \notin Active /\ suggestions[s].state \in Active
    BY <1>4 DEF FinishesSetup, Active
  <2>4. DiscoveryInv'
    BY <1>2, <1>3, <2>1, <2>3, SuggestionSettles
  <2> QED
    BY <2>1, <2>2, <2>4 DEF ParserInv
<1>5. CASE ~(FinishesSetup(s) /\ to # "queued")
  <2>1. Tables' /\ DocsInv' /\ setup' = setup
    BY <1>5, DocumentsKept DEF ParserInv
  <2>2. SetupInv'
    BY <2>1 DEF ParserInv, SetupInv, schemaVars
  <2>3. (setup' = "suggesting" /\ pointer = s => to \in Active) /\ suggestions[s].state \in Active
    BY <1>1, <1>5, <2>1 DEF Active
  <2>4. DiscoveryInv'
    BY <1>2, <1>3, <2>1, <2>3, SuggestionSettles
  <2> QED
    BY <2>1, <2>2, <2>4 DEF ParserInv
<1> QED
  BY <1>4, <1>5

LEMMA ClaimSuggestionKeeps ==
  ASSUME ParserInv, NEW s \in DOMAIN suggestions, ClaimSuggestion(s) PROVE ParserInv'
<1> DEFINE new == [suggestions[s] EXCEPT !.state = "processing", !.attempts = @ + 1]
<1>1. suggestions[s] \in Suggestion /\ suggestions[s].state = "queued" /\ suggestions[s].applied = 0
  <2>1. suggestions \in Seq(Suggestion) /\ suggestions[s].state = "queued"
    BY DEF ParserInv, DiscoveryInv, ClaimSuggestion
  <2> QED
    BY <2>1, LenProperties, ElementOfSeq DEF ParserInv, DiscoveryInv
<1>2. suggestions[s].attempts + 1 \in 0..MaxAttempts
  BY <1>1, DocumentsAssumption DEF ClaimSuggestion, Suggestion
<1>3. new \in Suggestion /\ new.state = "processing" /\ new.auto = suggestions[s].auto /\ new.applied = 0
  <2> HIDE DEF VersionIds
  <2> QED
    BY <1>1, <1>2 DEF Suggestion
<1>4. suggestions' = [suggestions EXCEPT ![s] = new]
  BY DEF ClaimSuggestion
<1> HIDE DEF new
<1>5. Tables' /\ DocsInv'
  BY DocumentsKept DEF ParserInv, ClaimSuggestion
<1>6. SetupInv'
  BY DEF ParserInv, SetupInv, ClaimSuggestion, schemaVars
<1>7. UNCHANGED <<setup, pointer>> /\ suggestions[s].state \in Active /\ new.state \in Active
  BY <1>1, <1>3 DEF ClaimSuggestion, Active
<1>8. DiscoveryInv'
  BY <1>3, <1>4, <1>7, SuggestionSettles
<1> QED
  BY <1>5, <1>6, <1>8 DEF ParserInv

LEMMA SuggestionEndsKeeps ==
  ASSUME ParserInv, NEW s \in DOMAIN suggestions, SuggestionEnds(s) PROVE ParserInv'
<1>1. suggestions[s].state = "processing"
  BY DEF SuggestionEnds, SaveSuggestion, RejectSuggestion, RetrySuggestion, RecoverSuggestion
<1>2. CASE RejectSuggestion(s)
  BY <1>1, <1>2, SuggestionRests DEF RejectSuggestion, FailCurrentSetup
<1>3. CASE RetrySuggestion(s)
  BY <1>1, <1>3, SuggestionRests DEF RetrySuggestion
<1>4. CASE RecoverSuggestion(s)
  BY <1>1, <1>4, SuggestionRests DEF RecoverSuggestion, FailCurrentSetup
<1>5. CASE SaveSuggestion(s)
  <2>1. CASE ~FinishesSetup(s) /\ SetSuggestion(s, "ready") /\ UNCHANGED <<status, jobs, setup, schemaVars>>
    BY <1>1, <1>5, <2>1, SuggestionRests DEF SaveSuggestion
  <2>2. CASE FinishesSetup(s) /\ SetSuggestion(s, "ready") /\ FailInitialSetup(jobs, status) /\ UNCHANGED schemaVars
    BY <1>1, <1>5, <2>2, SuggestionRests DEF SaveSuggestion
  <2>3. CASE /\ FinishesSetup(s) /\ ~archived /\ active = suggestions[s].base
             /\ versions' = versions + 1 /\ active' = versions + 1
             /\ setup' = "ready" /\ ReleaseInitialJobs(versions + 1)
             /\ suggestions' = [suggestions EXCEPT ![s].state = "ready", ![s].applied = versions + 1]
    <3> DEFINE new == [suggestions[s] EXCEPT !.state = "ready", !.applied = versions + 1]
    <3>1. suggestions[s] \in Suggestion
      BY <1>1, Finishing
    <3>2. setup = "suggesting" /\ versions = 1
      BY <2>3 DEF FinishesSetup, ParserInv, SetupInv
    <3>3. versions + 1 \in VersionIds /\ versions + 1 > 1
      BY <3>2, DocumentsAssumption DEF VersionIds
    <3>4. new \in Suggestion /\ new.state = "ready" /\ new.auto = suggestions[s].auto
      <4> HIDE DEF VersionIds
      <4> QED
        BY <3>1, <3>3 DEF Suggestion
    <3>5. suggestions' = [suggestions EXCEPT ![s] = new]
      BY <2>3
    <3> HIDE DEF new
    <3>6. UNCHANGED <<reviewVars, pointer, archived>>
      BY <1>5 DEF SaveSuggestion
    <3>7. Tables' /\ DocsInv'
      BY <2>3, <3>3, <3>6, SetupEnds DEF ParserInv
    <3>8. SetupInv'
      BY <2>3, <3>3, <3>6 DEF ParserInv, SetupInv, VersionIds
    <3>9. suggestions[s].state \in Active
      BY <1>1 DEF Active
    <3>10. /\ UNCHANGED pointer /\ new.state \in {"queued", "processing", "ready", "failed"}
           /\ new.applied # 0 => new.state = "ready"
           /\ setup' # setup => setup = "suggesting" /\ (setup' = "ready" \/ (setup' = "failed" /\ pointer = s /\ new.state \notin Active))
           /\ setup' = "suggesting" /\ pointer = s => new.state \in Active
      BY <2>3, <3>2, <3>4, <3>6
    <3>11. DiscoveryInv'
      BY <3>4, <3>5, <3>9, <3>10, SuggestionSettles
    <3> QED
      BY <3>7, <3>8, <3>11 DEF ParserInv
  <2> QED
    BY <1>5, <2>1, <2>2, <2>3 DEF SaveSuggestion
<1> QED
  BY <1>2, <1>3, <1>4, <1>5 DEF SuggestionEnds

-----------------------------------------------------------------------------
(***************************************************************************)
(* The invariant and what it says.                                         *)
(***************************************************************************)
LEMMA ParserInit == ASSUME Init PROVE ParserInv
<1>1. Tables
  BY DEF Init, Tables, Statuses
<1>2. \A su : DocInv(<< >>, "absent", 0, 0, su)
  BY DocumentsAssumption DEF DocInv, RowTypes, RunsOf, NewestWorks, HeldRow, FieldsKnown, StatusTrue, Statuses
<1>3. DocsInv
  BY <1>2 DEF Init, DocsInv
<1>4. SetupInv
  <2>1. MaxVersions \in Nat \ {0} /\ MaxSuggestions \in Nat \ {0}
    BY DocumentsAssumption
  <2>2. 1 \in VersionIds
    BY <2>1 DEF VersionIds
  <2>3. SetupMode = "sample" => setup # "ready"
    BY DEF Init
  <2>4. setup \in {"awaiting_sample", "ready"}
    BY DEF Init
  <2>5. versions = 1 /\ active = 1 /\ archived = FALSE /\ 1 \in 1..1
    BY DEF Init
  <2> HIDE DEF VersionIds
  <2> QED
    BY <2>2, <2>3, <2>4, <2>5 DEF SetupInv
<1>5. DiscoveryInv
  BY DocumentsAssumption DEF Init, DiscoveryInv
<1> QED
  BY <1>1, <1>3, <1>4, <1>5 DEF ParserInv

LEMMA ParserStep == ASSUME ParserInv, [Next]_vars PROVE ParserInv'
<1>1. CASE UNCHANGED vars
  <2>1. UNCHANGED <<status, latest, approved, jobs, setup, pointer, archived, active, versions, suggestions>>
    BY <1>1 DEF vars, reviewVars, schemaVars
  <2>2. Tables' /\ DocsInv'
    BY <2>1 DEF ParserInv, Tables, DocsInv
  <2>3. SetupInv' /\ DiscoveryInv'
    BY <2>1 DEF ParserInv, SetupInv, DiscoveryInv
  <2> QED
    BY <2>2, <2>3 DEF ParserInv
<1>2. ASSUME NEW d \in Docs, WorkJob(d) PROVE ParserInv'
  BY <1>2, ClaimJobKeeps, JobEndsKeeps DEF WorkJob
<1>3. ASSUME NEW d \in Docs, Upload(d) \/ Reprocess(d) \/ Delete(d) \/ Review(d) \/ Export(d)
                            \/ RetrySetup(d) \/ RequestSuggestion(d)
      PROVE  ParserInv'
  BY <1>3, UploadKeeps, ReprocessKeeps, DeleteKeeps, ReviewKeeps, ExportKeeps, RetrySetupKeeps, RequestSuggestionKeeps
<1>4. ASSUME NEW s \in DOMAIN suggestions, WorkSuggestion(s) PROVE ParserInv'
  BY <1>4, ClaimSuggestionKeeps, SuggestionEndsKeeps DEF WorkSuggestion
<1> QED
  BY <1>1, <1>2, <1>3, <1>4, SaveSchemaKeeps, ArchiveKeeps DEF Next

\* Every reachable state keeps what documents, their held work, the parser's setup and its
\* discovery owe one another: the argument behind the theorems below.
THEOREM ParserInvariant == Spec => []ParserInv
<1>1. Init => ParserInv
  BY ParserInit
<1>2. ParserInv /\ [Next]_vars => ParserInv'
  BY ParserStep
<1> QED
  BY <1>1, <1>2, PTL DEF Spec

LEMMA RowFacts ==
  ASSUME ParserInv, NEW d \in Docs
  PROVE  /\ DocInv(jobs[d], status[d], latest[d], approved[d], setup)
         /\ jobs[d] \in Seq(Job) /\ Len(jobs[d]) \in Nat /\ DOMAIN jobs[d] = 1..Len(jobs[d])
         /\ \A i \in DOMAIN jobs[d] : jobs[d][i] \in Job
         /\ Present(d) <=> jobs[d] # << >>
<1>1. DocInv(jobs[d], status[d], latest[d], approved[d], setup)
  BY DEF ParserInv, DocsInv
<1>2. jobs[d] \in Seq(Job) /\ (Present(d) <=> jobs[d] # << >>)
  BY <1>1 DEF DocInv, RowTypes, Present
<1> QED
  BY <1>1, <1>2, LenProperties, ElementOfSeq

\* Rows keep their types, runs are completed jobs of their own document, and the setup
\* pointer is a suggestion of this parser that still exists.
THEOREM TypesAreKept == Spec => []TypeOK
<1>1. ParserInv => TypeOK
  <2> SUFFICES ASSUME ParserInv PROVE TypeOK
    OBVIOUS
  <2>1. ASSUME NEW d \in Docs
        PROVE  /\ DOMAIN jobs[d] = 1..Len(jobs[d]) /\ Len(jobs[d]) <= MaxJobs
               /\ \A i \in DOMAIN jobs[d] : jobs[d][i] \in Job
               /\ latest[d] \in {0} \cup Runs(d) /\ approved[d] \in {0} \cup Runs(d)
    BY RowFacts DEF DocInv, RowTypes, Runs, RunsOf
  <2>2. /\ DOMAIN suggestions = 1..Len(suggestions) /\ Len(suggestions) <= MaxSuggestions
        /\ \A s \in DOMAIN suggestions : suggestions[s] \in Suggestion
        /\ pointer # 0 => pointer \in DOMAIN suggestions /\ suggestions[pointer].state # "gone"
    BY LenProperties, ElementOfSeq DEF ParserInv, DiscoveryInv
  <2> QED
    BY <2>1, <2>2 DEF TypeOK, ParserInv, Tables, SetupInv
<1> QED
  BY <1>1, ParserInvariant, PTL

\* However uploads, setup retries, releases and reprocessing interleave, none of them meets
\* the unique index on a document's active job.
THEOREM OneJobPerDocument == Spec => []OneActiveJob
<1>1. ParserInv => OneActiveJob
  <2> SUFFICES ASSUME ParserInv, NEW d \in Docs
               PROVE  Cardinality({i \in DOMAIN jobs[d] : jobs[d][i].state \in Active}) <= 1
    BY DEF OneActiveJob
  <2> DEFINE A == {i \in DOMAIN jobs[d] : jobs[d][i].state \in Active}
             one == {Len(jobs[d])}
  <2>1. A \subseteq one
    BY RowFacts DEF DocInv, NewestWorks
  <2>2. IsFiniteSet(one) /\ Cardinality(one) = 1
    BY FS_Singleton
  <2>3. IsFiniteSet(A) /\ Cardinality(A) <= Cardinality(one)
    BY <2>1, <2>2, FS_Subset
  <2> QED
    BY <2>2, <2>3
<1> QED
  BY <1>1, ParserInvariant, PTL

\* Work held for the fields has not been tried, and waits or has failed with the setup.
THEOREM HeldWorkIsTheSetups == Spec => []HeldWorkFollowsSetup
<1>1. ParserInv => HeldWorkFollowsSetup
  <2> SUFFICES ASSUME ParserInv, NEW d \in Docs, NEW i \in DOMAIN jobs[d], jobs[d][i].waiting
               PROVE  /\ jobs[d][i].attempts = 0 /\ Present(d)
                      /\ \/ setup = "suggesting" /\ jobs[d][i].state = "queued"
                         \/ setup = "failed" /\ jobs[d][i].state = "failed"
    BY DEF HeldWorkFollowsSetup
  <2>1. jobs[d] # << >>
    BY RowFacts, EmptySeq
  <2> QED
    BY <2>1, RowFacts DEF DocInv, HeldRow
<1> QED
  BY <1>1, ParserInvariant, PTL

\* A parser that says it is discovering fields always has a discovery that can answer.
THEOREM DiscoveryIsAlive == Spec => []SuggestingIsAlive
<1>1. ParserInv => SuggestingIsAlive
  BY DEF ParserInv, DiscoveryInv, SuggestingIsAlive
<1> QED
  BY <1>1, ParserInvariant, PTL

\* A document's status is what its newest job does, or a review of an earlier run.
THEOREM StatusIsTheJobs == Spec => []StatusTellsJob
<1>1. ParserInv => StatusTellsJob
  BY RowFacts DEF DocInv, StatusTrue, StatusTellsJob
<1> QED
  BY <1>1, ParserInvariant, PTL

\* Nothing is extracted with the placeholder fields of a parser set up from a sample.
THEOREM PlaceholdersNeverRun == Spec => []NoPlaceholderRuns
<1>1. ParserInv => NoPlaceholderRuns
  <2> SUFFICES ASSUME ParserInv, SetupMode = "sample", NEW d \in Docs, NEW i \in DOMAIN jobs[d],
                      jobs[d][i].attempts > 0
               PROVE  jobs[d][i].schema > 1
    BY DEF NoPlaceholderRuns
  <2>1. ~jobs[d][i].waiting
    BY RowFacts DEF DocInv, HeldRow
  <2> QED
    BY <2>1, RowFacts DEF DocInv, FieldsKnown
<1> QED
  BY <1>1, ParserInvariant, PTL

\* Suggested fields are applied once, to the version they were suggested for, whichever of
\* a finishing discovery and the users' saves comes first.
THEOREM DraftsApplyOnce == Spec => DraftsApplyToTheirBase
<1> DEFINE Applied ==
      \A s \in DOMAIN suggestions :
        suggestions'[s].applied # suggestions[s].applied =>
          suggestions[s].applied = 0 /\ suggestions[s].base = active
<1>1. ParserInv /\ [Next]_vars => [Applied]_vars
  <2> SUFFICES ASSUME ParserInv, Next, NEW s \in DOMAIN suggestions,
                      suggestions'[s].applied # suggestions[s].applied
               PROVE  suggestions[s].applied = 0 /\ suggestions[s].base = active
    OBVIOUS
  <2>1. /\ suggestions \in Seq(Suggestion) /\ Len(suggestions) \in Nat
        /\ DOMAIN suggestions = 1..Len(suggestions) /\ suggestions[s] \in Suggestion
    BY LenProperties, ElementOfSeq DEF ParserInv, DiscoveryInv
  <2>2. ASSUME NEW new, suggestions' = Append(suggestions, new) PROVE FALSE
    BY <2>1, <2>2
  <2>3. ASSUME NEW d \in Docs PROVE ~RequestSuggestion(d) /\ ~RetrySetup(d)
    BY <2>2 DEF QueueInitialSetup, RequestSuggestion, RetrySetup
  <2>4. ASSUME NEW d \in Docs PROVE ~Upload(d)
    BY <2>2 DEF Upload, QueueInitialSetup
  <2>5. ASSUME NEW d \in Docs PROVE ~Delete(d)
    <3>1. [suggestions[s] EXCEPT !.state = "gone"].applied = suggestions[s].applied
      BY <2>1 DEF Suggestion
    <3> QED
      BY <3>1 DEF Delete
  <2>6. ASSUME NEW d \in Docs PROVE ~Reprocess(d) /\ ~Review(d) /\ ~Export(d) /\ ~WorkJob(d)
    BY DEF Reprocess, Review, Correct, Approve, Export, WorkJob, ClaimJob, JobEnds, SaveRun, RejectJob, RetryJob,
           RecoverJob, jobStep
  <2>7. ASSUME NEW r \in {0} \cup DOMAIN suggestions, SaveSchema(r)
        PROVE  suggestions[s].applied = 0 /\ suggestions[s].base = active
    BY <2>1, <2>7 DEF SaveSchema, Applicable
  <2>8. ASSUME NEW r \in DOMAIN suggestions, WorkSuggestion(r)
        PROVE  suggestions[s].applied = 0 /\ suggestions[s].base = active
    <3>1. ASSUME NEW to, SetSuggestion(r, to) PROVE FALSE
      <4> DEFINE new == [suggestions[r] EXCEPT !.state = to]
      <4>1. r = s => new.applied = suggestions[s].applied
        BY <2>1 DEF Suggestion
      <4>2. suggestions' = [suggestions EXCEPT ![r] = new]
        BY <3>1 DEF SetSuggestion
      <4> HIDE DEF new
      <4> QED
        BY <2>1, <4>1, <4>2
    <3>2. ~ClaimSuggestion(r)
      <4> DEFINE new == [suggestions[r] EXCEPT !.state = "processing", !.attempts = @ + 1]
      <4>1. r = s => new.applied = suggestions[s].applied
        BY <2>1 DEF Suggestion
      <4>2. ClaimSuggestion(r) => suggestions' = [suggestions EXCEPT ![r] = new]
        BY DEF ClaimSuggestion
      <4> HIDE DEF new
      <4> QED
        BY <2>1, <4>1, <4>2
    <3>3. SaveSuggestion(r)
      BY <2>8, <3>1, <3>2 DEF WorkSuggestion, SuggestionEnds, RejectSuggestion, RetrySuggestion, RecoverSuggestion
    <3>4. suggestions[r].applied = 0
      BY <3>3, Finishing DEF SaveSuggestion
    <3>5. active = suggestions[r].base
      BY <3>1, <3>3 DEF SaveSuggestion
    <3>6. s = r
      BY <2>1, <3>1, <3>3 DEF SaveSuggestion
    <3> QED
      BY <3>4, <3>5, <3>6
  <2>9. ~Archive
    BY DEF Archive
  <2> QED
    BY <2>3, <2>4, <2>5, <2>6, <2>7, <2>8, <2>9 DEF Next
<1> QED
  BY <1>1, ParserInvariant, PTL DEF Spec, DraftsApplyToTheirBase
===============================================================================
