----------------------------- MODULE StoredSplits -----------------------------
(* Documents split into documents, which may be split again, and batches undone *)
(* meanwhile (stored-pdf-split.ts, pdf-split-intake.ts, pdf-split-records.ts).   *)
(* Pages are numbered in the file first uploaded; a file is the sequence of its  *)
(* pages, which also stands for its hash. The objects, reservations and quotas   *)
(* of an intake are StoredObjects and DirectUploads.                             *)
EXTENDS Naturals, Sequences, FiniteSets

CONSTANTS
  Length,        \* pages of the uploaded file
  Marked,        \* those whose text contains the marker
  Sizes,         \* piece sizes asked for
  Firsts, Lasts, \* first and last pages of the chosen ranges
  Requests,      \* request ids clients make up
  Splitters,     \* invocations of addSplitDocuments
  MaxDocuments   \* bound on documents ever created

\* Stands for a row that does not exist.
Unused == [state |-> "absent"]

ASSUME StoredSplitsAssumption ==
  /\ {Length, MaxDocuments} \subseteq Nat \ {0} /\ IsFiniteSet(Requests) /\ Unused \notin Requests
  /\ Marked \cup Sizes \cup Firsts \cup Lasts \subseteq 1..Length

VARIABLES
  files,      \* documents in the order of their creation: [pages, batch, index, live]
  bindings,   \* stored_pdf_split_requests: what a request was admitted for
  batches,    \* pdf_splits and pdf_split_children, by request
  splitters,  \* where each invocation is
  charged     \* usage_ledger: pages charged to each request's documents

filesVars == <<files, bindings, batches, splitters, charged>>

(***************************************************************************)
(* shared/pdf-split.ts                                                     *)
(***************************************************************************)
PageRange(s, e) == [start |-> s, end |-> e]
Least(a, b) == IF a < b THEN a ELSE b

\* findPdfMarkerRanges: a range starts at every page with the marker, and at the first.
MarkerStarts(pages) == {1} \cup {i \in DOMAIN pages : pages[i] \in Marked}
MarkerFound(pages) == \E i \in DOMAIN pages : pages[i] \in Marked
MarkerRanges(pages) ==
  LET starts == MarkerStarts(pages)
      Start(i) == CHOOSE p \in starts : Cardinality({q \in starts : q <= p}) = i
  IN [i \in 1..Cardinality(starts) |->
        PageRange(Start(i), IF i = Cardinality(starts) THEN Len(pages) ELSE Start(i + 1) - 1)]

EveryRanges(size, count) ==
  [i \in 1..((count + size - 1) \div size) |-> PageRange((i - 1) * size + 1, Least(i * size, count))]

\* planPdfSplit: the ranges of a request for a file of so many pages ...
Ranges(spec, count) == IF spec.mode = "every" THEN EveryRanges(spec.size, count) ELSE spec.ranges

\* ... and whether it takes them.
Plannable(spec, count) ==
  LET ranges == Ranges(spec, count)
      LastEnd(i) == IF i = 1 THEN 0 ELSE ranges[i - 1].end
  IN /\ \A i \in DOMAIN ranges :
          /\ ranges[i].start <= ranges[i].end /\ ranges[i].start > LastEnd(i) /\ ranges[i].end <= count
          /\ spec.mode = "marker" => ranges[i].start = LastEnd(i) + 1
     /\ spec.mode = "marker" => ranges[Len(ranges)].end = count

\* verifyPdfMarkerRanges: the confirmed ranges are those of the text.
MarkerVerified(spec, pages) ==
  spec.mode = "marker" => MarkerFound(pages) /\ MarkerRanges(pages) = spec.ranges

\* A request: every so many pages, chosen ranges (possibly ill formed), or a confirmed marker plan.
Intervals == {PageRange(s, e) : s \in Firsts, e \in Lasts}
Specs ==
  [mode : {"every"}, size : Sizes]
    \cup [mode : {"ranges"}, ranges : {<<i>> : i \in Intervals}]
    \cup [mode : {"marker"}, ranges : {<<PageRange(1, e), PageRange(e + 1, Length)>> : e \in 1..(Length - 1)}]

(***************************************************************************)
(* The state.                                                              *)
(***************************************************************************)
Uploaded == 0   \* a request whose source is a file and not a stored document
Whole == [i \in 1..Length |-> i]
Resting == [at |-> "idle"]

FilesInit ==
  /\ files = <<[pages |-> Whole, batch |-> Unused, index |-> 0, live |-> TRUE]>>
  /\ bindings = [r \in Requests |-> Unused] /\ batches = [r \in Requests |-> Unused]
  /\ splitters = [a \in Splitters |-> Resting]
  /\ charged = [r \in Requests |-> 0]

Live(d) == d \in DOMAIN files /\ files[d].live
Accepted(r) == batches[r] # Unused /\ batches[r].state = "accepted"
Children(r) == {d \in DOMAIN files : files[d].batch = r}

\* splitRootPages: where a batch's source starts in the first file ...
StartsAtOne(batch) == 1
RootStart(batch) == IF batch.root = Unused THEN 1 ELSE batch.root.start

\* ... and where a range of it lies there.
RootPages(r, range) ==
  LET batch == batches[r]
      offset == RootStart(batch)
      root == IF batch.root = Unused THEN [kind |-> "split", id |-> r, pages |-> batch.pages] ELSE batch.root
  IN [kind |-> root.kind, id |-> root.id, pages |-> root.pages,
      start |-> offset + range.start - 1, end |-> offset + range.end - 1]

\* sourceDescriptor: the lineage of a document that is about to be split.
RootOf(d) ==
  IF files[d].batch # Unused
  THEN RootPages(files[d].batch, batches[files[d].batch].ranges[files[d].index])
  ELSE [kind |-> "document", id |-> d, pages |-> files[d].pages, start |-> 1, end |-> Len(files[d].pages)]

Asked(r, d, spec) == [request |-> r, source |-> d, spec |-> spec]
AskedBy(a) == Asked(splitters[a].request, splitters[a].source, splitters[a].spec)
SplitterGoes(a, place) == splitters' = [splitters EXCEPT ![a].at = place]
Stops(a) == splitters' = [splitters EXCEPT ![a] = Resting]

(***************************************************************************)
(* prior and assertSource, run again in every transaction.                 *)
(***************************************************************************)
\* The batch of the request, asked for by the same source and the same ranges.
ReplaysAnything(r, asked) == batches[r] # Unused
Replays(r, asked) == batches[r] # Unused /\ batches[r].asked = asked
Bound(r, asked) ==
  IF asked.source = Uploaded THEN bindings[r] = Unused ELSE bindings[r] = asked
Prior(r, asked) == Bound(r, asked) /\ Replays(r, asked)
NotMade(r, asked) == Bound(r, asked) /\ batches[r] = Unused

SourceStands(a) == splitters[a].source # Uploaded => Live(splitters[a].source)

Answer(a, receipt) == splitters' = [splitters EXCEPT ![a] =
  [at |-> "answered", request |-> splitters[a].request, source |-> splitters[a].source,
   spec |-> splitters[a].spec, receipt |-> receipt]]

Start(a, r, d, spec, pages, root) == splitters' = [splitters EXCEPT ![a] =
  [at |-> "begun", request |-> r, source |-> d, spec |-> spec, pages |-> pages, root |-> root]]

\* splitStoredPdf's admission: a bound request keeps its meaning, whatever became of it. The
\* object is then read outside any transaction, which changes nothing, or fails (SplitFails).
Admit(a, r, d, spec) ==
  /\ splitters[a].at = "idle" /\ d \in DOMAIN files
  /\ \/ /\ Replays(r, Asked(r, d, spec))
        /\ splitters' = [splitters EXCEPT ![a] =
             [at |-> "answered", request |-> r, source |-> d, spec |-> spec, receipt |-> batches[r].state]]
        /\ UNCHANGED bindings
     \/ /\ batches[r] = Unused /\ bindings[r] \in {Unused, Asked(r, d, spec)} /\ Live(d)
        /\ bindings' = [bindings EXCEPT ![r] = Asked(r, d, spec)]
        /\ Start(a, r, d, spec, files[d].pages, RootOf(d))
  /\ UNCHANGED <<files, batches, charged>>

\* An upload goes straight to addSplitDocuments.
UploadSplit(a, r, spec) ==
  /\ splitters[a].at = "idle" /\ Start(a, r, Uploaded, spec, Whole, Unused)
  /\ UNCHANGED <<files, bindings, batches, charged>>

\* A transaction finds the request's batch and answers with it.
Replay(a) ==
  /\ splitters[a].at \in {"begun", "reserved", "rejecting", "planned"}
  /\ LET r == splitters[a].request IN Prior(r, AskedBy(a)) /\ Answer(a, batches[r].state)
  /\ UNCHANGED <<files, bindings, batches, charged>>

\* The first transaction passes, and the file is decoded and cut outside transactions.
Cut(a) ==
  /\ splitters[a].at = "begun" /\ NotMade(splitters[a].request, AskedBy(a)) /\ SourceStands(a)
  /\ LET spec == splitters[a].spec  pages == splitters[a].pages
     IN SplitterGoes(a, IF Plannable(spec, Len(pages)) /\ MarkerVerified(spec, pages) THEN "planned" ELSE "rejecting")
  /\ UNCHANGED <<files, bindings, batches, charged>>

\* The second reserves the objects, which are then written. The parser's formats may have
\* changed, and may change back: whether they include this one is a choice.
ReserveSplit(a) ==
  /\ splitters[a].at = "planned" /\ NotMade(splitters[a].request, AskedBy(a)) /\ SourceStands(a)
  /\ \E place \in {"reserved", "rejecting"} : SplitterGoes(a, place)
  /\ UNCHANGED <<files, bindings, batches, charged>>

Part(a, ranges, i) ==
  [pages |-> SubSeq(splitters[a].pages, ranges[i].start, ranges[i].end),
   batch |-> splitters[a].request, index |-> i, live |-> TRUE]

\* What the documents of these ranges are charged, one by one.
Selected(ranges) ==
  Cardinality({x \in (DOMAIN ranges) \X (1..Length) : x[2] \in ranges[x[1]].start..ranges[x[1]].end})

\* The third makes the batch, its documents and their charge.
CommitSplit(a) ==
  LET r == splitters[a].request
      ranges == Ranges(splitters[a].spec, Len(splitters[a].pages))
  IN /\ splitters[a].at = "reserved" /\ NotMade(r, AskedBy(a)) /\ SourceStands(a)
     /\ \/ /\ Len(files) + Len(ranges) <= MaxDocuments
           /\ batches' = [batches EXCEPT ![r] = [state |-> "accepted", asked |-> AskedBy(a),
                pages |-> splitters[a].pages, root |-> splitters[a].root, ranges |-> ranges,
                undone |-> FALSE, kept |-> TRUE]]
           /\ files' = files \o [i \in DOMAIN ranges |-> Part(a, ranges, i)]
           /\ charged' = [charged EXCEPT ![r] = @ + Selected(ranges)]
           /\ Answer(a, "accepted")
        \/ SplitterGoes(a, "rejecting") /\ UNCHANGED <<batches, files, charged>>
  /\ UNCHANGED bindings

\* saveRejection: a lasting refusal is the request's outcome too.
RejectSplit(a) ==
  LET r == splitters[a].request
  IN /\ splitters[a].at = "rejecting" /\ NotMade(r, AskedBy(a)) /\ SourceStands(a)
     /\ batches' = [batches EXCEPT ![r] = [state |-> "rejected", asked |-> AskedBy(a)]]
     /\ Answer(a, "rejected")
  /\ UNCHANGED <<files, bindings, charged>>

\* A conflict, a source that is gone, a deadline, a lost answer, a stopped process.
SplitFails(a) ==
  /\ splitters[a].at # "idle" /\ Stops(a)
  /\ UNCHANGED <<files, bindings, batches, charged>>

(***************************************************************************)
(* Deleting documents, undoing batches.                                    *)
(***************************************************************************)
Purged(dead) == [d \in DOMAIN files |-> IF d \in dead THEN [files[d] EXCEPT !.live = FALSE] ELSE files[d]]

\* releaseEmptyPdfSplit: the retained source goes with the last document.
Emptied(r, dead) == \A d \in Children(r) : d \in dead \/ ~files[d].live

PurgeFile(d) ==
  /\ Live(d) /\ files' = Purged({d})
  /\ batches' = [r \in Requests |->
       IF Accepted(r) THEN [batches[r] EXCEPT !.kept = @ /\ ~Emptied(r, {d})] ELSE batches[r]]
  /\ UNCHANGED <<bindings, splitters, charged>>

UndoSplit(r) ==
  /\ Accepted(r) /\ batches[r].asked.source # Uploaded
  /\ files' = Purged(Children(r))
  /\ batches' = [batches EXCEPT ![r].undone = TRUE, ![r].kept = FALSE]
  /\ UNCHANGED <<bindings, splitters, charged>>

\* DELETE /api/pdf-splits/:id
PurgeSplit(r) ==
  /\ Accepted(r) /\ files' = Purged(Children(r)) /\ batches' = [batches EXCEPT ![r].kept = FALSE]
  /\ UNCHANGED <<bindings, splitters, charged>>

FilesNext ==
  \/ \E a \in Splitters :
       \/ \E r \in Requests, spec \in Specs :
            UploadSplit(a, r, spec) \/ \E d \in DOMAIN files : Admit(a, r, d, spec)
       \/ Replay(a) \/ Cut(a) \/ ReserveSplit(a)
       \/ CommitSplit(a) \/ RejectSplit(a) \/ SplitFails(a)
  \/ \E d \in DOMAIN files : PurgeFile(d)
  \/ \E r \in Requests : UndoSplit(r) \/ PurgeSplit(r)

FilesSpec == FilesInit /\ [][FilesNext]_filesVars

(***************************************************************************)
(* Properties.                                                             *)
(***************************************************************************)
\* Every document holds the pages that the lineage shown for it names, counted in the first
\* file: through any number of splits of splits, and whatever was deleted meanwhile.
LineageIsTrue ==
  \A d \in DOMAIN files :
    LET root == RootOf(d)
        first == IF root.kind = "split" THEN batches[root.id].pages ELSE files[root.id].pages
    IN /\ first = root.pages /\ files[d].pages = SubSeq(first, root.start, root.end)
       /\ root.kind = "document" => files[root.id].batch = Unused
       /\ root.kind = "split" => batches[root.id].asked.source = Uploaded

\* The pages of each document of a batch, in the order of its ranges.
Pieces(r) == [i \in DOMAIN batches[r].ranges |->
  files[CHOOSE d \in Children(r) : files[d].index = i].pages]
\* The documents of a batch are the pieces its request asked for: pieces of one size, the last
\* possibly shorter; or the chosen pages; or pieces that each begin at a marker, none omitted.
FitTogether(spec, whole, pieces, charge) ==
  LET pagesOf == UNION {{pieces[i][j] : j \in DOMAIN pieces[i]} : i \in DOMAIN pieces}
      all == {whole[j] : j \in DOMAIN whole}
  IN /\ \A i, j \in DOMAIN pieces : i < j => pieces[i][Len(pieces[i])] < pieces[j][1]
     /\ spec.mode = "every" =>
          /\ pagesOf = all
          /\ \A i \in DOMAIN pieces : Len(pieces[i]) = spec.size \/ (i = Len(pieces) /\ Len(pieces[i]) < spec.size)
     /\ spec.mode = "ranges" => pagesOf = {whole[j] : j \in UNION {x.start..x.end : x \in {spec.ranges[i] : i \in DOMAIN spec.ranges}}}
     /\ spec.mode = "marker" =>
          /\ pagesOf = all
          /\ \A i \in DOMAIN pieces, j \in 1..Length :
               j \in DOMAIN pieces[i] /\ pieces[i][j] \in Marked => j = 1
          /\ \A i \in DOMAIN pieces : i > 1 => pieces[i][1] \in Marked
     /\ charge = Cardinality(pagesOf)
AreAsAsked(r) == FitTogether(batches[r].asked.spec, batches[r].pages, Pieces(r), charged[r])

PagesAreAsTold == LineageIsTrue /\ \A r \in Requests : Accepted(r) => AreAsAsked(r)

\* An answer tells of the source and the ranges it was asked for, one request id never stands
\* for two of them, and an undone batch stays empty, whichever attempts were under way.
AnswersFitRequests ==
  /\ \A a \in Splitters : splitters[a].at = "answered" =>
       LET r == splitters[a].request
       IN batches[r] # Unused /\ batches[r].asked = AskedBy(a) /\ batches[r].state = splitters[a].receipt
  /\ \A r \in Requests :
       /\ batches[r] # Unused => bindings[r] = IF batches[r].asked.source = Uploaded THEN Unused ELSE batches[r].asked
       /\ Accepted(r) /\ (batches[r].undone \/ ~batches[r].kept) => \A d \in Children(r) : ~files[d].live
       /\ Accepted(r) /\ batches[r].kept => \E d \in Children(r) : files[d].live
===============================================================================
