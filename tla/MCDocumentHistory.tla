-------------------------- MODULE MCDocumentHistory --------------------------
(* What one document goes through, the documents it is split into, and the    *)
(* templates saved for its parser; one of them is active per behaviour.       *)
EXTENDS ParserDocuments, StoredSplits, TemplateChanges, TLC

VARIABLE part

HistoryInit ==
  part \in {"document", "splits", "templates"} /\ Init /\ FilesInit /\ TemplatesInit

HistoryNext ==
  /\ UNCHANGED part
  /\ \/ part = "document" /\ Next /\ UNCHANGED <<filesVars, templateVars>>
     \/ part = "splits" /\ FilesNext /\ UNCHANGED <<vars, templateVars>>
     \/ part = "templates" /\ TemplatesNext /\ UNCHANGED <<vars, filesVars>>

HistorySpec == HistoryInit /\ [][HistoryNext]_<<part, vars, filesVars, templateVars>>

\* The same two values stand for the invocations that split and for the open editors, and for
\* the request ids of splits and of saves.
Alike == Permutations(Requests) \cup Permutations(Splitters)
==============================================================================
