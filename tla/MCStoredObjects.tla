--------------------------- MODULE MCStoredObjects ---------------------------
(* What is kept in private storage: the originals of documents, signed uploads *)
(* on their way to become originals, the private copy a split suggestion reads,*)
(* and a restored backup. One of them is active per behaviour.                 *)
EXTENDS StoredObjects, DirectUploads, SplitSources, RestoreActivation, TLC

VARIABLE part

StorageInit ==
  /\ part \in {"originals", "uploads", "split", "restore"}
  /\ Init /\ UploadsInit /\ SplitInit /\ RestoreInit
  /\ part # "originals" => kind = "plain" /\ ~remote
  /\ part # "uploads" => uploadKind = "plain" /\ genuine = {}
  /\ part # "restore" => contents = [b \in Backups |-> {}]

StorageNext ==
  /\ UNCHANGED part
  /\ \/ part = "originals" /\ Next /\ UNCHANGED <<uploadsVars, splitVars, restoreVars>>
     \/ part = "uploads" /\ UploadsNext /\ UNCHANGED <<vars, splitVars, restoreVars>>
     \/ part = "split" /\ SplitNext /\ UNCHANGED <<vars, uploadsVars, restoreVars>>
     \/ part = "restore" /\ RestoreNext /\ UNCHANGED <<vars, uploadsVars, splitVars>>

StorageSpec ==
  StorageInit /\ [][StorageNext]_<<part, vars, uploadsVars, splitVars, restoreVars>>

\* The same two requests overlap whatever they do, and are alike.
Alike == Permutations(Attempts) \cup Permutations(Uploads)
=============================================================================
