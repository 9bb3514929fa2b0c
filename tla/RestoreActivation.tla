-------------------------- MODULE RestoreActivation --------------------------
(* One destination of the operators' backup tool: commands that restore a     *)
(* backup into it or activate what was restored (backup.ts), and the services *)
(* that refuse to start while a restore is pending (restore-state.ts).        *)

CONSTANTS
  Operators,       \* shells a command may run in
  Backups,
  Keys             \* of stored originals; a key never gets a second content

ASSUME RestoreAssumption == {"absent", "torn", "fresh"} \cap Backups = {}

VARIABLES
  contents,        \* backup -> keys of the originals it holds
  marker,          \* the pending file: absent, torn, or the backup it is bound to
  activation,      \* the activation receipt, likewise
  secret,          \* the integration key file, likewise
  placed,          \* key -> absent, torn or whole
  database,        \* fresh, or the backup loaded into it
  command,         \* operator -> the command that it runs
  inUse            \* services have started here

restoreVars == <<contents, marker, activation, secret, placed, database, command, inUse>>

Idle == [step |-> "none"]

RestoreInit ==
  /\ contents \in [Backups -> SUBSET Keys]
  /\ marker = "absent" /\ activation = "absent" /\ secret = "absent" /\ database = "fresh"
  /\ placed = [k \in Keys |-> "absent"] /\ command = [o \in Operators |-> Idle] /\ inUse = FALSE

At(o, s) == command[o].step = s
Goes(o, s) == command' = [command EXCEPT ![o].step = s]
Finishes(o) == command' = [command EXCEPT ![o] = Idle]

\* A file is only ever created, and a command that dies meanwhile leaves a part of it.
Creates(o, old, new, whole, next) ==
  /\ old = "absent"
  /\ \/ new = whole /\ Goes(o, next)
     \/ new = "torn" /\ Finishes(o)

\* The archive was decrypted and authenticated before anything else.
Restore(o, b) ==
  /\ At(o, "none") /\ marker = "absent" /\ activation = "absent" /\ secret = "absent" /\ \A k \in Keys : placed[k] = "absent"
  /\ command' = [command EXCEPT ![o] = [step |-> "mark", backup |-> b, copied |-> {}]]
  /\ UNCHANGED <<contents, marker, activation, secret, placed, database, inUse>>

WriteMarker(o) ==
  /\ At(o, "mark") /\ marker' \in {command[o].backup, "torn"} /\ Creates(o, marker, marker', command[o].backup, "copy")
  /\ UNCHANGED <<contents, activation, secret, placed, database, inUse>>

\* In some order; what another command has put there ends this one.
CopyObject(o, k) ==
  /\ At(o, "copy") /\ k \in contents[command[o].backup] \ command[o].copied /\ placed[k] = "absent"
  /\ \/ placed' = [placed EXCEPT ![k] = "whole"] /\ command' = [command EXCEPT ![o].copied = @ \cup {k}]
     \/ placed' = [placed EXCEPT ![k] = "torn"] /\ Finishes(o)
  /\ UNCHANGED <<contents, marker, activation, secret, database, inUse>>

WriteKey(o) ==
  /\ At(o, "copy") /\ command[o].copied = contents[command[o].backup]
  /\ secret' \in {command[o].backup, "torn"} /\ Creates(o, secret, secret', command[o].backup, "load")
  /\ UNCHANGED <<contents, marker, activation, placed, database, inUse>>

\* One transaction into a fresh database without other clients; whether it committed may be uncertain.
Load(o) ==
  /\ At(o, "load") /\ database = "fresh" /\ ~inUse /\ database' = command[o].backup /\ Finishes(o)
  /\ UNCHANGED <<contents, marker, activation, secret, placed, inUse>>

Activate(o, b) ==
  /\ At(o, "none") /\ activation \in {"absent", b} /\ marker = b
  /\ command' = [command EXCEPT ![o] = [step |-> "verify", backup |-> b, recorded |-> activation = b]]
  /\ UNCHANGED <<contents, marker, activation, secret, placed, database, inUse>>

\* Exactly what the backup holds, and its files before and after the database.
Restored(b) ==
  /\ secret = b /\ database = b
  /\ \A k \in Keys : placed[k] = IF k \in contents[b] THEN "whole" ELSE "absent"

Verify(o) ==
  /\ At(o, "verify") /\ Restored(command[o].backup) /\ Goes(o, IF command[o].recorded THEN "unlink" ELSE "record")
  /\ UNCHANGED <<contents, marker, activation, secret, placed, database, inUse>>

Record(o) ==
  /\ At(o, "record") /\ activation' \in {command[o].backup, "torn"} /\ Creates(o, activation, activation', command[o].backup, "unlink")
  /\ UNCHANGED <<contents, marker, secret, placed, database, inUse>>

\* By its name, whatever it holds by now.
Unlink(o) ==
  /\ At(o, "unlink") /\ marker # "absent" /\ marker' = "absent" /\ Finishes(o)
  /\ UNCHANGED <<contents, activation, secret, placed, database, inUse>>

\* A check failed, a file was in the way, or the process died.
Abandon(o) ==
  /\ ~At(o, "none") /\ Finishes(o)
  /\ UNCHANGED <<contents, marker, activation, secret, placed, database, inUse>>

\* The marker is not looked for.
Unasked == TRUE

\* The API and every pass of a worker look for the marker first, and need a schema to work in.
MayServe == marker = "absent"
Serve ==
  /\ MayServe /\ database # "fresh" /\ ~inUse /\ inUse' = TRUE
  /\ UNCHANGED <<contents, marker, activation, secret, placed, database, command>>

OperatorStep(o) ==
  \/ \E b \in Backups : Restore(o, b) \/ Activate(o, b)
  \/ WriteMarker(o) \/ WriteKey(o) \/ Load(o) \/ Verify(o) \/ Record(o) \/ Unlink(o) \/ Abandon(o)
  \/ \E k \in Keys : CopyObject(o, k)

RestoreNext == Serve \/ \E o \in Operators : OperatorStep(o)

RestoreSpec == RestoreInit /\ [][RestoreNext]_restoreVars

-----------------------------------------------------------------------------
Steps == [step : {"none"}]
  \cup [step : {"mark", "copy", "load"}, backup : Backups, copied : SUBSET Keys]
  \cup [step : {"verify", "record", "unlink"}, backup : Backups, recorded : BOOLEAN]

\* What each file, row and command may be.
RestoreTypeOK ==
  /\ contents \in [Backups -> SUBSET Keys]
  /\ {marker, activation, secret} \subseteq Backups \cup {"absent", "torn"} /\ database \in Backups \cup {"fresh"}
  /\ placed \in [Keys -> {"absent", "torn", "whole"}] /\ command \in [Operators -> Steps] /\ inUse \in BOOLEAN

Whole(b) == secret = b /\ database = b /\ \A k \in contents[b] : placed[k] = "whole"

\* Services that run do so on one backup with its key, its rows and all its originals, which
\* somebody verified and activated: however commands die half-way, repeat each other, overlap or
\* mix two backups, no torn, mixed or merely loaded restore is ever taken into use, nor anything
\* in use damaged (restoreOrActivate, assertStorageRestoreReady).
RunsOnlyActivated == inUse => \E b \in Backups : activation = b /\ Whole(b)
=============================================================================
