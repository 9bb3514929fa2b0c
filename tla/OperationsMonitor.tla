-------------------------- MODULE OperationsMonitor --------------------------
(* The independent monitor: runs of a workflow, started by its schedule, an    *)
(* operator or an external timer, that hand one encrypted checkpoint from run  *)
(* to run as an uploaded artifact and mail an incident and its recovery        *)
(* (operations-monitor.ts and .yml, monitor-artifact-state.ts). Runs that only *)
(* probe, drill or are disabled keep no state and are left out.                *)
EXTENDS Naturals, Sequences, FiniteSets, SequencesExt

CONSTANTS
  MaxTurns,        \* bound on the attempts of all runs
  Threshold,       \* consecutive observations of an outage that make an incident
  MaxTicks,        \* bound on the external timer's ticks
  MaxFaults        \* bound on failures other than the code's own refusals

ASSUME MonitorAssumption ==
  {MaxTurns, Threshold} \subseteq Nat \ {0} /\ {MaxTicks, MaxFaults} \subseteq Nat

VARIABLES
  runs,        \* by number: [mode, tick, turns], turns being its attempts and what became of each
  turn,        \* step of the attempt that executes
  file,        \* the checkpoint on its runner
  artifacts,   \* uploads in their order: [run, attempt, phase, state]
  expired,     \* as many of them have expired
  mailed,      \* messages in the order the provider sent them
  aged,        \* notices made 23 hours ago or earlier
  tick,        \* the external timer's last
  faults

monitorVars == <<runs, turn, file, artifacts, expired, mailed, aged, tick, faults>>

NoIncident == <<0, 0>>
Fresh == [failures |-> 0, incident |-> NoIncident, pending |-> <<>>, seen |-> FALSE, at |-> 0]
Stages == <<"resume", "retry", "observe", "prepare", "deliver", "finish">>
Phase == [resume |-> 0, prepare |-> 1, finish |-> 2]

MonitorInit ==
  /\ runs = <<>> /\ turn = "none" /\ file = Fresh /\ artifacts = <<>> /\ expired = 0
  /\ mailed = <<>> /\ aged = {} /\ tick = 0 /\ faults = 0

Turns(r) == Len(runs[r].turns)
Latest(r) == Last(runs[r].turns)
Waiting(r) == Latest(r) \in {"queued", "executing"}
Executing == {r \in DOMAIN runs : Latest(r) = "executing"}

\* The attempt ends, and its runner with it.
End(r, how) == runs' = [runs EXCEPT ![r].turns[Turns(r)] = how] /\ turn' = "none" /\ file' = Fresh
Fault == faults < MaxFaults /\ faults' = faults + 1

Attempts == UNION {{r} \X (1..Turns(r)) : r \in DOMAIN runs}
AttemptsMade == Cardinality(Attempts)

\* One concurrency group: what still waits is cancelled by the next to wait.
Displaced ==
  [r \in DOMAIN runs |-> IF Latest(r) = "queued" THEN [runs[r] EXCEPT !.turns[Turns(r)] = "cancelled"] ELSE runs[r]]
NewRun(mode, t) ==
  AttemptsMade < MaxTurns /\ runs' = Append(Displaced, [mode |-> mode, tick |-> t, turns |-> <<"queued">>])

\* The schedule, or an operator.
Dispatch(mode) ==
  /\ NewRun(mode, 0)
  /\ UNCHANGED <<turn, file, artifacts, expired, mailed, aged, tick, faults>>

Rerun(r) ==
  /\ ~Waiting(r) /\ AttemptsMade < MaxTurns
  /\ runs' = [Displaced EXCEPT ![r].turns = Append(@, "queued")]
  /\ UNCHANGED <<turn, file, artifacts, expired, mailed, aged, tick, faults>>

Tick ==
  /\ tick < MaxTicks /\ tick' = tick + 1
  /\ UNCHANGED <<runs, turn, file, artifacts, expired, mailed, aged, faults>>

\* A handler of the timer posts once, if no run has its tick yet; two may both have looked before.
PostTick ==
  /\ tick > 0 /\ Cardinality({r \in DOMAIN runs : runs[r].tick = tick}) < 2 /\ NewRun("external", tick)
  /\ UNCHANGED <<turn, file, artifacts, expired, mailed, aged, tick, faults>>

Begin(r) ==
  /\ Executing = {} /\ Latest(r) = "queued"
  /\ runs' = [runs EXCEPT ![r].turns[Turns(r)] = "executing"] /\ turn' = "select"
  /\ UNCHANGED <<file, artifacts, expired, mailed, aged, tick, faults>>

Uploaded(r, a) == {i \in DOMAIN artifacts : artifacts[i].run = r /\ artifacts[i].attempt <= a}

\* The highest attempt up to a, and of its uploads the latest phase.
Authoritative(r, a) ==
  CHOOSE i \in Uploaded(r, a) : \A j \in Uploaded(r, a) :
    \/ artifacts[i].attempt > artifacts[j].attempt
    \/ artifacts[i].attempt = artifacts[j].attempt /\ artifacts[i].phase >= artifacts[j].phase

\* A successful attempt must have made its final upload, and older ones never stand in for it.
Trusted(r, a, i) ==
  /\ runs[r].turns[a] \in {"observed", "superseded"} => artifacts[i].attempt = a /\ artifacts[i].phase = Phase.finish
  /\ i > expired

\* Only a first attempt that is proven to have stopped before it touched any state is passed over.
PassedOver(r) ==
  Turns(r) = 1 /\ Uploaded(r, 1) = {} /\ Latest(r) \in {"superseded", "stateless"}

\* The attempts to go on from: a rerun's own previous ones, else those of the newest run that counts.
Predecessor(r) ==
  LET before == {c \in 1..r - 1 : ~PassedOver(c)}
  IN  IF Turns(r) > 1 THEN {<<r, Turns(r) - 1>>}
      ELSE {<<c, Turns(c)>> : c \in {b \in before : ~Waiting(b) /\ \A d \in before : d <= b}}

Checkpoints(r) ==
  {artifacts[Authoritative(p[1], p[2])].state :
     p \in {q \in Predecessor(r) : Uploaded(q[1], q[2]) # {} /\ Trusted(q[1], q[2], Authoritative(q[1], q[2]))}}

Newer(r) == r < Len(runs)
Selecting(r) == turn = "select" /\ r \in Executing

\* Only a complete history without an earlier run may begin from nothing.
MayInitialize(r) == r = 1 /\ Turns(r) = 1 /\ runs[r].mode = "initialize"

Select(r) ==
  /\ Selecting(r) /\ ~Newer(r)
  /\ \/ file' \in Checkpoints(r) /\ turn' = "resume"
     \/ MayInitialize(r) /\ file' = Fresh /\ turn' = "observe"
  /\ UNCHANGED <<runs, artifacts, expired, mailed, aged, tick, faults>>

\* A first attempt that finds a newer run succeeds without having done anything.
Superseded(r) ==
  /\ Selecting(r) /\ Newer(r) /\ Turns(r) = 1 /\ End(r, "superseded")
  /\ UNCHANGED <<artifacts, expired, mailed, aged, tick, faults>>

\* Notices of 23 hours and more are left to people.
MaySend(n) == n \notin aged
Delivering(r) == turn \in {"retry", "deliver"} /\ r \in Executing

Refuse(r) ==
  /\ \/ Selecting(r) /\ Newer(r) /\ Turns(r) > 1 /\ End(r, "stateless")
     \/ Selecting(r) /\ ~Newer(r) /\ Checkpoints(r) = {} /\ ~MayInitialize(r) /\ End(r, "stateless")
     \/ Delivering(r) /\ file.pending # <<>> /\ ~MaySend(Head(file.pending)) /\ End(r, "failed")
  /\ UNCHANGED <<artifacts, expired, mailed, aged, tick, faults>>

\* No runner came or the selection failed, provably before any state was touched, or not provably
\* so, or a later step failed or took too long.
Break(r, how) ==
  /\ r \in Executing /\ Fault /\ (how = "failed" \/ turn = "select") /\ End(r, how)
  /\ UNCHANGED <<artifacts, expired, mailed, aged, tick>>

\* Notices are delivered before the artifact that has them is uploaded.
DeliversAtOnce(s) ==
  CASE s = "resume" -> "retry" [] s = "retry" -> "observe" [] s = "observe" -> "deliver"
    [] s = "deliver" -> "prepare" [] s = "prepare" -> "finish"

\* What follows a step that succeeded.
After(s) == Stages[CHOOSE n \in 2..6 : Stages[n - 1] = s]

\* Each upload has a name of its own; the step may fail with its upload made.
Upload(r, s) ==
  /\ turn = s /\ r \in Executing
  /\ artifacts' = Append(artifacts, [run |-> r, attempt |-> Turns(r), phase |-> Phase[s], state |-> file])
  /\ \/ s # "finish" /\ turn' = After(s) /\ UNCHANGED <<runs, file, faults>>
     \/ s = "finish" /\ End(r, "observed") /\ UNCHANGED faults
     \/ Fault /\ End(r, "failed")
  /\ UNCHANGED <<expired, mailed, aged, tick>>

\* What an observation by run r makes of the checkpoint.
Advanced(r, down, trouble) ==
  LET failures == IF ~down THEN 0 ELSE IF file.failures < Threshold THEN file.failures + 1 ELSE Threshold
      id == <<r, Turns(r)>>
      opens == file.incident = NoIncident /\ (failures >= Threshold \/ trouble)
      closes == file.incident # NoIncident /\ ~down /\ ~trouble
  IN  [failures |-> failures, seen |-> TRUE, at |-> tick,
       incident |-> IF opens THEN id ELSE IF closes THEN NoIncident ELSE file.incident,
       pending |-> CASE opens -> Append(file.pending, [id |-> id, kind |-> "incident"])
                     [] closes -> Append(file.pending, [id |-> file.incident, kind |-> "recovery"])
                     [] OTHER -> file.pending]

\* Probes found the application down, in trouble (old, failed or stuck work, or a gap), both or
\* neither; a tick that was covered before leaves the checkpoint as it is.
Observe(r, down, trouble) ==
  /\ turn = "observe" /\ r \in Executing
  /\ file' = IF runs[r].tick # 0 /\ file.seen /\ file.at >= runs[r].tick THEN file ELSE Advanced(r, down, trouble)
  /\ turn' = After(turn)
  /\ UNCHANGED <<runs, artifacts, expired, mailed, aged, tick, faults>>

\* The provider knows what it sent in the last 24 hours by its idempotency key.
Sent(n) == IF n \in Range(mailed) /\ n \notin aged THEN mailed ELSE Append(mailed, n)

\* The answer may be lost, and the attempt with it.
SendNotice(r) ==
  /\ Delivering(r) /\ file.pending # <<>> /\ MaySend(Head(file.pending))
  /\ mailed' = Sent(Head(file.pending))
  /\ \/ file' = [file EXCEPT !.pending = Tail(@)] /\ UNCHANGED <<runs, turn, faults>>
     \/ Fault /\ End(r, "failed")
  /\ UNCHANGED <<artifacts, expired, aged, tick>>

Delivered(r) ==
  /\ Delivering(r) /\ file.pending = <<>> /\ turn' = After(turn)
  /\ UNCHANGED <<runs, file, artifacts, expired, mailed, aged, tick, faults>>

Committed == UNION {Range(artifacts[i].state.pending) : i \in DOMAIN artifacts}

\* A day passes, or the 90 days that artifacts are kept; no attempt takes more than ten minutes.
TimePasses(quarter) ==
  /\ Executing = {} /\ aged' = Committed
  /\ expired' = IF quarter THEN Len(artifacts) ELSE expired
  /\ <<aged', expired'>> # <<aged, expired>>
  /\ UNCHANGED <<runs, turn, file, artifacts, mailed, tick, faults>>

RunStep(r) ==
  \/ Rerun(r) \/ Begin(r) \/ Select(r) \/ Superseded(r) \/ Refuse(r) \/ SendNotice(r) \/ Delivered(r)
  \/ \E how \in {"failed", "stateless"} : Break(r, how)
  \/ \E s \in DOMAIN Phase : Upload(r, s)
  \/ \E down \in BOOLEAN, trouble \in BOOLEAN : Observe(r, down, trouble)

MonitorNext ==
  \/ \E mode \in {"run", "initialize"} : Dispatch(mode)
  \/ Tick \/ PostTick
  \/ \E quarter \in BOOLEAN : TimePasses(quarter)
  \/ \E r \in DOMAIN runs : RunStep(r)

MonitorSpec == MonitorInit /\ [][MonitorNext]_monitorVars

-----------------------------------------------------------------------------
\* An incident has the id of the attempt that observed it first.
Ids == {NoIncident} \cup Attempts
Notices == [id : Ids, kind : {"incident", "recovery"}]

\* What a checkpoint may say: its unsent notices alternate, up to the incident it has open.
CheckpointOK(c) ==
  /\ c.failures \in 0..Threshold /\ c.incident \in Ids /\ Range(c.pending) \subseteq Notices
  /\ \A n \in 1..Len(c.pending) - 1 : c.pending[n].kind # c.pending[n + 1].kind
  /\ c.pending # <<>> => (Last(c.pending) = [id |-> c.incident, kind |-> "incident"] \/ c.incident = NoIncident)

\* Runs, artifacts and mail are of their kinds, and at most one attempt executes.
MonitorTypeOK ==
  /\ \A r \in DOMAIN runs : runs[r].tick \in 0..tick /\ runs[r].turns # <<>> /\ (Waiting(r) => \A d \in DOMAIN runs : Latest(d) = Latest(r) => d = r)
  /\ (turn # "none") = (Executing # {}) /\ CheckpointOK(file) /\ file.at \in 0..tick
  /\ expired \in 0..Len(artifacts) /\ (artifacts # <<>> => Last(artifacts).run \in DOMAIN runs /\ CheckpointOK(Last(artifacts).state))
  /\ artifacts # <<>> => Last(artifacts).state.at \in 0..tick
  /\ Range(mailed) \cup aged \subseteq Notices /\ faults \in 0..MaxFaults

\* From the first that was not mailed yet, as the artifact that was uploaded last has them.
Unmailed(s, sent) ==
  LET unmailed == {n \in DOMAIN s : s[n] \notin Range(sent)}
  IN  IF unmailed = {} THEN <<>> ELSE SubSeq(s, Min(unmailed), Len(s))
Owed == IF artifacts = <<>> THEN <<>> ELSE Unmailed(Last(artifacts).state.pending, mailed)

\* People are mailed an incident, then its recovery, then the next incident, each exactly once,
\* and every notice that an artifact ever held was mailed or is owed by the artifact the next run
\* goes on from: although answers are lost, attempts fail at any step, uploads expire, and runs
\* are repeated, overtaken, cancelled and started twice for a tick (advance, deliverPending,
\* selectMonitorArtifact, and the order of uploads and deliveries in the workflow).
EveryNoticeOnce ==
  LET notices == mailed \o Owed IN
  /\ Committed = Range(notices)
  /\ \A n \in DOMAIN notices :
       IF n % 2 = 1 THEN notices[n].kind = "incident" /\ \A m \in 1..n - 1 : notices[m].id # notices[n].id
       ELSE notices[n] = [id |-> notices[n - 1].id, kind |-> "recovery"]

\* The runner's checkpoint has one unsent notice at most, and so the limit of 16 at which an
\* observation is refused, with its attempt, is never near (advance's notification_backlog_limit).
BacklogStaysShort == Len(file.pending) <= 1 /\ Len(Owed) <= 1

\* An attempt that may go on does so from the upload made last, whatever was rerun, overtaken,
\* cancelled or passed over in between (selectMonitorArtifact).
GoesOnFromLast ==
  \A r \in Executing : Selecting(r) /\ ~Newer(r) => \A c \in Checkpoints(r) : artifacts # <<>> /\ c = Last(artifacts).state

\* What is owed stays owed, by one artifact after the other, until it is mailed, and no notice is
\* promised meanwhile; only what is owed is mailed, in its order (deliverPending, and the uploads
\* before and after it in the workflow).
PromisesKept ==
  [][\/ mailed' = mailed /\ (Owed = <<>> \/ Owed' = Owed)
     \/ Owed # <<>> /\ mailed' = Append(mailed, Head(Owed)) /\ Owed' = Tail(Owed)]_monitorVars
=============================================================================
