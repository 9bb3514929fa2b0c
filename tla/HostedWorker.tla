----------------------------- MODULE HostedWorker -----------------------------
(* Background work on serverless hosts (hosted-worker.ts). A mutation or the   *)
(* watchdog wakes a host; a host initializes once and runs at most one drain,   *)
(* which tries the extraction lanes together, round by round, and each other    *)
(* lane on its own. A lane claims one unit of durable work at a time.           *)
EXTENDS Naturals, FiniteSets

CONSTANTS
  Hosts,           \* function instances, each with its own module state
  Extraction,      \* the lanes that share the workspace's capacity
  OtherLanes,
  LaneCapacity,    \* units of extraction in process at once
  MaxArrivals,     \* bound on the units of work ever admitted
  MaxSetbacks      \* bound on errors, ended budgets and stopped hosts

ASSUME WorkerAssumption ==
  Extraction \cap OtherLanes = {} /\ LaneCapacity \in Nat \ {0} /\ {MaxArrivals, MaxSetbacks} \subseteq Nat

VARIABLES
  due,        \* units of each lane that may be claimed
  arrived,    \* units admitted so far
  host,       \* [ready, woken, draining]
  lane,       \* where each lane of a host's drain is
  setbacks

workerVars == <<due, arrived, host, lane, setbacks>>

Lanes == Extraction \cup OtherLanes
Asleep == [ready |-> FALSE, woken |-> FALSE, draining |-> FALSE]
Off == [l \in Lanes |-> "off"]

WorkerInit ==
  /\ due = [l \in Lanes |-> 0] /\ arrived = 0
  /\ host = [h \in Hosts |-> Asleep] /\ lane = [h \in Hosts |-> Off] /\ setbacks = 0

Admit(l) ==
  /\ arrived < MaxArrivals /\ arrived' = arrived + 1 /\ due' = [due EXCEPT ![l] = @ + 1]
  /\ UNCHANGED <<host, lane, setbacks>>

\* A mutation's response, or the watchdog.
Wake(h) ==
  /\ ~host[h].woken /\ host' = [host EXCEPT ![h].woken = TRUE]
  /\ UNCHANGED <<due, arrived, lane, setbacks>>

\* Every wake that waited for the initialization fails with it; the next one tries again.
Initialize(h) ==
  /\ host[h].woken /\ ~host[h].ready
  /\ \/ host' = [host EXCEPT ![h].ready = TRUE] /\ UNCHANGED setbacks
     \/ setbacks < MaxSetbacks /\ setbacks' = setbacks + 1 /\ host' = [host EXCEPT ![h].woken = FALSE]
  /\ UNCHANGED <<due, arrived, lane>>

\* "A second invocation cannot extend or abort the drain already in flight": it joins it.
StartDrain(h) ==
  /\ host[h].woken /\ host[h].ready
  /\ host' = [host EXCEPT ![h].woken = FALSE, ![h].draining = TRUE]
  /\ lane' = IF host[h].draining THEN lane ELSE [lane EXCEPT ![h] = [l \in Lanes |-> "trying"]]
  /\ UNCHANGED <<due, arrived, setbacks>>

LaneStep(h, l, place) == lane' = [lane EXCEPT ![h][l] = place]

Busy(h, l) == lane[h][l] \in {"working", "finishing"}

InProcess == {x \in Hosts \X Extraction : Busy(x[1], x[2])}

\* The queue is FIFO and capacity shared, so a lane may find nothing it may claim.
MayClaim(l) == due[l] > 0 /\ (l \in Extraction => Cardinality(InProcess) < LaneCapacity)

Try(h, l) ==
  /\ lane[h][l] = "trying"
  /\ IF MayClaim(l)
     THEN due' = [due EXCEPT ![l] = @ - 1] /\ LaneStep(h, l, "working")
     ELSE UNCHANGED due /\ LaneStep(h, l, IF l \in Extraction THEN "nothing" ELSE "stopped")
  /\ UNCHANGED <<arrived, host, setbacks>>

Worked(h, l) ==
  /\ \/ lane[h][l] = "working" /\ LaneStep(h, l, IF l \in Extraction THEN "progress" ELSE "trying")
     \/ lane[h][l] = "finishing" /\ LaneStep(h, l, "stopped")
  /\ UNCHANGED <<due, arrived, host, setbacks>>

\* The lane is over for this drain; the unit is retried, under a lease, by another.
Throws(h, l) ==
  /\ lane[h][l] = "trying" \/ Busy(h, l)
  /\ setbacks < MaxSetbacks /\ setbacks' = setbacks + 1
  /\ LaneStep(h, l, "failed")
  /\ due' = IF Busy(h, l) THEN [due EXCEPT ![l] = @ + 1] ELSE due
  /\ UNCHANGED <<arrived, host>>

RoundOver(h) == \A l \in Extraction : lane[h][l] \in {"progress", "nothing", "failed"}

\* "Recheck after progress releases capacity; stop when none can work."
NextRound(h) ==
  /\ host[h].draining /\ RoundOver(h)
  /\ \E l \in Extraction : lane[h][l] # "failed"
  /\ lane' = [lane EXCEPT ![h] = [l \in Lanes |->
       IF l \notin Extraction \/ @[l] = "failed" THEN @[l]
       ELSE IF \E m \in Extraction : @[m] = "progress" THEN "trying" ELSE "stopped"]]
  /\ UNCHANGED <<due, arrived, host, setbacks>>

\* The budget ends: nothing new is tried.
OutOfTime(h) ==
  /\ host[h].draining /\ setbacks < MaxSetbacks /\ setbacks' = setbacks + 1
  /\ lane' = [lane EXCEPT ![h] = [l \in Lanes |-> IF Busy(h, l) THEN "finishing" ELSE "stopped"]]
  /\ UNCHANGED <<due, arrived, host>>

\* The settled drain stays the active one.
StillActive(h) == host[h]

\* finally: active is cleared whatever the lanes did.
Cleared(h) == [host[h] EXCEPT !.draining = FALSE]

EndDrain(h) ==
  /\ host[h].draining /\ host[h].ready /\ \A l \in Lanes : lane[h][l] \in {"stopped", "failed"}
  /\ host' = [host EXCEPT ![h] = Cleared(h)] /\ lane' = [lane EXCEPT ![h] = Off]
  /\ UNCHANGED <<due, arrived, setbacks>>

\* The platform stops the host; leases bring its work back.
StopHost(h) ==
  /\ host[h] # Asleep /\ setbacks < MaxSetbacks /\ setbacks' = setbacks + 1
  /\ host' = [host EXCEPT ![h] = Asleep] /\ lane' = [lane EXCEPT ![h] = Off]
  /\ due' = [l \in Lanes |-> due[l] + IF Busy(h, l) THEN 1 ELSE 0]
  /\ UNCHANGED arrived

LaneMoves(h, l) == Try(h, l) \/ Worked(h, l)

WorkerNext ==
  \/ \E l \in Lanes : Admit(l)
  \/ \E h \in Hosts :
       \/ Wake(h) \/ Initialize(h) \/ StartDrain(h) \/ NextRound(h) \/ EndDrain(h)
       \/ OutOfTime(h) \/ StopHost(h)
       \/ \E l \in Lanes : LaneMoves(h, l) \/ Throws(h, l)

WakeSomeHost == \E h \in Hosts : Wake(h)

\* Every service is bounded by the budget, so what a host has begun goes on until the platform
\* stops it.
DrainFairness ==
  \A h \in Hosts :
    /\ WF_workerVars(Initialize(h)) /\ WF_workerVars(StartDrain(h))
    /\ WF_workerVars(NextRound(h)) /\ WF_workerVars(EndDrain(h))
    /\ \A l \in Lanes : WF_workerVars(LaneMoves(h, l))

\* The watchdog wakes some host again and again.
WorkerSpec == WorkerInit /\ [][WorkerNext]_workerVars /\ DrainFairness /\ WF_workerVars(WakeSomeHost)

(***************************************************************************)
(* Properties.                                                             *)
(***************************************************************************)
\* Types; a lane moves only in a drain of an initialized host.
WorkerTypeOK ==
  /\ due \in [Lanes -> 0..MaxArrivals] /\ arrived \in 0..MaxArrivals /\ setbacks \in 0..MaxSetbacks
  /\ host \in [Hosts -> [ready : BOOLEAN, woken : BOOLEAN, draining : BOOLEAN]]
  /\ \A h \in Hosts, l \in Lanes :
       /\ lane[h][l] \in {"off", "trying", "working", "finishing", "progress", "nothing", "stopped", "failed"}
       /\ lane[h][l] # "off" <=> host[h].draining
       /\ host[h].draining => host[h].ready

\* Work is not left behind: whatever is due in a lane is claimed, though a wake joins a drain whose
\* lane has already stopped, a sibling holds the capacity, a lane throws, an initialization fails or
\* the platform stops the host - as long as the watchdog keeps waking some host.
EveryLaneDrains == \A l \in Lanes : due[l] > 0 ~> due[l] = 0
=============================================================================
