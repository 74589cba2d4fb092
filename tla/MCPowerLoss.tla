---------------------------- MODULE MCPowerLoss -----------------------------
(* PageWal where power may be lost, in two scenarios side by side.          *)
EXTENDS MCPageWal

CONSTANTS p1, r1
VARIABLE scenario

(* "reorder", the constants of the run: a commit of two pages, some of them *)
(* evicted early, whose unsynced writes reach the disk in any order.        *)
(* "window": a snapshot opened by path while a writer opens, recovers and   *)
(* publishes over the hint the lost session left.                           *)
Window == INSTANCE PageWal WITH
  Pages <- {p1}, WalCap <- 3, Readers <- {r1}, MaxEvict <- 0, Faults <- {"power", "stale"}

ScenarioInit ==
  \/ scenario = "reorder" /\ Init
  \/ scenario = "window" /\ Window!Init

ScenarioNext ==
  /\ \/ scenario = "reorder" /\ Next
     \/ scenario = "window" /\ Window!Next
  /\ UNCHANGED scenario

InWindow == scenario = "window"

(* Nobody stops in the middle of a call: a thread that has started a commit, *)
(* a fold, an open or an admission takes its next step when it can.          *)
ScenarioSpec ==
  /\ ScenarioInit /\ [][ScenarioNext]_<<vars, scenario>>
  /\ WF_vars(InWindow /\ Window!WriterStep) /\ WF_vars(InWindow /\ Window!OpenClaim)
  /\ WF_vars(InWindow /\ Window!Admission(r1))

(* Frames that reach the disk out of order may make the open refuse; an     *)
(* open that is not refused finds one whole transaction, not older than the *)
(* last acknowledged commit.                                                *)
PowerLossOpensToTruth == ~InWindow => OpensToTruth

(* A snapshot is never older than the last commit acknowledged before it    *)
(* was asked for, also when it opens between the writer's recovery and its  *)
(* first publish.                                                           *)
WindowSnapshotFresh == InWindow => Window!SnapshotFresh

(* The gate is never held for good by a writer, an opener or a snapshot.    *)
WindowGateReleased == InWindow => Window!GateReleased

Reachable == <<scenario, IF InWindow THEN vars ELSE WithoutReaders>>
=============================================================================
