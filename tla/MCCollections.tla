--------------------------- MODULE MCCollections ---------------------------
(* Instances of Collections for TLC.  One run takes three of them side by   *)
(* side, each a bound of its own on the same state.                         *)
EXTENDS Collections

CONSTANT k1

VARIABLE scenario

(* "maintain": one collection, counted and dropped under row writes. *)
(* "ids": a Register file, ids reserved in blocks for two collections. *)
RegisterIds == INSTANCE Collections WITH
  Keys <- {k1}, MaxId <- 3, Register <- TRUE, Batch <- 1,
  Outcomes <- {"ok", "lost"}, Maintenance <- {}

(* "two": a drop of either of two collections. *)
TwoDrops == INSTANCE Collections WITH
  Keys <- {k1}, MaxId <- 1, Batch <- 1, Maintenance <- {"drop"}

OneCollection == scenario = "maintain" => db.next <= 2

ScenarioInit ==
  /\ scenario \in {"maintain", "ids", "two"}
  /\ Init /\ OneCollection

ScenarioNext ==
  /\ \/ scenario = "maintain" /\ Next
     \/ scenario = "ids" /\ RegisterIds!Next
     \/ scenario = "two" /\ TwoDrops!Next
  /\ UNCHANGED scenario

ScenarioSpec == ScenarioInit /\ [][ScenarioNext]_<<vars, scenario>>

(* "published": a Register file of one collection, and commits that are     *)
(* published and return an error.                                           *)
PublishedSpec ==
  (scenario = "published" /\ Init) /\ [][Next /\ UNCHANGED scenario]_<<vars, scenario>>

(* A failed handle answers nothing until rollback or reopen, and of its     *)
(* memory only row_id_blocks outlives a rollback.                           *)
Reachable ==
  IF failed THEN <<scenario, disk, blocks, used>>
  ELSE <<scenario, db, disk, sequence, blocks, pending, allocated, counts, backfill,
         dropping, user, used>>
============================================================================
