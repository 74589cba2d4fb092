---------------------------- MODULE MCIndexBuild ----------------------------
(* Instances of IndexBuild for TLC.  One run takes two of them side by      *)
(* side, each with bounds of its own on the same variables.                 *)
EXTENDS IndexBuild

VARIABLE scenario

(* "reindex", the constants of the run: REINDEX of an index of up to two    *)
(* rows, over the leftovers of earlier ones.  "build": one index of up to   *)
(* three rows, built either way and dropped.                                *)
One == INSTANCE IndexBuild WITH
  MaxVal <- 1, MaxIndex <- 1,
  Calls <- {"step", "sorted", "drop"}, Outcomes <- {"ok", "lost"}

(* While an index is built a transaction changes at most one row. *)
FewRows ==
  IF scenario = "reindex" THEN db.next <= 3
  ELSE Cardinality({s \in Seqs : db.rows[s] # disk.rows[s]}) <= 1

ScenarioInit ==
  \/ scenario = "build" /\ One!Init
  \/ scenario = "reindex" /\ Init

ScenarioNext ==
  /\ \/ scenario = "build" /\ One!Next
     \/ scenario = "reindex" /\ Next
  /\ UNCHANGED scenario

ScenarioSpec == ScenarioInit /\ [][ScenarioNext]_<<vars, scenario>>

(* "A reader sees the old index or the new one, never neither": as long as  *)
(* no caller drops an index, a name that is answered stays answered,        *)
(* whatever REINDEX leaves behind.                                          *)
NameStaysAnswered == [][scenario = "reindex" => NameKept]_vars

(* A failed handle answers nothing until it is rolled back. *)
Reachable ==
  IF failed THEN <<scenario, disk>> ELSE <<scenario, db, disk, cache, sorting, reindex, user>>
=============================================================================
