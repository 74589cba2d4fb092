------------------------------ MODULE MCStore -------------------------------
(* PageWal in three scenarios side by side, and that it implements Store.   *)
EXTENDS MCPageWal

VARIABLES scenario, now, safe, base

(* "readers", the constants of the run: two snapshot handles, no faults.    *)
(* "faults": one handle, in a process that may die, and failing I/O.        *)
(* "crash": no handles; failing I/O, a dying writer and lost power around   *)
(* two transactions and their folds.                                        *)
Faulty == INSTANCE PageWal WITH
  WalCap <- 3, Slots <- 1, MaxTx <- 1, Faults <- {"io", "crash"}
Crashing == INSTANCE PageWal WITH
  WalCap <- 5, Slots <- 1, FoldAt <- 4, Faults <- {"io", "crash", "power"}

Handles == [readers |-> 2, faults |-> 1, crash |-> 0]

FewReaders == Cardinality({r \in Readers : rpc[r] # "idle"}) <= Handles[scenario]

ScenarioNext ==
  /\ \/ scenario = "readers" /\ Next
     \/ scenario = "faults" /\ Faulty!Next
     \/ scenario = "crash" /\ Crashing!Next
  /\ UNCHANGED scenario

(* The refinement mapping is kept in variables, each a function of the      *)
(* state, so that TLC computes it once per step.                            *)
Base == IF Healthy /\ ~pool.dirty /\ st.end = st.last
        THEN [tx |-> st.tx - 1, root |-> pool.work] ELSE Torn

MappedInit ==
  /\ scenario \in DOMAIN Handles /\ Init
  /\ now = Header0 /\ safe = Header0 /\ base = Torn

MappedNext ==
  /\ ScenarioNext
  /\ now'  = IF file' = file THEN now ELSE Inspect(file').hdr
  /\ safe' = IF disk' = disk THEN safe ELSE Inspect(disk').hdr
  /\ base' = Base'

MappedSpec == MappedInit /\ [][MappedNext]_<<vars, scenario, now, safe, base>>

Promise == INSTANCE Store WITH Roots <- [Pages -> Vals], First <- Header0, None <- Torn

(* The store keeps its promise: whatever fails, dies or loses power, the    *)
(* files go from one whole committed state to the next, an acknowledged one *)
(* is never lost, and a usable, clean handle stands on the committed state  *)
(* (commit, publish, checkpoint, open and rollback of the pager).           *)
KeepsPromise == Promise!Spec

(* A snapshot is neither behind the writer's last commit when it pinned nor  *)
(* ahead of what the shared index lets it read.                             *)
SnapshotCurrent == SnapshotFresh /\ Coherent

Reachable == <<scenario, IF scenario = "crash" THEN WithoutReaders ELSE WithReaders>>
=============================================================================
