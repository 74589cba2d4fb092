----------------------------- MODULE MCPageWal -----------------------------
(* Instances of PageWal for TLC. *)
EXTENDS PageWal, TLC

PageSymmetry   == Permutations(Pages)
ReaderSymmetry == Permutations(Readers)

(* What the future can depend on.  Only rollback and close are left to a    *)
(* poisoned handle and both replace its pool and State; `first` matters     *)
(* from the verification to the second metadata copy.                       *)
Handle ==
  <<wpc, call, pool.poisoned, todo,
    IF wpc \in {"meta0", "msync", "meta1"} THEN first ELSE 0,
    IF pool.poisoned THEN ClosedPool ELSE pool,
    IF pool.poisoned /\ wpc = "idle" THEN NoState ELSE st>>

(* Without readers nothing ever reads a hint. *)
WithoutReaders == <<file, disk, locks, Handle, acked>>
WithReaders    == <<files, locks, Handle, readers, acked>>
============================================================================
