------------------------------- MODULE Store --------------------------------
(***************************************************************************)
(* What the page-WAL store promises the one writer above it, with nothing  *)
(* of its files: there is one committed state, it is replaced as a whole,  *)
(* a commit that was acknowledged survives everything, one that was not    *)
(* may survive or not, and a handle that is usable and clean stands on the *)
(* committed state.  PageWal is shown to implement this.                   *)
(***************************************************************************)
EXTENDS Integers

CONSTANTS
  Roots,   \* what a transaction may commit
  First,   \* the committed state of a new database
  None     \* no usable, clean handle

VARIABLES
  now,     \* the committed state that an open would find
  safe,    \* the one it would find after a power loss, at worst
  acked,   \* the one whose commit was last acknowledged
  base     \* what a usable, clean handle stands on

vars == <<now, safe, acked, base>>

Init == now = First /\ safe = First /\ acked = First /\ base = None

(* The commit takes effect; who asked for it is not told yet. *)
Write ==
  /\ base = None /\ base' = None
  /\ \E r \in Roots : now' = [tx |-> now.tx + 1, root |-> r]
  /\ UNCHANGED <<safe, acked>>

(* It is behind the barrier. *)
Secure == safe' = now /\ UNCHANGED <<now, acked, base>>

(* Only then it is acknowledged. *)
Acknowledge ==
  /\ safe = now
  /\ acked' = now /\ base' = now
  /\ UNCHANGED <<now, safe>>

(* A handle is opened, rolled back, written through, poisoned or closed. *)
Handle == base' \in {None, now} /\ UNCHANGED <<now, safe, acked>>

(* Power loss takes back what is not behind a barrier, or does not. *)
Lose ==
  /\ now' \in {now, safe}
  /\ safe' = now' /\ base' = None
  /\ UNCHANGED acked

Next == Write \/ Secure \/ Acknowledge \/ Handle \/ Lose

Spec == Init /\ [][Next]_vars
-----------------------------------------------------------------------------
(* An acknowledged commit is never lost, and what a power loss may leave   *)
(* is never older: acknowledged, durable and committed states are in the   *)
(* order of their transactions.                                            *)
Durable ==
  /\ acked.tx <= safe.tx /\ safe.tx <= now.tx
  /\ base \in {None, now}
=============================================================================
