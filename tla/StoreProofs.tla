---------------------------- MODULE StoreProofs -----------------------------
(* What follows from the promise of a store, for every database. *)
EXTENDS Store, TLAPS

(* Transactions are numbered. *)
Numbered == now.tx \in Nat /\ safe.tx \in Nat /\ acked.tx \in Nat

(* Durability: in every behaviour that keeps the promise, an acknowledged   *)
(* commit is never lost, whatever power losses follow, and a usable, clean  *)
(* handle never stands on anything but the committed state.                 *)
THEOREM Durability == ASSUME First.tx \in Nat PROVE Spec => []Durable
<1> DEFINE Inv == Numbered /\ Durable
<1>1. Init => Inv
  BY DEF Init, Numbered, Durable
<1>2. Inv /\ [Next]_vars => Inv'
  <2> SUFFICES ASSUME Inv, [Next]_vars PROVE Inv'
    OBVIOUS
  <2>1. CASE Write
    <3>1. PICK r \in Roots : now' = [tx |-> now.tx + 1, root |-> r]
      BY <2>1 DEF Write
    <3> QED
      BY <2>1, <3>1 DEF Write, Numbered, Durable
  <2>2. CASE Secure
    BY <2>2 DEF Secure, Numbered, Durable
  <2>3. CASE Acknowledge
    BY <2>3 DEF Acknowledge, Numbered, Durable
  <2>4. CASE Handle
    BY <2>4 DEF Handle, Numbered, Durable
  <2>5. CASE Lose
    BY <2>5 DEF Lose, Numbered, Durable
  <2>6. CASE UNCHANGED vars
    BY <2>6 DEF vars, Numbered, Durable
  <2> QED
    BY <2>1, <2>2, <2>3, <2>4, <2>5, <2>6 DEF Next
<1>3. Inv => Durable
  OBVIOUS
<1> QED
  BY <1>1, <1>2, <1>3, PTL DEF Spec
=============================================================================
