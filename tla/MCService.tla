------------------------------ MODULE MCService ------------------------------
(* Instances of Service for TLC. *)
EXTENDS Service, TLC

Sym == Permutations(Readers)

CONSTANT MaxActive   \* bound: readers at work at once, and SQL in the batch beside them

(* No property relates the views to the feed: readers are at work only     *)
(* while the feed has not been used, and the feed is used, with any number *)
(* of statements in a batch, while they rest.                              *)
Active ==
  LET one(b) == IF b THEN 1 ELSE 0
      busy   == Cardinality({r \in Readers : pc[r] # "idle"})
  IN  busy > 0 =>
        /\ ~Listening(feed) /\ sequence = 0
        /\ busy + one(InStatement \/ writer.early > 0) + one(writer.empty \/ writer.quiet)
             <= MaxActive
=============================================================================
