----------------------- MODULE CollectionsCountProofs -----------------------
(***************************************************************************)
(* Collections: what one step does to the row counts; then what the proofs *)
(* use of minima and cardinalities, and the theorems: the invariants of    *)
(* Collections for every number of collections, keys and ids and every     *)
(* budget.                                                                 *)
(***************************************************************************)
EXTENDS CollectionsProofs, TLAPS

USE SMTT(30)
-----------------------------------------------------------------------------
(* Row counts.  What is used of numbers and cardinalities: *)

Cardinals ==
  /\ HasLeast
  /\ \A S \in SUBSET Ids : S # {} => Max(S) \in S /\ \A y \in S : y <= Max(S)
  /\ Countable /\ Cardinality({}) = 0
  /\ \A S \in SUBSET Ids : \A x \in Ids \ S : Cardinality(S \cup {x}) = Cardinality(S) + 1
  /\ \A S, T \in SUBSET Ids : S \subseteq T => Cardinality(S) <= Cardinality(T)
  /\ \A S, T \in SUBSET Ids :
       S \cap T = {} => Cardinality(S \cup T) = Cardinality(S) + Cardinality(T)

LEMMA OneLess ==
  ASSUME Cardinals, NEW S \in SUBSET Ids, NEW x \in S
  PROVE  /\ Cardinality(S \ {x}) = Cardinality(S) - 1
         /\ Cardinality(S) \in Nat /\ Cardinality(S \ {x}) \in Nat
<1> DEFINE T == S \ {x}
<1>1. T \in SUBSET Ids /\ x \in Ids \ T /\ T \cup {x} = S
  BY Zenon
<1> HIDE DEF T
<1>2. /\ Cardinality(T \cup {x}) = Cardinality(T) + 1 /\ Cardinality(T) \in Nat
      /\ Cardinality(S) \in Nat
  BY <1>1, Zenon DEF Cardinals, Countable
<1>3. Cardinality(S) = Cardinality(T) + 1
  BY <1>1, <1>2, Zenon
<1>4. Cardinality(T) = Cardinality(S) - 1
  BY <1>2, <1>3
<1> QED
  BY <1>2, <1>4, Zenon DEF T

Whole(t)  == \A c \in DOMAIN t.count : t.count[c] \in Nat
Flagged(t) == t.counted \/ DOMAIN t.count = {}

ExactAt(t, c) ==
  t.phase[c] = "live" /\ c \in DOMAIN t.count => t.count[c] = Cardinality(DOMAIN t.rows[c])

(* The record a transaction has read is the tree's, and record and delta    *)
(* together are the number of rows.                                         *)
TallyAt(c) ==
  /\ c \in DOMAIN counts => c \in DOMAIN db.count /\ counts[c].base = db.count[c]
  /\ db.phase[c] = "live" /\ c \in DOMAIN db.count => RowCount(c) = Cardinality(DOMAIN db.rows[c])

(* The counting walk has counted the rows up to where it stands, and no     *)
(* insert can land there.                                                   *)
Walking ==
  backfill.c # 0 /\ db.phase[backfill.c] = "live" =>
    /\ backfill.after \in Nat /\ backfill.after < OpenSequence(backfill.c).next
    /\ backfill.counted = Cardinality({id \in DOMAIN db.rows[backfill.c] : id <= backfill.after})

Tallied ==
  /\ Whole(db) /\ Whole(disk) /\ backfill.counted \in Nat
  /\ \A c \in DOMAIN counts : counts[c].base + counts[c].delta \in Nat
  /\ Flagged(disk) /\ (\A c \in Colls : ExactAt(disk, c))
  /\ ~failed => Flagged(db) /\ (\A c \in Colls : TallyAt(c)) /\ Walking

(* A step that touches neither counts nor rows of a live collection. *)
LEMMA QuietTally ==
  ASSUME Types, Tallied, disk' = disk, counts' = counts, backfill' = backfill, ~failed' => ~failed,
         db'.count = db.count, db'.counted = db.counted,
         \A c \in Colls : db'.phase[c] = "live" =>
           db.phase[c] = "live" /\ db'.rows[c] = db.rows[c] /\ OpenSequence(c)' = OpenSequence(c)
  PROVE  Tallied'
<1>1. /\ Whole(db') /\ Whole(disk') /\ backfill'.counted \in Nat
      /\ \A c \in DOMAIN counts' : counts'[c].base + counts'[c].delta \in Nat
      /\ Flagged(disk') /\ \A c \in Colls : ExactAt(disk', c)
  BY Zenon DEF Tallied, Whole
<1>2. ASSUME ~failed' PROVE Flagged(db') /\ (\A c \in Colls : TallyAt(c)') /\ Walking'
  <2>1. Flagged(db) /\ (\A c \in Colls : TallyAt(c)) /\ Walking
    BY <1>2, Zenon DEF Tallied
  <2>2. Flagged(db')
    BY <2>1, Zenon DEF Flagged
  <2>3. \A c \in Colls : TallyAt(c)'
    BY <2>1, Zenon DEF TallyAt, RowCount
  <2>4. Walking'
    <3>1. backfill.c # 0 => backfill.c \in Colls
      BY CollectionsAssumption DEF Types, BackfillOK, Colls
    <3> QED
      BY <2>1, <3>1, Zenon DEF Walking
  <2> QED
    BY <2>2, <2>3, <2>4, Zenon
<1> QED
  BY <1>1, <1>2, Zenon DEF Tallied

(* touch_row_count *)
LEMMA NoteTally ==
  ASSUME Types, Flagged(db), NEW c \in Colls, TallyAt(c), dropping # c, NEW n \in Int
  PROVE  /\ c \in DOMAIN db.count =>
              /\ DOMAIN Note(c, n) = DOMAIN counts \cup {c}
              /\ Note(c, n)[c].base = db.count[c]
              /\ Note(c, n)[c].base + Note(c, n)[c].delta = RowCount(c) + n
              /\ \A d \in DOMAIN counts \ {c} : Note(c, n)[d] = counts[d]
         /\ c \notin DOMAIN db.count => Note(c, n) = counts /\ c \notin DOMAIN counts
<1>1. CASE c \in DOMAIN db.count
  <2> DEFINE old == IF c \in DOMAIN counts THEN counts[c] ELSE [base |-> db.count[c], delta |-> 0]
             new == [old EXCEPT !.delta = old.delta + n]
  <2>1. Counted(c)
    BY <1>1, Zenon DEF Counted, Flagged
  <2>2. Note(c, n) = Set(counts, c, new)
    BY <2>1, Zenon DEF Note
  <2>3. old \in Tally /\ old.base = db.count[c] /\ old.base + old.delta = RowCount(c)
    <3>1. DOMAIN counts \subseteq Colls /\ counts \in [DOMAIN counts -> Tally]
      BY PartialIs, Zenon DEF Types
    <3>2. DOMAIN db.count \subseteq Colls /\ db.count \in [DOMAIN db.count -> Int]
      BY TreeFields, PartialIs, Zenon DEF Types
    <3>3. CASE c \in DOMAIN counts
      BY <3>1, <3>3, Zenon DEF TallyAt, RowCount
    <3>4. CASE c \notin DOMAIN counts
      BY <1>1, <3>2, <3>4 DEF Tally, RowCount
    <3> QED
      BY <3>3, <3>4, Zenon
  <2> HIDE DEF old
  <2>4. new.base = db.count[c] /\ new.base + new.delta = RowCount(c) + n
    BY <2>3 DEF Tally
  <2> HIDE DEF new
  <2>5. /\ DOMAIN Note(c, n) = DOMAIN counts \cup {c} /\ Note(c, n)[c] = new
        /\ \A d \in DOMAIN counts \ {c} : Note(c, n)[d] = counts[d]
    BY <2>2, Zenon DEF Set
  <2> QED
    BY <1>1, <2>4, <2>5, Zenon
<1>2. CASE c \notin DOMAIN db.count
  <2>1. ~Counted(c) /\ c \notin DOMAIN counts
    BY <1>2, Zenon DEF Counted, TallyAt
  <2> QED
    BY <1>2, <2>1, Zenon DEF Note
<1> QED
  BY <1>1, <1>2, Zenon

(* What a flush writes is what an unfiltered count would have answered. *)
LEMMA FlushedCounts ==
  ASSUME Types, Tallied, ~failed
  PROVE  /\ DOMAIN Flushed.count = DOMAIN db.count
         /\ \A c \in DOMAIN db.count : Flushed.count[c] = RowCount(c) /\ RowCount(c) \in Nat
<1>1. CountFlushed(db, Flushed)
  BY FlushedIs, Zenon
<1>2. DOMAIN counts \subseteq Colls /\ counts \in [DOMAIN counts -> Tally]
  BY PartialIs, Zenon DEF Types
<1>3. \A c \in DOMAIN counts : c \in DOMAIN db.count /\ counts[c].base = db.count[c]
  BY <1>2, Zenon DEF Tallied, TallyAt
<1>4. DOMAIN Flushed.count = DOMAIN db.count
  BY <1>1, <1>3, Zenon DEF CountFlushed
<1>5. ASSUME NEW c \in DOMAIN db.count
      PROVE  Flushed.count[c] = RowCount(c) /\ RowCount(c) \in Nat
  <2>1. Flushed.count[c] = IF c \in DOMAIN counts /\ counts[c].delta # 0
                           THEN counts[c].base + counts[c].delta ELSE db.count[c]
    BY <1>1, <1>4, Zenon DEF CountFlushed
  <2>2. db.count[c] \in Nat
    BY Zenon DEF Tallied, Whole
  <2>3. CASE c \in DOMAIN counts
    <3>1. counts[c].base \in Int /\ counts[c].delta \in Int /\ counts[c].base = db.count[c]
      BY <1>2, <1>3, <2>3 DEF Tally
    <3>2. counts[c].base + counts[c].delta \in Nat
      BY <2>3, Zenon DEF Tallied
    <3>3. RowCount(c) = counts[c].base + counts[c].delta
      BY <2>3, Zenon DEF RowCount
    <3>4. counts[c].delta = 0 => counts[c].base + counts[c].delta = db.count[c]
      BY <3>1
    <3>5. Flushed.count[c] = counts[c].base + counts[c].delta
      BY <2>1, <2>3, <3>4, Zenon
    <3> QED
      BY <3>2, <3>3, <3>5, Zenon
  <2>4. CASE c \notin DOMAIN counts
    BY <2>1, <2>2, <2>4, Zenon DEF RowCount
  <2> QED
    BY <2>3, <2>4, Zenon
<1> QED
  BY <1>4, <1>5, Zenon

(* A tree put on disk with the counts of the flush. *)
LEMMA PublishTally ==
  ASSUME Types, Tallied, ~failed, NEW u,
         u.count = Flushed.count, u.counted = db.counted, u.rows = db.rows,
         \A c \in Colls : u.phase[c] = "live" => db.phase[c] = "live"
  PROVE  Whole(u) /\ Flagged(u) /\ \A c \in Colls : ExactAt(u, c)
<1>1. /\ DOMAIN u.count = DOMAIN db.count
      /\ \A c \in DOMAIN db.count : u.count[c] = RowCount(c) /\ RowCount(c) \in Nat
  BY FlushedCounts, Zenon
<1>2. Flagged(db) /\ \A c \in Colls : TallyAt(c)
  BY Zenon DEF Tallied
<1>3. Whole(u) /\ Flagged(u)
  BY <1>1, <1>2, Zenon DEF Whole, Flagged
<1>4. \A c \in Colls : ExactAt(u, c)
  BY <1>1, <1>2, Zenon DEF ExactAt, TallyAt
<1> QED
  BY <1>3, <1>4, Zenon

(* A handle with empty accumulators. *)
LEMMA FreshTally ==
  ASSUME counts' = Nothing, Flagged(db'), \A c \in Colls : ExactAt(db', c)
  PROVE  Flagged(db') /\ \A c \in Colls : TallyAt(c)'
<1>1. \A c : c \notin DOMAIN counts'
  BY NothingIs, Zenon
<1> QED
  BY <1>1, Zenon DEF ExactAt, TallyAt, RowCount

LEMMA CommitTally ==
  ASSUME Shape, Ided, Tallied, Commit
  PROVE  Tallied'
<1>1. /\ Types /\ Standing /\ ~failed /\ db' = Flushed /\ sequence' = NoSequence
      /\ counts' = Nothing /\ backfill' = backfill
  BY Zenon DEF Shape, Commit
<1>2. Flushed \in Tree /\ Alike(db, Flushed)
  BY <1>1, FlushedIs, Zenon
<1>3. Whole(db') /\ Flagged(db') /\ \A c \in Colls : ExactAt(db', c)
  BY <1>1, <1>2, PublishTally, Zenon DEF Alike
<1>4. disk' \in {disk, db'}
  BY <1>1, Zenon DEF Commit, Publish
<1>5. /\ Whole(disk') /\ Flagged(disk') /\ \A c \in Colls : ExactAt(disk', c)
  BY <1>3, <1>4, Zenon DEF Tallied
<1>6. /\ backfill'.counted \in Nat
      /\ \A c \in DOMAIN counts' : counts'[c].base + counts'[c].delta \in Nat
  BY <1>1, NothingIs, Zenon DEF Tallied
<1>7. ASSUME ~failed' PROVE Walking'
  <2>1. blocks' = Merged /\ pending' = Nothing
    BY <1>7, Zenon DEF Commit
  <2>2. Walking
    BY <1>1, Zenon DEF Tallied
  <2>3. db'.phase = db.phase /\ db'.rows = db.rows
    BY <1>1, <1>2, Zenon DEF Alike
  <2>4. ASSUME backfill.c # 0, db.phase[backfill.c] = "live"
        PROVE  OpenSequence(backfill.c)'.next = OpenSequence(backfill.c).next
    <3>0. PICK c : c = backfill.c
      BY Zenon
    <3>1. c \in Colls
      BY <1>1, <2>4, <3>0, CollectionsAssumption DEF Types, BackfillOK, Colls
    <3>2. OpenSequence(c)'.next = OpenSequence(c).next
      BY <1>1, <1>2, <2>1, <2>4, <3>0, <3>1, PublishNext, Zenon
    <3> QED
      BY <1>1, <3>0, <3>2, Zenon
  <2> QED
    BY <1>1, <2>2, <2>3, <2>4, Zenon DEF Walking
<1>8. Flagged(db') /\ \A c \in Colls : TallyAt(c)'
  BY <1>1, <1>3, FreshTally, Zenon
<1> QED
  BY <1>3, <1>5, <1>6, <1>7, <1>8, Zenon DEF Tallied

LEMMA BeginDropTally ==
  ASSUME Shape, Ided, Tallied, NEW c \in Colls, BeginDrop(c)
  PROVE  Tallied'
<1> DEFINE u == MarkDropping(Flushed, c)
<1>1. /\ Types /\ Standing /\ ~failed /\ db.phase[c] = "live"
      /\ db' = u /\ sequence' = NoSequence /\ pending' = Nothing
      /\ counts' = Nothing /\ backfill' = backfill
  BY Zenon DEF Shape, BeginDrop, DropAdmitted, Live
<1>2. Flushed \in Tree /\ Alike(db, Flushed)
  BY <1>1, FlushedIs, Zenon
<1>3. /\ u \in Tree /\ u.phase = [db.phase EXCEPT ![c] = "indexes"] /\ u.rows = db.rows
      /\ u.count = Flushed.count /\ u.counted = db.counted /\ u.seq = Flushed.seq
  <2>1. db.phase \in [Colls -> LifePhases]
    BY <1>1, TreeFields, Zenon DEF Types
  <2>2. [db.phase EXCEPT ![c] = "indexes"] \in [Colls -> LifePhases]
    BY <2>1, PhaseMoved, PhaseOrder, Zenon
  <2>3. u = [Flushed EXCEPT !.phase = [db.phase EXCEPT ![c] = "indexes"]]
    BY <1>2, Zenon DEF MarkDropping, Alike
  <2> HIDE DEF u
  <2> QED
    BY <1>2, <2>2, <2>3, Zenon DEF Tree, Alike
<1>4. \A d \in Colls : u.phase[d] = "live" => db.phase[d] = "live"
  <2>1. db.phase \in [Colls -> LifePhases]
    BY <1>1, TreeFields, Zenon DEF Types
  <2> HIDE DEF u
  <2> QED
    BY <1>3, <2>1, Zenon
<1>5. disk' \in {disk, Flushed, u} /\ (~failed' => blocks' = Merged)
  BY Zenon DEF BeginDrop, Publish
<1> HIDE DEF u
<1>6. /\ Whole(u) /\ Flagged(u) /\ (\A d \in Colls : ExactAt(u, d))
      /\ Whole(Flushed) /\ Flagged(Flushed) /\ (\A d \in Colls : ExactAt(Flushed, d))
  <2>1. Whole(u) /\ Flagged(u) /\ \A d \in Colls : ExactAt(u, d)
    BY <1>1, <1>3, <1>4, PublishTally, Zenon
  <2>2. Whole(Flushed) /\ Flagged(Flushed) /\ \A d \in Colls : ExactAt(Flushed, d)
    BY <1>1, <1>2, PublishTally, Zenon DEF Alike
  <2> QED
    BY <2>1, <2>2, Zenon
<1>7. /\ Whole(disk') /\ Flagged(disk') /\ \A d \in Colls : ExactAt(disk', d)
  BY <1>5, <1>6, Zenon DEF Tallied
<1>8. /\ backfill'.counted \in Nat
      /\ \A d \in DOMAIN counts' : counts'[d].base + counts'[d].delta \in Nat
  BY <1>1, NothingIs, Zenon DEF Tallied
<1>9. ASSUME ~failed' PROVE Walking'
  <2>1. Walking
    BY <1>1, Zenon DEF Tallied
  <2>2. ASSUME backfill.c # 0, u.phase[backfill.c] = "live"
        PROVE  /\ db.phase[backfill.c] = "live"
               /\ OpenSequence(backfill.c)'.next = OpenSequence(backfill.c).next
    <3>0. PICK d : d = backfill.c
      BY Zenon
    <3>1. d \in Colls
      BY <1>1, <2>2, <3>0, CollectionsAssumption DEF Types, BackfillOK, Colls
    <3>2. db.phase[d] = "live"
      BY <1>4, <2>2, <3>0, <3>1, Zenon
    <3>3. OpenSequence(d)'.next = OpenSequence(d).next
      BY <1>1, <1>3, <1>5, <1>9, <3>1, <3>2, PublishNext, Zenon
    <3> QED
      BY <1>1, <3>0, <3>2, <3>3, Zenon
  <2> QED
    BY <1>1, <1>3, <2>1, <2>2, Zenon DEF Walking
<1>10. Flagged(db') /\ \A d \in Colls : TallyAt(d)'
  BY <1>1, <1>6, FreshTally, Zenon
<1> QED
  BY <1>1, <1>6, <1>7, <1>8, <1>9, <1>10, Zenon DEF Tallied

(* A collection, and the counting walk, that a step does not touch. *)
LEMMA TallyCarries ==
  ASSUME NEW c, TallyAt(c), db'.phase[c] = "live" => db.phase[c] = "live",
         c \in DOMAIN db'.count <=> c \in DOMAIN db.count,
         c \in DOMAIN db.count => db'.count[c] = db.count[c],
         c \in DOMAIN counts' <=> c \in DOMAIN counts,
         c \in DOMAIN counts => counts'[c] = counts[c],
         db'.phase[c] = "live" => db'.rows[c] = db.rows[c]
  PROVE  TallyAt(c)'
BY Zenon DEF TallyAt, RowCount

LEMMA WalkCarries ==
  ASSUME Types, Walking, backfill' = backfill,
         \A c \in Colls : c = backfill.c /\ db'.phase[c] = "live" =>
           /\ db.phase[c] = "live" /\ db'.rows[c] = db.rows[c]
           /\ OpenSequence(c)'.next = OpenSequence(c).next
  PROVE  Walking'
<1>1. backfill.c # 0 => backfill.c \in Colls
  BY CollectionsAssumption DEF Types, BackfillOK, Colls
<1> QED
  BY <1>1, Zenon DEF Walking

LEMMA CreateTally ==
  ASSUME Cardinals, Shape, Ided, Tallied, CreateCollection
  PROVE  Tallied'
<1>0. PICK n : n = db.next
  BY Zenon
<1>1. /\ Types /\ Standing /\ ~failed /\ failed' = failed /\ disk' = disk
      /\ sequence' = sequence /\ blocks' = blocks /\ pending' = pending
      /\ backfill' = backfill /\ counts' = Drop(counts, n)
  BY <1>0, Zenon DEF Shape, CreateCollection, ids
<1>2. /\ n \in Colls /\ db'.phase = [db.phase EXCEPT ![n] = "live"] /\ db'.rows = db.rows
      /\ db'.counted = TRUE /\ db'.count = Set(db.count, n, 0) /\ db'.seq = Set(db.seq, n, 1)
  BY <1>0, <1>1, CreateFields, Zenon DEF Types
<1>3. db.phase \in [Colls -> LifePhases] /\ n \in Nat /\ n # 0
  BY <1>1, <1>2, TreeFields, CollectionsAssumption DEF Types, Colls
<1>4. db.phase[n] = "none" /\ n \notin DOMAIN db.count /\ DOMAIN db.rows[n] = {}
  <2>1. TidyAt(db, n)
    BY <1>1, <1>2, Zenon DEF Standing
  <2> QED
    BY <1>0, <1>3, <2>1 DEF TidyAt, Passed
<1>5. n \notin DOMAIN counts /\ backfill.c # n
  BY <1>1, <1>3, <1>4, Zenon DEF Standing
<1>6. /\ DOMAIN counts' = DOMAIN counts /\ \A d \in DOMAIN counts : counts'[d] = counts[d]
  BY <1>1, <1>5, Zenon DEF Drop, Restrict
<1>7. /\ DOMAIN db'.count = DOMAIN db.count \cup {n} /\ db'.count[n] = 0
      /\ \A d \in DOMAIN db.count : db'.count[d] = db.count[d]
  BY <1>2, <1>4 DEF Set
<1>8. Whole(db') /\ Flagged(db')
  BY <1>2, <1>7 DEF Tallied, Whole, Flagged
<1>9. ASSUME NEW c \in Colls, c # n PROVE TallyAt(c)'
  <2>1. db'.phase[c] = db.phase[c]
    BY <1>2, <1>3, <1>9, Zenon
  <2>2. TallyAt(c) /\ (c \in DOMAIN db'.count <=> c \in DOMAIN db.count)
    BY <1>1, <1>7, <1>9, Zenon DEF Tallied
  <2> QED
    BY <1>2, <1>6, <1>7, <2>1, <2>2, TallyCarries, Zenon
<1>10. TallyAt(n)'
  <2>1. n \notin DOMAIN counts' /\ n \in DOMAIN db'.count /\ db'.count[n] = 0
    BY <1>5, <1>6, <1>7
  <2>2. Cardinality(DOMAIN db'.rows[n]) = 0
    BY <1>2, <1>4, Zenon DEF Cardinals
  <2> QED
    BY <2>1, <2>2, Zenon DEF TallyAt, RowCount
<1>11. Walking'
  <2>1. ASSUME NEW c \in Colls, c = backfill.c, db'.phase[c] = "live"
        PROVE  /\ db.phase[c] = "live" /\ db'.rows[c] = db.rows[c]
               /\ OpenSequence(c)'.next = OpenSequence(c).next
    <3>1. c # n /\ db.phase[c] = "live"
      BY <1>2, <1>3, <1>5, <2>1, Zenon
    <3>2. c \in DOMAIN db.seq
      BY <1>1, <3>1, Zenon DEF Standing, TidyAt
    <3>3. db'.seq[c] = db.seq[c]
      BY <1>2, <3>1, <3>2 DEF Set
    <3>4. OpenSequence(c)' = OpenSequence(c)
      BY <1>1, <3>3, OpenSame, Zenon
    <3> QED
      BY <1>2, <3>1, <3>4, Zenon
  <2> QED
    BY <1>1, <2>1, WalkCarries, Zenon DEF Tallied
<1>12. \A d \in DOMAIN counts' : counts'[d].base + counts'[d].delta \in Nat
  BY <1>6, Zenon DEF Tallied
<1>13. /\ Whole(disk') /\ Flagged(disk') /\ (\A c \in Colls : ExactAt(disk', c))
       /\ backfill'.counted \in Nat
  BY <1>1, Zenon DEF Tallied
<1> QED
  BY <1>8, <1>9, <1>10, <1>11, <1>12, <1>13, Zenon DEF Tallied

LEMMA FreshStartTally ==
  ASSUME Cardinals, Tallied, Rollback \/ Reopen
  PROVE  Tallied'
<1>1. db' = disk /\ disk' = disk /\ counts' = Nothing /\ backfill' = NoBackfill
  BY Zenon DEF Rollback, Reopen
<1>2. /\ Whole(disk) /\ Flagged(disk) /\ \A c \in Colls : ExactAt(disk, c)
  BY Zenon DEF Tallied
<1>3. Flagged(db') /\ \A c \in Colls : TallyAt(c)'
  BY <1>1, <1>2, FreshTally, Zenon
<1>4. backfill'.c = 0 /\ backfill'.counted \in Nat
  BY <1>1, Zenon DEF NoBackfill
<1>5. \A d \in DOMAIN counts' : counts'[d].base + counts'[d].delta \in Nat
  BY <1>1, NothingIs, Zenon
<1>6. Walking'
  BY <1>4, Zenon DEF Walking
<1> QED
  BY <1>1, <1>2, <1>3, <1>4, <1>5, <1>6, Zenon DEF Tallied

(* A row counted in, or out: the accumulators of every collection. *)
LEMMA NotedTally ==
  ASSUME Types, Standing, Tallied, ~failed, NEW c \in Colls, db.phase[c] = "live",
         NEW n \in Int, counts' = Note(c, n), db'.count = db.count, db'.phase = db.phase,
         \A d \in Colls \ {c} : db'.rows[d] = db.rows[d],
         Cardinality(DOMAIN db'.rows[c]) = Cardinality(DOMAIN db.rows[c]) + n,
         Cardinality(DOMAIN db'.rows[c]) \in Nat
  PROVE  /\ \A d \in Colls : TallyAt(d)'
         /\ \A d \in DOMAIN counts' : counts'[d].base + counts'[d].delta \in Nat
<1>1. Flagged(db) /\ TallyAt(c) /\ dropping # c
  BY NotDropping, Zenon DEF Tallied, Standing
<1>2. /\ c \in DOMAIN db.count =>
           /\ DOMAIN counts' = DOMAIN counts \cup {c}
           /\ counts'[c].base = db.count[c]
           /\ counts'[c].base + counts'[c].delta = RowCount(c) + n
           /\ \A d \in DOMAIN counts \ {c} : counts'[d] = counts[d]
      /\ c \notin DOMAIN db.count => counts' = counts /\ c \notin DOMAIN counts
  BY <1>1, NoteTally, Zenon
<1>3. ASSUME NEW d \in Colls, d # c PROVE TallyAt(d)'
  <2>1. /\ TallyAt(d) /\ (d \in DOMAIN counts' <=> d \in DOMAIN counts)
        /\ d \in DOMAIN counts => counts'[d] = counts[d]
    BY <1>2, <1>3 DEF Tallied
  <2> QED
    BY <1>3, <2>1, TallyCarries, Zenon
<1>4. CASE c \in DOMAIN db.count
  <2>1. RowCount(c)' = RowCount(c) + n
    BY <1>2, <1>4, Zenon DEF RowCount
  <2>2. RowCount(c) = Cardinality(DOMAIN db.rows[c])
    BY <1>1, <1>4, Zenon DEF TallyAt
  <2>3. RowCount(c)' = Cardinality(DOMAIN db'.rows[c])
    BY <2>1, <2>2, Zenon
  <2>4. TallyAt(c)'
    BY <1>2, <1>4, <2>3, Zenon DEF TallyAt
  <2>5. counts'[c].base + counts'[c].delta \in Nat
    BY <1>2, <1>4, <2>2, Zenon
  <2>6. \A d \in DOMAIN counts' : counts'[d].base + counts'[d].delta \in Nat
    BY <1>2, <1>4, <2>5, Zenon DEF Tallied
  <2> QED
    BY <1>3, <2>4, <2>6, Zenon
<1>5. CASE c \notin DOMAIN db.count
  <2>1. TallyAt(c)'
    BY <1>2, <1>5, Zenon DEF TallyAt
  <2>2. \A d \in DOMAIN counts' : counts'[d].base + counts'[d].delta \in Nat
    BY <1>2, <1>5, Zenon DEF Tallied
  <2> QED
    BY <1>3, <2>1, <2>2, Zenon
<1> QED
  BY <1>4, <1>5, Zenon

LEMMA PutTally ==
  ASSUME Cardinals, Shape, Ided, Tallied, NEW c \in Colls, NEW k \in Keys, PutNew(c, k)
  PROVE  Tallied'
<1>1. /\ Types /\ Standing /\ ~failed /\ failed' = failed /\ db.phase[c] = "live"
      /\ disk' = disk /\ backfill' = backfill /\ counts' = Note(c, 1)
  BY Zenon DEF Shape, PutNew, Live
<1>2. PICK id \in Ids :
        /\ id = OpenSequence(c).next /\ Inserted(db, db', c, k, id)
        /\ sequence'.c = c /\ sequence'.next = id + 1
  BY PutOpens, Zenon
<1>3. /\ db'.phase = db.phase /\ db'.counted = db.counted /\ db'.count = db.count
      /\ db'.rows = [db.rows EXCEPT ![c] = Set(db.rows[c], id, k)]
      /\ db.rows \in [Colls -> Partial(Ids, Keys)]
  BY <1>1, <1>2, TreeFields, Zenon DEF Inserted, Types
<1>4. PICK S : S = DOMAIN db.rows[c]
  OBVIOUS
<1>5. S \in SUBSET Ids
  BY <1>3, <1>4 DEF Partial
<1>6. DOMAIN db'.rows[c] = S \cup {id} /\ \A d \in Colls \ {c} : db'.rows[d] = db.rows[d]
  BY <1>3, <1>4 DEF Set
<1>7. Above(S, id)
  BY <1>1, <1>2, <1>4, Zenon DEF Ided, WorkingAt, Numbered, Above
<1>8. id \notin S
  BY <1>2, <1>5, <1>7 DEF Above, Ids
<1>9. /\ Cardinality(S \cup {id}) = Cardinality(S) + 1
      /\ Cardinality(S \cup {id}) \in Nat
  <2>1. S \cup {id} \in SUBSET Ids /\ id \in Ids \ S
    BY <1>2, <1>5, <1>8, Zenon
  <2> QED
    BY <1>5, <2>1, Zenon DEF Cardinals, Countable
<1>10. /\ \A d \in Colls : TallyAt(d)'
       /\ \A d \in DOMAIN counts' : counts'[d].base + counts'[d].delta \in Nat
  <2>1. 1 \in Int
    OBVIOUS
  <2> QED
    BY <1>1, <1>3, <1>4, <1>6, <1>9, <2>1, NotedTally, Zenon
<1>11. Walking'
  <2>1. CASE backfill.c # c
    <3>1. \A d \in Colls : d = backfill.c /\ db'.phase[d] = "live" =>
            /\ db.phase[d] = "live" /\ db'.rows[d] = db.rows[d]
            /\ OpenSequence(d)'.next = OpenSequence(d).next
      BY <1>3, <1>6, <2>1, PutOthers
    <3> QED
      BY <1>1, <3>1, WalkCarries, Zenon DEF Tallied
  <2>2. CASE backfill.c = c
    <3>1. c # 0
      BY DEF Colls
    <3>2. /\ backfill.after \in Nat /\ backfill.after < id
          /\ backfill.counted = Cardinality({x \in S : x <= backfill.after})
      BY <1>1, <1>2, <1>4, <2>2, <3>1, Zenon DEF Tallied, Walking
    <3>3. OpenSequence(c)'.next = id + 1
      BY <1>2, Zenon DEF OpenSequence
    <3>4. {x \in S \cup {id} : x <= backfill.after} = {x \in S : x <= backfill.after}
      BY <1>2, <3>2 DEF Ids
    <3>5. backfill.after < id + 1
      BY <1>2, <3>2 DEF Ids
    <3> QED
      BY <1>1, <1>6, <2>2, <3>2, <3>3, <3>4, <3>5, Zenon DEF Walking
  <2> QED
    BY <2>1, <2>2, Zenon
<1>12. Whole(db') /\ Flagged(db')
  BY <1>1, <1>3, Zenon DEF Tallied, Whole, Flagged
<1> QED
  BY <1>1, <1>10, <1>11, <1>12, Zenon DEF Tallied

LEMMA DeleteTally ==
  ASSUME Cardinals, Shape, Ided, Tallied, NEW c \in Colls, NEW k \in Keys, Delete(c, k)
  PROVE  Tallied'
<1>0. PICK id : id = db.maps[c][k]
  BY Zenon
<1>1. /\ Types /\ Standing /\ ~failed /\ failed' = failed /\ db.phase[c] = "live"
      /\ disk' = disk /\ blocks' = blocks /\ pending' = pending /\ sequence' = sequence
      /\ id \in DOMAIN db.rows[c]
      /\ backfill' = BackfillAfterRemoval(c, id) /\ counts' = Note(c, -1)
  BY <1>0, Zenon DEF Shape, Delete, Live, Loads
<1>2. Removed(db, db', c, k, id)
  BY <1>0, <1>1, DeleteFields, Zenon DEF Types
<1>3. /\ db'.phase = db.phase /\ db'.counted = db.counted /\ db'.count = db.count
      /\ db'.seq = db.seq /\ db'.rows = [db.rows EXCEPT ![c] = Drop(db.rows[c], id)]
      /\ db.rows \in [Colls -> Partial(Ids, Keys)]
  BY <1>1, <1>2, TreeFields, Zenon DEF Removed, Types
<1>4. PICK S : S = DOMAIN db.rows[c]
  BY Zenon
<1>5. S \in SUBSET Ids /\ id \in S
  BY <1>1, <1>3, <1>4 DEF Partial
<1>6. DOMAIN db'.rows[c] = S \ {id} /\ \A d \in Colls \ {c} : db'.rows[d] = db.rows[d]
  BY <1>3, <1>4 DEF Drop, Restrict
<1>7. Cardinality(S \ {id}) = Cardinality(S) + (-1) /\ Cardinality(S \ {id}) \in Nat
  <2>1. /\ Cardinality(S \ {id}) = Cardinality(S) - 1 /\ Cardinality(S \ {id}) \in Nat
        /\ Cardinality(S) \in Nat
    BY <1>5, OneLess, Zenon
  <2> QED
    BY <2>1, Zenon
<1>8. /\ \A d \in Colls : TallyAt(d)'
      /\ \A d \in DOMAIN counts' : counts'[d].base + counts'[d].delta \in Nat
  <2>1. -1 \in Int
    OBVIOUS
  <2> QED
    BY <1>1, <1>3, <1>4, <1>6, <1>7, <2>1, NotedTally, Zenon
<1>9. \A d \in Colls : OpenSequence(d)' = OpenSequence(d)
  BY <1>1, <1>3, Zenon DEF OpenSequence, BlockOf
<1>10. CASE ~(backfill.c = c /\ id <= backfill.after /\ backfill.counted > 0)
  <2>1. backfill' = backfill
    BY <1>1, <1>10, Zenon DEF BackfillAfterRemoval
  <2>2. Walking'
    <3>1. CASE backfill.c # c
      <4>1. \A d \in Colls : d = backfill.c /\ db'.phase[d] = "live" =>
              /\ db.phase[d] = "live" /\ db'.rows[d] = db.rows[d]
              /\ OpenSequence(d)'.next = OpenSequence(d).next
        BY <1>3, <1>6, <1>9, <3>1, Zenon
      <4> QED
        BY <1>1, <2>1, <4>1, WalkCarries, Zenon DEF Tallied
    <3>2. CASE backfill.c = c
      <4>1. c # 0
        BY DEF Colls
      <4>2. /\ backfill.after \in Nat /\ backfill.after < OpenSequence(c).next
            /\ backfill.counted = Cardinality({x \in S : x <= backfill.after})
        BY <1>1, <1>4, <3>2, <4>1, Zenon DEF Tallied, Walking
      <4>3. ~(id <= backfill.after)
        <5> SUFFICES ASSUME id <= backfill.after PROVE FALSE
          BY Zenon
        <5> DEFINE P == {x \in S : x <= backfill.after}
        <5>1. P \in SUBSET Ids /\ id \in P
          BY <1>5
        <5> HIDE DEF P
        <5>2. /\ Cardinality(P \ {id}) = Cardinality(P) - 1 /\ Cardinality(P \ {id}) \in Nat
              /\ Cardinality(P) \in Nat
          BY <5>1, OneLess, Zenon
        <5>3. Cardinality(P) > 0
          BY <5>2
        <5> QED
          BY <1>10, <3>2, <4>2, <5>3, Zenon DEF P
      <4>4. {x \in S \ {id} : x <= backfill.after} = {x \in S : x <= backfill.after}
        BY <4>3, Zenon
      <4> QED
        BY <1>6, <1>9, <2>1, <3>2, <4>2, <4>4, Zenon DEF Walking
    <3> QED
      BY <3>1, <3>2
  <2>3. backfill'.counted \in Nat
    BY <2>1, Zenon DEF Tallied
  <2>4. Whole(db') /\ Flagged(db')
    BY <1>1, <1>3, Zenon DEF Tallied, Whole, Flagged
  <2> QED
    BY <1>1, <1>8, <2>2, <2>3, <2>4, Zenon DEF Tallied
<1>11. CASE backfill.c = c /\ id <= backfill.after /\ backfill.counted > 0
  <2>1. /\ backfill'.c = c /\ backfill'.after = backfill.after
        /\ backfill'.counted = backfill.counted - 1
    <3>1. backfill = [c |-> backfill.c, after |-> backfill.after, counted |-> backfill.counted]
      BY <1>1, Zenon DEF Types, BackfillOK
    <3>2. backfill' = [backfill EXCEPT !.counted = backfill.counted - 1]
      BY <1>1, <1>11, Zenon DEF BackfillAfterRemoval
    <3> QED
      BY <1>11, <3>1, <3>2, Zenon
  <2>2. backfill'.counted \in Nat
    BY <1>11, <2>1 DEF Tallied
  <2>3. Walking'
    <3>1. c # 0
      BY DEF Colls
    <3>2. /\ backfill.after \in Nat /\ backfill.after < OpenSequence(c).next
          /\ backfill.counted = Cardinality({x \in S : x <= backfill.after})
      BY <1>1, <1>4, <1>11, <3>1, Zenon DEF Tallied, Walking
    <3> DEFINE P == {x \in S : x <= backfill.after}
    <3>3. P \in SUBSET Ids /\ id \in P /\ {x \in S \ {id} : x <= backfill.after} = P \ {id}
      BY <1>5, <1>11, Zenon
    <3> HIDE DEF P
    <3>4. Cardinality(P \ {id}) = Cardinality(P) - 1
      BY <3>3, OneLess, Zenon
    <3>5. backfill'.counted = Cardinality({x \in DOMAIN db'.rows[c] : x <= backfill.after})
      BY <1>6, <2>1, <3>2, <3>3, <3>4, Zenon DEF P
    <3> QED
      BY <1>9, <2>1, <3>2, <3>5, Zenon DEF Walking
  <2>4. Whole(db') /\ Flagged(db')
    BY <1>1, <1>3, Zenon DEF Tallied, Whole, Flagged
  <2> QED
    BY <1>1, <1>8, <2>2, <2>3, <2>4, Zenon DEF Tallied
<1> QED
  BY <1>10, <1>11, Zenon

(* The walk takes the least ids first: it takes all of them or stops at the *)
(* greatest it took.                                                        *)
UpTo(A, id) == {x \in A : x <= id}

LEMMA WalkTakes ==
  ASSUME Cardinals, NEW A \in SUBSET Ids, NEW b \in Nat, b # 0, NEW W \in SUBSET A,
         \A id \in A : id \in W <=> Cardinality(UpTo(A, id)) <= b
  PROVE  /\ Cardinality(W) < b => W = A
         /\ ~(Cardinality(W) < b) => Max(W) \in W /\ UpTo(A, Max(W)) = W
<1>1. W \in SUBSET Ids /\ Ids \subseteq Nat
  BY DEF Ids
<1>2. Cardinality(W) \in Nat
  BY <1>1, Zenon DEF Cardinals, Countable
<1>3. ASSUME Cardinality(W) < b, W # A PROVE FALSE
  <2>1. A \ W # {} /\ A \ W \subseteq Nat
    BY <1>1, <1>3, Zenon
  <2>2. PICK m \in A \ W : \A y \in A \ W : m <= y
    BY <2>1, Zenon DEF Cardinals, HasLeast
  <2>3. UpTo(A, m) \subseteq W \cup {m}
    <3>1. ASSUME NEW x \in A, x <= m, x \notin W PROVE x = m
      BY <1>1, <2>2, <3>1
    <3> QED
      BY <3>1, Zenon DEF UpTo
  <2>4. /\ UpTo(A, m) \in SUBSET Ids /\ W \cup {m} \in SUBSET Ids /\ m \in Ids \ W
    BY <1>1, <2>2, <2>3, Zenon
  <2>5. /\ Cardinality(UpTo(A, m)) <= Cardinality(W \cup {m})
        /\ Cardinality(UpTo(A, m)) \in Nat
        /\ Cardinality(W \cup {m}) = Cardinality(W) + 1
    BY <1>1, <2>3, <2>4, Zenon DEF Cardinals, Countable
  <2>6. Cardinality(UpTo(A, m)) <= b
    BY <1>2, <1>3, <2>5
  <2> QED
    BY <2>2, <2>6, Zenon
<1>4. ASSUME ~(Cardinality(W) < b)
      PROVE  Max(W) \in W /\ UpTo(A, Max(W)) = W
  <2>1. W # {}
    <3>1. Cardinality({}) < b
      <4>1. Cardinality({}) = 0
        BY Zenon DEF Cardinals
      <4> QED
        BY <4>1
    <3> QED
      BY <1>4, <3>1, Zenon
  <2>2. PICK m : m = Max(W)
    BY Zenon
  <2>3. m \in W /\ \A y \in W : y <= m
    BY <1>1, <2>1, <2>2, Zenon DEF Cardinals
  <2>4. ASSUME NEW x \in A, x <= m PROVE x \in W
    <3>1. x \in Nat /\ m \in Nat /\ A \subseteq Nat
      BY <1>1, <2>3, Zenon
    <3>2. UpTo(A, x) \subseteq UpTo(A, m)
      <4>1. \A y \in Nat : y <= x => y <= m
        BY <2>4, <3>1
      <4> QED
        BY <3>1, <4>1, Zenon DEF UpTo
    <3>3. UpTo(A, x) \in SUBSET Ids /\ UpTo(A, m) \in SUBSET Ids
      BY Zenon DEF UpTo
    <3>4. Cardinality(UpTo(A, m)) <= b
      BY <2>3, Zenon
    <3>5. /\ Cardinality(UpTo(A, x)) <= Cardinality(UpTo(A, m))
          /\ Cardinality(UpTo(A, x)) \in Nat /\ Cardinality(UpTo(A, m)) \in Nat
      BY <3>2, <3>3, Zenon DEF Cardinals, Countable
    <3>6. Cardinality(UpTo(A, x)) <= b
      BY <3>4, <3>5
    <3> QED
      BY <3>6, Zenon
  <2>5. UpTo(A, m) = W
    BY <2>3, <2>4, Zenon DEF UpTo
  <2> QED
    BY <2>2, <2>3, <2>5, Zenon
<1> QED
  BY <1>3, <1>4, Zenon

(* Where the walk stands before the call. *)
LEMMA CountingStands ==
  ASSUME Cardinals, Shape, Ided, Tallied, ~failed, backfill # NoBackfill \/ Uncounted # {},
         NEW a, a = Counting
  PROVE  /\ a.c \in Colls /\ a.counted \in Nat
         /\ db.phase[a.c] = "live" =>
              /\ a.after \in Nat /\ a.after < OpenSequence(a.c).next
              /\ a.counted = Cardinality({x \in DOMAIN db.rows[a.c] : x <= a.after})
<1>1. Types /\ Standing /\ Walking
  BY Zenon DEF Shape, Tallied
<1>2. /\ a.c \in Colls /\ db.phase[a.c] # "none"
      /\ backfill = NoBackfill => a = [c |-> Min(Uncounted), after |-> 0, counted |-> 0]
  BY <1>1, CountingIs, Zenon DEF Cardinals
<1>3. CASE backfill # NoBackfill
  <2>1. a = backfill
    BY <1>3, Zenon DEF Counting
  <2>2. a.c # 0
    BY <1>2 DEF Colls
  <2> QED
    BY <1>1, <1>2, <2>1, <2>2, Zenon DEF Tallied, Walking
<1>4. CASE backfill = NoBackfill
  <2>1. a.after = 0 /\ a.counted = 0
    BY <1>2, <1>4
  <2>2. a.c \in DOMAIN db.seq
    BY <1>1, <1>2, Zenon DEF Standing, TidyAt
  <2>3. OpenSequence(a.c).next \in Nat \ {0}
    BY <1>1, <1>2, <2>2, OpenIs, Zenon DEF OpenSeq, Positive
  <2>4. DOMAIN db.rows[a.c] \subseteq Ids
    <3>1. db.rows \in [Colls -> Partial(Ids, Keys)]
      BY <1>1, TreeFields, Zenon DEF Types
    <3> QED
      BY <1>2, <3>1 DEF Partial
  <2>5. {x \in DOMAIN db.rows[a.c] : x <= a.after} = {}
    BY <2>1, <2>4 DEF Ids
  <2>6. Cardinality({}) = 0
    BY Zenon DEF Cardinals
  <2> QED
    BY <1>2, <2>1, <2>3, <2>5, <2>6
<1> QED
  BY <1>3, <1>4, Zenon

LEMMA BackfillTally ==
  ASSUME Cardinals, Shape, Ided, Tallied, NEW b \in 1..Batch, Backfill(b)
  PROVE  Tallied'
<1>0. PICK a : a = Counting
  BY Zenon
<1>1. /\ Types /\ Standing /\ ~failed /\ failed' = failed /\ disk' = disk
      /\ sequence' = sequence /\ blocks' = blocks /\ pending' = pending
      /\ (backfill # NoBackfill \/ Uncounted # {})
  BY BackfillIs, Zenon DEF Shape
<1>2. /\ a.c \in Colls /\ a.counted \in Nat
      /\ db.phase[a.c] = "live" =>
           /\ a.after \in Nat /\ a.after < OpenSequence(a.c).next
           /\ a.counted = Cardinality({x \in DOMAIN db.rows[a.c] : x <= a.after})
  BY <1>0, <1>1, CountingStands, Zenon
<1>3. PICK W : W = Walked(a, b)
  BY Zenon
<1>4. /\ W \subseteq Ahead(a) /\ Ahead(a) \in SUBSET Ids /\ Cardinality(W) \in Nat
      /\ Total(a, b) = a.counted + Cardinality(W)
      /\ DOMAIN db.rows[a.c] \in SUBSET Ids
  <2>1. /\ db \in Tree /\ Countable /\ a.counted \in Int
    BY <1>1, <1>2 DEF Types, Cardinals
  <2>2. /\ W \subseteq Ahead(a) /\ Ahead(a) \subseteq DOMAIN db.rows[a.c]
        /\ DOMAIN db.rows[a.c] \subseteq Ids /\ Cardinality(W) \in Nat
    BY <1>2, <1>3, <2>1, WalkedIs, Zenon
  <2> QED
    BY <1>3, <2>2, Zenon DEF Total
<1>5. Total(a, b) \in Nat
  BY <1>2, <1>4
<1>6. /\ Cardinality(W) < b => W = Ahead(a)
      /\ ~(Cardinality(W) < b) => Max(W) \in W /\ UpTo(Ahead(a), Max(W)) = W
  <2>1. b \in Nat /\ b # 0
    OBVIOUS
  <2>2. W = {id \in Ahead(a) : Cardinality(UpTo(Ahead(a), id)) <= b}
    BY <1>3, Zenon DEF Walked, UpTo
  <2>3. PICK A : A = Ahead(a)
    BY Zenon
  <2>4. /\ A \in SUBSET Ids /\ W \in SUBSET A
        /\ \A id \in A : id \in W <=> Cardinality(UpTo(A, id)) <= b
    BY <1>4, <2>2, <2>3, Zenon
  <2>5. /\ Cardinality(W) < b => W = A
        /\ ~(Cardinality(W) < b) => Max(W) \in W /\ UpTo(A, Max(W)) = W
    BY <2>1, <2>4, WalkTakes, Zenon
  <2> QED
    BY <2>3, <2>5, Zenon
<1>7. PICK S : S = DOMAIN db.rows[a.c]
  BY Zenon
<1>8. ASSUME db.phase[a.c] = "live", NEW U \in SUBSET Ahead(a)
      PROVE  Cardinality({x \in S : x <= a.after} \cup U) = a.counted + Cardinality(U)
  <2> DEFINE L == {x \in S : x <= a.after}
  <2>1. L \in SUBSET Ids /\ U \in SUBSET Ids
    BY <1>4, <1>7, Zenon
  <2>2. L \cap U = {}
    BY <1>2, <1>4, <1>7, <1>8 DEF Ahead, Ids
  <2>3. a.counted = Cardinality(L)
    BY <1>2, <1>7, <1>8, Zenon
  <2> HIDE DEF L
  <2>4. Cardinality(L \cup U) = Cardinality(L) + Cardinality(U)
    BY <2>1, <2>2, Zenon DEF Cardinals
  <2> QED
    BY <2>3, <2>4, Zenon DEF L
<1>9. CASE Cardinality(W) < b
  <2>1. /\ db' = [db EXCEPT !.counted = TRUE, !.count = Set(db.count, a.c, Total(a, b))]
        /\ counts' = Drop(counts, a.c) /\ backfill' = NoBackfill
    BY <1>0, <1>3, <1>9, BackfillIs, Zenon
  <2>2. /\ db'.phase = db.phase /\ db'.rows = db.rows /\ db'.counted = TRUE
        /\ db'.count = Set(db.count, a.c, Total(a, b))
    BY <1>1, <2>1, Zenon DEF Types, Tree
  <2>3. /\ DOMAIN db'.count = DOMAIN db.count \cup {a.c} /\ db'.count[a.c] = Total(a, b)
        /\ \A d \in DOMAIN db.count \ {a.c} : db'.count[d] = db.count[d]
    BY <2>2, Zenon DEF Set
  <2>4. /\ DOMAIN counts' = DOMAIN counts \ {a.c}
        /\ \A d \in DOMAIN counts \ {a.c} : counts'[d] = counts[d]
    BY <2>1, Zenon DEF Drop, Restrict
  <2>5. Whole(db') /\ Flagged(db')
    BY <1>5, <2>2, <2>3 DEF Tallied, Whole, Flagged
  <2>6. ASSUME NEW d \in Colls, d # a.c PROVE TallyAt(d)'
    <3>1. /\ TallyAt(d) /\ (d \in DOMAIN counts' <=> d \in DOMAIN counts)
          /\ (d \in DOMAIN db'.count <=> d \in DOMAIN db.count)
          /\ (d \in DOMAIN counts => counts'[d] = counts[d])
          /\ (d \in DOMAIN db.count => db'.count[d] = db.count[d])
      BY <1>1, <2>3, <2>4, <2>6, Zenon DEF Tallied
    <3> QED
      BY <2>2, <3>1, TallyCarries, Zenon
  <2>7. TallyAt(a.c)'
    <3>0. PICK c : c = a.c
      BY Zenon
    <3>1. c \notin DOMAIN counts' /\ db'.count[c] = Total(a, b)
      BY <2>3, <2>4, <3>0, Zenon
    <3>2. ASSUME db.phase[c] = "live" PROVE Total(a, b) = Cardinality(S)
      <4>1. {x \in S : x <= a.after} \cup W = S
        <5>1. a.after \in Nat /\ S \subseteq Nat
          BY <1>2, <1>4, <1>7, <3>0, <3>2 DEF Ids
        <5> QED
          BY <1>6, <1>7, <1>9, <5>1 DEF Ahead
      <4> QED
        BY <1>4, <1>8, <3>0, <3>2, <4>1
    <3>3. TallyAt(c)'
      BY <1>7, <2>2, <3>0, <3>1, <3>2, Zenon DEF TallyAt, RowCount
    <3> QED
      BY <3>0, <3>3
  <2>8. \A d \in DOMAIN counts' : counts'[d].base + counts'[d].delta \in Nat
    BY <2>4, Zenon DEF Tallied
  <2>9. Walking' /\ backfill'.counted \in Nat
    BY <2>1 DEF Walking, NoBackfill
  <2> QED
    BY <1>1, <2>5, <2>6, <2>7, <2>8, <2>9, Zenon DEF Tallied
<1>10. CASE ~(Cardinality(W) < b)
  <2>1. /\ backfill' = [c |-> a.c, after |-> Max(W), counted |-> Total(a, b)]
        /\ db' = db /\ counts' = counts
    BY <1>0, <1>3, <1>10, BackfillIs, Zenon
  <2>2. backfill'.c = a.c /\ backfill'.after = Max(W) /\ backfill'.counted = Total(a, b)
    BY <2>1, Zenon
  <2>3. PICK m : m = Max(W)
    OBVIOUS
  <2>4. m \in W /\ {x \in Ahead(a) : x <= m} = W
    BY <1>6, <1>10, <2>3, Zenon DEF UpTo
  <2>5. m \in S /\ m \in Nat /\ m > a.after
    BY <1>4, <1>7, <2>4 DEF Ahead, Ids
  <2>6. ASSUME db.phase[a.c] = "live"
        PROVE  /\ m < OpenSequence(a.c).next
               /\ Total(a, b) = Cardinality({x \in S : x <= m})
    <3>1. Numbered(a.c)
      BY <1>1, <1>2, <2>6, Zenon DEF Ided, WorkingAt
    <3>2. m < OpenSequence(a.c).next
      BY <1>7, <2>5, <3>1 DEF Numbered, Above
    <3>3. a.after \in Nat /\ S \subseteq Nat
      BY <1>2, <1>4, <1>7, <2>6 DEF Ids
    <3>4. {x \in S : x <= m} = {x \in S : x <= a.after} \cup W
      BY <1>7, <2>4, <2>5, <3>3 DEF Ahead
    <3> QED
      BY <1>4, <1>8, <2>6, <3>2, <3>4, Zenon
  <2>7. OpenSequence(a.c)' = OpenSequence(a.c)
    BY <1>1, <2>1, Zenon DEF OpenSequence, BlockOf
  <2>8. Walking'
    <3>0. PICK c : c = a.c
      BY Zenon
    <3>1. /\ backfill'.c = c /\ backfill'.after = m /\ backfill'.counted = Total(a, b)
      BY <2>2, <2>3, <3>0, Zenon
    <3>2. OpenSequence(c)' = OpenSequence(c)
      BY <1>1, <2>1, Zenon DEF OpenSequence, BlockOf
    <3>3. db.phase[c] = "live" =>
            /\ m < OpenSequence(c).next
            /\ Total(a, b) = Cardinality({x \in DOMAIN db.rows[c] : x <= m})
      BY <1>7, <2>6, <3>0, Zenon
    <3> QED
      BY <2>1, <2>5, <3>1, <3>2, <3>3, Zenon DEF Walking
  <2>9. \A d \in Colls : TallyAt(d)'
    BY <1>1, <2>1, Zenon DEF Tallied, TallyAt, RowCount
  <2> QED
    BY <1>1, <1>5, <2>1, <2>2, <2>8, <2>9, Zenon DEF Tallied
<1> QED
  BY <1>9, <1>10, Zenon

LEMMA DropDescriptorTally ==
  ASSUME Cardinals, Shape, Ided, Tallied, NEW c \in Colls, DropDescriptor(c)
  PROVE  Tallied'
<1>1. Types /\ Standing /\ ~failed /\ disk' = disk /\ db.phase[c] = "descriptor"
  BY Zenon DEF Shape, DropDescriptor
<1>2. CASE ~KeyspacesEmpty(db, c)
  <2>1. /\ failed' = TRUE /\ db' = db /\ counts' = counts /\ backfill' = backfill
    BY <1>2, Zenon DEF DropDescriptor, rest
  <2> QED
    BY <1>1, <2>1, Zenon DEF Tallied
<1>3. CASE KeyspacesEmpty(db, c)
  <2>1. /\ sequence' = (IF sequence.c = c THEN NoSequence ELSE sequence)
        /\ blocks' = Drop(blocks, c) /\ pending' = Drop(pending, c) /\ failed' = failed
        /\ counts' = Drop(counts, c)
        /\ backfill' = (IF backfill.c = c THEN NoBackfill ELSE backfill)
    BY <1>3, Zenon DEF DropDescriptor
  <2>2. /\ db'.counted = db.counted /\ db'.rows = db.rows
        /\ db'.phase[c] = "none" /\ (\A d \in Colls \ {c} : db'.phase[d] = db.phase[d])
        /\ db'.seq = Drop(db.seq, c) /\ db'.count = Drop(db.count, c)
    <3>1. db \in Tree
      BY <1>1, Zenon DEF Types
    <3> QED
      BY <1>3, <3>1, DescriptorFields, Zenon
  <2>3. /\ DOMAIN blocks' = DOMAIN blocks \ {c}
        /\ \A d \in DOMAIN blocks \ {c} : blocks'[d] = blocks[d]
    BY <2>1, Zenon DEF Drop, Restrict
  <2>4. /\ DOMAIN pending' = DOMAIN pending \ {c}
        /\ \A d \in DOMAIN pending \ {c} : pending'[d] = pending[d]
    BY <2>1, Zenon DEF Drop, Restrict
  <2>5. \A d \in DOMAIN db.seq \ {c} : db'.seq[d] = db.seq[d]
    BY <2>2, Zenon DEF Drop, Restrict
  <2>6. /\ DOMAIN counts' = DOMAIN counts \ {c}
        /\ \A d \in DOMAIN counts \ {c} : counts'[d] = counts[d]
    BY <2>1 DEF Drop, Restrict
  <2>7. /\ DOMAIN db'.count = DOMAIN db.count \ {c}
        /\ \A d \in DOMAIN db.count \ {c} : db'.count[d] = db.count[d]
    BY <2>2, Zenon DEF Drop, Restrict
  <2>8. Whole(db') /\ Flagged(db')
    BY <1>1, <2>2, <2>7, Zenon DEF Tallied, Whole, Flagged
  <2>9. \A d \in DOMAIN counts' : counts'[d].base + counts'[d].delta \in Nat
    BY <2>6 DEF Tallied
  <2>10. ASSUME NEW d \in Colls, d # c PROVE TallyAt(d)'
    <3>1. /\ TallyAt(d) /\ (d \in DOMAIN counts' <=> d \in DOMAIN counts)
          /\ (d \in DOMAIN db'.count <=> d \in DOMAIN db.count)
          /\ (d \in DOMAIN counts => counts'[d] = counts[d])
          /\ (d \in DOMAIN db.count => db'.count[d] = db.count[d])
          /\ db'.phase[d] = db.phase[d]
      BY <1>1, <2>2, <2>6, <2>7, <2>10, Zenon DEF Tallied
    <3> QED
      BY <2>2, <3>1, TallyCarries, Zenon
  <2>11. TallyAt(c)'
    BY <2>2, <2>6 DEF TallyAt
  <2>12. Walking' /\ backfill'.counted \in Nat
    <3>1. CASE backfill.c = c
      BY <2>1, <3>1, Zenon DEF Walking, NoBackfill
    <3>2. CASE backfill.c # c
      <4>1. backfill' = backfill
        BY <2>1, <3>2, Zenon
      <4>2. ASSUME NEW d \in Colls, d = backfill.c, db'.phase[d] = "live"
            PROVE  /\ db.phase[d] = "live" /\ db'.rows[d] = db.rows[d]
                   /\ OpenSequence(d)'.next = OpenSequence(d).next
        <5>1. d # c /\ db.phase[d] = "live"
          BY <2>2, <3>2, <4>2
        <5>2. d \in DOMAIN db.seq
          BY <1>1, <5>1, Zenon DEF Standing, TidyAt
        <5>3. db'.seq[d] = db.seq[d]
          BY <2>5, <5>1, <5>2, Zenon
        <5>4. sequence' = sequence \/ (sequence.c # d /\ sequence'.c # d)
          BY <2>1, <5>1, CollectionsAssumption DEF NoSequence, Colls
        <5>5. OpenSequence(d)' = OpenSequence(d)
          BY <2>3, <2>4, <5>1, <5>3, <5>4, OpenSame, Zenon
        <5> QED
          BY <2>2, <5>1, <5>5, Zenon
      <4> QED
        BY <1>1, <4>1, <4>2, WalkCarries, Zenon DEF Tallied
    <3> QED
      BY <3>1, <3>2, Zenon
  <2> QED
    BY <1>1, <2>8, <2>9, <2>10, <2>11, <2>12, Zenon DEF Tallied
<1> QED
  BY <1>2, <1>3, Zenon

LEMMA InitTally ==
  ASSUME Init
  PROVE  Tallied
<1>1. PICK n \in 0..MaxColl, indexed \in BOOLEAN : db = OldFile(n, indexed)
  BY Zenon DEF Init
<1>2. db.count = Nothing /\ disk = db /\ counts = Nothing /\ backfill = NoBackfill
  BY <1>1, Zenon DEF Init, OldFile
<1>3. DOMAIN db.count = {} /\ DOMAIN counts = {} /\ DOMAIN disk.count = {}
  BY <1>2, NothingIs, Zenon
<1>4. backfill.c = 0 /\ backfill.counted = 0
  BY <1>2, Zenon DEF NoBackfill
<1> QED
  BY <1>3, <1>4 DEF Tallied, Whole, Flagged, ExactAt, TallyAt, Walking

(* Every step keeps the counts. *)
LEMMA TallyStep ==
  ASSUME Cardinals, TakesAll, Shape, Ided, Tallied, [Next]_vars
  PROVE  Tallied'
<1>0. Types
  BY Zenon DEF Shape
<1>1. CASE CreateCollection
  BY <1>1, CreateTally, Zenon
<1>2. ASSUME NEW c \in Colls, NEW k \in Keys, PutNew(c, k) PROVE Tallied'
  BY <1>2, PutTally, Zenon
<1>3. ASSUME NEW c \in Colls, NEW k \in Keys, Delete(c, k) PROVE Tallied'
  BY <1>3, DeleteTally, Zenon
<1>4. CASE Commit
  BY <1>4, CommitTally, Zenon
<1>5. CASE Rollback \/ Reopen
  BY <1>5, FreshStartTally, Zenon
<1>6. ASSUME NEW b \in 1..Batch, Backfill(b) PROVE Tallied'
  BY <1>6, BackfillTally, Zenon
<1>7. ASSUME NEW c \in Colls, BeginDrop(c) PROVE Tallied'
  BY <1>7, BeginDropTally, Zenon
<1>8. ASSUME NEW c \in Colls, DropDescriptor(c) PROVE Tallied'
  BY <1>8, DropDescriptorTally, Zenon
<1>9. ASSUME NEW c \in Colls, NEW b \in 1..Batch, DropStep(c, b) PROVE Tallied'
  <2>1. /\ disk' = disk /\ blocks' = blocks /\ pending' = pending /\ sequence' = sequence
        /\ counts' = counts /\ backfill' = backfill /\ failed' = failed
    BY <1>9, Zenon DEF DropStep, rest
  <2>2. Shrunk(db, db', c) /\ db'.phase[c] # "live"
    BY <1>9, DropStepShrinks, NotDropping, Zenon
  <2>3. /\ db'.count = db.count /\ db'.counted = db.counted /\ db'.seq = db.seq
        /\ \A d \in Colls : db'.phase[d] = "live" => SameAt(db, db', d)
    BY <2>2, Zenon DEF Shrunk
  <2>4. \A d : OpenSequence(d)' = OpenSequence(d)
    BY <2>1, <2>3, Zenon DEF OpenSequence, BlockOf
  <2>5. \A d \in Colls : db'.phase[d] = "live" =>
          db.phase[d] = "live" /\ db'.rows[d] = db.rows[d] /\ OpenSequence(d)' = OpenSequence(d)
    BY <2>3, <2>4, Zenon DEF SameAt
  <2> QED
    BY <1>0, <2>1, <2>3, <2>5, QuietTally, Zenon
<1>10. CASE \/ \E c \in Colls, k \in Keys : Replace(c, k)
            \/ IoError \/ UNCHANGED vars
  <2>1. /\ disk' = disk /\ blocks' = blocks /\ pending' = pending /\ sequence' = sequence
        /\ counts' = counts /\ backfill' = backfill /\ (~failed' => ~failed) /\ db' = db
    <3>1. CASE \E c \in Colls, k \in Keys : Replace(c, k)
      BY <3>1, Zenon DEF Replace, ids, rest
    <3>2. CASE IoError
      BY <3>2, Zenon DEF IoError, ids, rest
    <3>3. CASE UNCHANGED vars
      BY <3>3, Zenon DEF vars, ids, rest
    <3> QED
      BY <1>10, <3>1, <3>2, <3>3, Zenon
  <2>2. \A d : OpenSequence(d)' = OpenSequence(d)
    BY <2>1, Zenon DEF OpenSequence, BlockOf
  <2> QED
    BY <1>0, <2>1, <2>2, QuietTally, Zenon
<1> QED
  BY <1>1, <1>2, <1>3, <1>4, <1>5, <1>6, <1>7, <1>8, <1>9, <1>10, Zenon DEF Next

-----------------------------------------------------------------------------
(* What the invariants say to a caller. *)

LEMMA IdsFollow ==
  ASSUME Shape, Ided
  PROVE  IdsNeverReused
<1> SUFFICES ASSUME ~failed, NEW c \in Colls, db.phase[c] = "live"
             PROVE  OpenSequence(c).next \notin used[c] \cup DOMAIN db.rows[c]
  BY Zenon DEF IdsNeverReused, Live, NextId
<1>1. Types /\ c \in DOMAIN db.seq /\ Numbered(c)
  BY Zenon DEF Shape, Standing, TidyAt, Ided, WorkingAt
<1>2. OpenSequence(c).next \in Nat
  BY <1>1, OpenIs, Zenon DEF OpenSeq, Positive
<1> QED
  BY <1>1, <1>2 DEF Numbered, Above

LEMMA SpanFollows ==
  ASSUME Shape, Ided
  PROVE  SpanCovers
<1>1. ASSUME ~failed, NEW c \in Colls, db.phase[c] = "live", NEW id \in DOMAIN db.rows[c]
      PROVE  id < CollectionSpan(c)
  <2>1. Numbered(c)
    BY <1>1, Zenon DEF Ided, WorkingAt
  <2>2. id < OpenSequence(c).next
    BY <2>1, Zenon DEF Numbered, Above
  <2>3. OpenSequence(c).next = CollectionSpan(c)
    BY Zenon DEF OpenSequence, CollectionSpan
  <2> QED
    BY <2>2, <2>3, Zenon
<1>2. ASSUME NEW c \in Colls, disk.phase[c] = "live", NEW id \in DOMAIN disk.rows[c]
      PROVE  id < disk.seq[c]
  BY <1>2, Zenon DEF Ided, PublishedAt, Above
<1> QED
  BY <1>1, <1>2, Zenon DEF SpanCovers, Live

LEMMA TypesFollow ==
  ASSUME Types, Tallied
  PROVE  TypeOK
<1>1. ASSUME NEW t \in Tree, Whole(t)
      PROVE  /\ t.next \in 1..MaxColl + 1
             /\ t.phase \in [Colls -> {"live", "none"} \cup Phases]
             /\ DOMAIN t.seq \subseteq Colls /\ \A c \in DOMAIN t.seq : t.seq[c] \in Nat \ {0}
             /\ DOMAIN t.count \subseteq Colls /\ \A c \in DOMAIN t.count : t.count[c] \in Nat
             /\ t.index \in [Colls -> {"none", "ready", "dropping"}]
             /\ \A c \in Colls :
                  /\ t.posts[c] \subseteq Ids /\ t.cells[c] \subseteq Ids
                  /\ DOMAIN t.rows[c] \subseteq Ids /\ Range(t.rows[c]) \subseteq Keys
                  /\ DOMAIN t.maps[c] \subseteq Keys /\ Range(t.maps[c]) \subseteq Ids
  <2>1. /\ t.next \in 1..MaxColl + 1 /\ t.phase \in [Colls -> LifePhases]
        /\ t.seq \in Partial(Colls, Positive) /\ t.count \in Partial(Colls, Int)
        /\ t.index \in [Colls -> IndexStates]
        /\ t.posts \in [Colls -> SUBSET Ids] /\ t.cells \in [Colls -> SUBSET Ids]
        /\ t.rows \in [Colls -> Partial(Ids, Keys)] /\ t.maps \in [Colls -> Partial(Keys, Ids)]
    BY TreeFields, Zenon
  <2>2. DOMAIN t.seq \subseteq Colls /\ \A c \in DOMAIN t.seq : t.seq[c] \in Nat \ {0}
    BY <2>1 DEF Partial, Positive
  <2>3. DOMAIN t.count \subseteq Colls /\ \A c \in DOMAIN t.count : t.count[c] \in Nat
    <3>1. DOMAIN t.count \subseteq Colls
      BY <2>1, Zenon DEF Partial
    <3> QED
      BY <1>1, <3>1, Zenon DEF Whole
  <2>4. ASSUME NEW A, NEW B, NEW f \in Partial(A, B)
        PROVE  DOMAIN f \subseteq A /\ Range(f) \subseteq B
    BY DEF Partial, Range
  <2>5. ASSUME NEW c \in Colls
        PROVE  /\ t.posts[c] \subseteq Ids /\ t.cells[c] \subseteq Ids
               /\ DOMAIN t.rows[c] \subseteq Ids /\ Range(t.rows[c]) \subseteq Keys
               /\ DOMAIN t.maps[c] \subseteq Keys /\ Range(t.maps[c]) \subseteq Ids
    <3>1. /\ t.posts[c] \subseteq Ids /\ t.cells[c] \subseteq Ids
          /\ t.rows[c] \in Partial(Ids, Keys) /\ t.maps[c] \in Partial(Keys, Ids)
      BY <2>1, Zenon
    <3> QED
      BY <2>4, <3>1, Zenon
  <2> QED
    BY <2>1, <2>2, <2>3, <2>5, Zenon DEF LifePhases, IndexStates
<1>2. /\ db \in Tree /\ Whole(db) /\ disk \in Tree /\ Whole(disk)
      /\ (\A c \in DOMAIN counts : counts[c].base + counts[c].delta \in Nat)
      /\ backfill.counted \in Nat
  BY Zenon DEF Types, Tallied
<1> QED
  BY <1>1, <1>2, Zenon DEF TypeOK

LEMMA RowsFollow ==
  ASSUME Shape, Ided, Tallied
  PROVE  RowsConsistent
<1>1. TypeOK /\ SpanCovers
  BY TypesFollow, SpanFollows, Zenon DEF Shape
<1>2. ASSUME NEW t \in {disk} \cup (IF failed THEN {} ELSE {db}), NEW c \in Colls,
             t.phase[c] = "live"
      PROVE  Paired(t, c)
  BY <1>2, Zenon DEF Ided, PublishedAt, WorkingAt
<1> QED
  BY <1>1, <1>2, Zenon DEF RowsConsistent, Paired

LEMMA CountsFollow ==
  ASSUME Tallied
  PROVE  CountExact
BY Zenon DEF Tallied, TallyAt, ExactAt, CountExact, Live, HasRowCount
-----------------------------------------------------------------------------
(* Minima and cardinalities. *)

INSTANCE FiniteSetTheorems
INSTANCE WellFoundedInduction

(* A non-empty set of naturals contains its minimum. *)
LEMMA MinIsLeast ==
  ASSUME NEW S, S \subseteq Nat, S # {}
  PROVE  Min(S) \in S /\ \A y \in S : Min(S) <= y
<1> DEFINE Less == {ss \in Nat \X Nat : ss[1] < ss[2]}
<1>1. IsWellFoundedOn(Less, Nat)
  BY NatLessThanWellFounded, Zenon DEF OpToRel
<1>2. \E x \in S : \A y \in S : ~(<<y, x>> \in Less)
  <2> HIDE DEF Less
  <2> QED BY <1>1, WFMin, Zenon
<1>3. PICK x \in S : \A y \in S : ~(<<y, x>> \in Less)
  BY <1>2, Zenon
<1>4. ASSUME NEW y \in S PROVE x <= y
  <2>1. x \in Nat /\ y \in Nat
    BY Zenon
  <2>2. y < x => <<y, x>> \in Less
    BY <2>1, Zenon
  <2> QED
    BY <1>3, <2>1, <2>2
<1> QED
  BY <1>4, Zenon DEF Min

(* A non-empty bounded set of naturals contains its maximum. *)
LEMMA MaxIsGreatest ==
  ASSUME NEW n \in Nat, NEW S, S \subseteq 0..n, S # {}
  PROVE  Max(S) \in S /\ \A y \in S : y <= Max(S)
<1> DEFINE T == {n - s : s \in S}
<1>1. T \subseteq Nat /\ T # {}
  <2>1. \A s \in S : n - s \in Nat
    OBVIOUS
  <2>2. PICK s \in S : TRUE
    BY Zenon
  <2>3. n - s \in T
    BY Zenon
  <2> QED
    BY <2>1, <2>3, Zenon
<1>2. Min(T) \in T /\ \A y \in T : Min(T) <= y
  <2> HIDE DEF T
  <2> QED BY <1>1, MinIsLeast, Zenon
<1>3. PICK m \in S : Min(T) = n - m
  BY <1>2, Zenon
<1>4. ASSUME NEW y \in S PROVE y <= m
  <2>1. n - y \in T
    BY Zenon
  <2>2. n - m <= n - y
    BY <1>2, <1>3, <2>1, Zenon
  <2> QED
    BY <2>2
<1> QED
  BY <1>4, Zenon DEF Max

LEMMA LeastHolds == HasLeast
  BY MinIsLeast, Zenon DEF HasLeast

LEMMA IdsFinite ==
  ASSUME NEW S \in SUBSET Ids
  PROVE  IsFiniteSet(S) /\ Cardinality(S) \in Nat
<1>1. IsFiniteSet(Ids)
  BY CollectionsAssumption, FS_Interval DEF Ids
<1> QED
  BY <1>1, FS_Subset, FS_CardinalityType, Zenon

LEMMA CardinalsHold == Cardinals
<1>1. Countable
  BY IdsFinite, Zenon DEF Countable
<1>2. Cardinality({}) = 0
  BY FS_EmptySet, Zenon
<1>3. ASSUME NEW S \in SUBSET Ids, NEW x \in Ids \ S
      PROVE  Cardinality(S \cup {x}) = Cardinality(S) + 1
  <2>1. IsFiniteSet(S) /\ x \notin S
    BY IdsFinite
  <2> QED
    BY <2>1, FS_AddElement, Zenon
<1>4. ASSUME NEW S \in SUBSET Ids, NEW T \in SUBSET Ids, S \subseteq T
      PROVE  Cardinality(S) <= Cardinality(T)
  BY <1>4, IdsFinite, FS_Subset, Zenon
<1>5. ASSUME NEW S \in SUBSET Ids, NEW T \in SUBSET Ids, S \cap T = {}
      PROVE  Cardinality(S \cup T) = Cardinality(S) + Cardinality(T)
  <2>1. /\ IsFiniteSet(S) /\ IsFiniteSet(T)
        /\ Cardinality(S) \in Nat /\ Cardinality(T) \in Nat
    BY IdsFinite, Zenon
  <2>2. Cardinality(S \cup T) = Cardinality(S) + Cardinality(T) - Cardinality(S \cap T)
    BY <2>1, FS_Union, Zenon
  <2>3. Cardinality(S \cap T) = 0
    BY <1>2, <1>5, Zenon
  <2> QED
    BY <2>1, <2>2, <2>3
<1>6. ASSUME NEW S \in SUBSET Ids, S # {}
      PROVE  Max(S) \in S /\ \A y \in S : y <= Max(S)
  <2>1. S \subseteq 0..MaxId /\ MaxId \in Nat
    BY CollectionsAssumption DEF Ids
  <2> QED
    BY <1>6, <2>1, MaxIsGreatest, Zenon
<1> QED
  BY <1>1, <1>2, <1>3, <1>4, <1>5, <1>6, LeastHolds, Zenon DEF Cardinals

LEMMA TakesAllHolds == TakesAll
<1> SUFFICES ASSUME NEW S \in (SUBSET Ids) \cup (SUBSET Keys), NEW b \in 1..Batch,
                    NEW r \in Removals(S, b), r.ends
             PROVE  r.gone = S
  BY DEF TakesAll
<1>1. IsFiniteSet(S) /\ Cardinality(S) \in Nat
  BY IdsFinite, CollectionsAssumption, FS_Subset, FS_CardinalityType, Zenon
<1>2. PICK T \in FirstEntries(S, b) : r = [gone |-> T, ends |-> PhaseEnds(S, b)]
  BY DEF Removals
<1>3. r.gone = T /\ PhaseEnds(S, b)
  BY <1>2
<1>4. Cardinality(S) < b /\ T \in SUBSET S /\ Cardinality(T) = Min({b, Cardinality(S)})
  BY <1>2, <1>3, Zenon DEF PhaseEnds, FirstEntries
<1>5. PICK n : n = Cardinality(S)
  OBVIOUS
<1>6. Min({b, n}) = n
  <2>1. {b, n} \subseteq Nat /\ {b, n} # {}
    BY <1>1, <1>5
  <2>2. Min({b, n}) \in {b, n} /\ \A y \in {b, n} : Min({b, n}) <= y
    BY <2>1, MinIsLeast, Zenon
  <2> QED
    BY <1>1, <1>4, <1>5, <2>2
<1>7. Cardinality(S) = Cardinality(T)
  BY <1>4, <1>5, <1>6, Zenon
<1>8. S = T
  BY <1>1, <1>4, <1>7, FS_Subset, Zenon
<1> QED
  BY <1>3, <1>8, Zenon
-----------------------------------------------------------------------------
(* The invariants. *)

LEMMA ShapeAlways == Spec => []Shape
<1>1. Init => Shape
  BY InitShape, Zenon
<1>2. Shape /\ [Next]_vars => Shape'
  BY ShapeStep, CardinalsHold, TakesAllHolds, Zenon DEF Cardinals
<1> QED
  BY <1>1, <1>2, PTL DEF Spec

LEMMA IdedAlways ==
  ASSUME Answers
  PROVE  Spec => []Ided
<1>1. Init => Ided
  BY InitIds, Zenon
<1>2. Shape /\ Shape' /\ Ided /\ [Next]_vars => Ided'
  BY IdsStep, TakesAllHolds, Zenon
<1> QED
  BY <1>1, <1>2, ShapeAlways, PTL DEF Spec

LEMMA TalliedAlways ==
  ASSUME Answers
  PROVE  Spec => []Tallied
<1>1. Init => Tallied
  BY InitTally, Zenon
<1>2. Shape /\ Ided /\ Tallied /\ [Next]_vars => Tallied'
  BY TallyStep, CardinalsHold, TakesAllHolds, Zenon
<1> QED
  BY <1>1, <1>2, ShapeAlways, IdedAlways, PTL DEF Spec
-----------------------------------------------------------------------------
LEMMA ShapeResumes ==
  ASSUME Shape
  PROVE  DropResumable
<1>1. Alone(disk) /\ \A c \in Colls : TidyAt(disk, c)
  BY Zenon DEF Shape, Tidy
<1>2. Cardinality(Dropping(disk)) <= 1
  <2>1. CASE Dropping(disk) = {}
    BY <2>1, FS_EmptySet
  <2>2. CASE Dropping(disk) # {}
    <3>1. PICK c : Dropping(disk) = {c}
      BY <1>1, <2>2, Zenon DEF Alone
    <3>2. Cardinality({c}) = 1
      BY FS_Singleton, Zenon
    <3> QED
      BY <3>1, <3>2
  <2> QED
    BY <2>1, <2>2, Zenon
<1>3. ASSUME NEW c \in Colls
      PROVE  /\ Passed(disk, c, "indexes") => disk.index[c] = "none" /\ disk.posts[c] = {}
             /\ Passed(disk, c, "sidecars") => disk.cells[c] = {}
             /\ Passed(disk, c, "rows") => DOMAIN disk.rows[c] = {}
             /\ Passed(disk, c, "mappings") => DOMAIN disk.maps[c] = {}
             /\ disk.phase[c] = "none" => c \notin DOMAIN disk.seq \cup DOMAIN disk.count
  BY <1>1, Zenon DEF TidyAt
<1> QED
  BY <1>2, <1>3, Zenon DEF DropResumable, Passed

(* Whatever is committed, lost, rolled back, reopened or left half done, a  *)
(* published drop has emptied the keyspaces of every phase behind it, a     *)
(* collection without a descriptor has left nothing and at most one drop is *)
(* in flight: drop_collection_step resumes from the phase alone.            *)
THEOREM DropsResume == Spec => []DropResumable
<1>1. Shape => DropResumable
  BY ShapeResumes, Zenon
<1> QED
  BY <1>1, ShapeAlways, PTL

(* begin_drop_collection publishes its mark and removes nothing, and from   *)
(* there a published drop only goes forward and no row comes back.          *)
THEOREM DropsOnlyAdvance == Spec => DropFreezes
<1>1. Shape /\ [Next]_vars => Frozen(disk, disk')
  BY FreezesStep, Zenon
<1>2. Frozen(disk, disk') =>
        [\A c \in Colls :
           /\ disk.phase[c] = "live" /\ disk'.phase[c] # "live" =>
                /\ disk'.phase[c] = "indexes"
                /\ disk'.posts[c] = disk.posts[c] /\ disk'.cells[c] = disk.cells[c]
                /\ disk'.rows[c] = disk.rows[c] /\ disk'.maps[c] = disk.maps[c]
           /\ disk.phase[c] \in Phases =>
                /\ disk'.phase[c] \in {disk.phase[c], "none"} \cup PhasesAfter(disk.phase[c])
                /\ DOMAIN disk'.rows[c] \subseteq DOMAIN disk.rows[c]]_vars
  BY Zenon DEF Frozen
<1> QED
  BY <1>1, <1>2, ShapeAlways, PTL DEF Spec, DropFreezes

(* An id is handed out once: the next insert takes the id of no row of the  *)
(* working tree and of no row a published tree ever held, over commits,     *)
(* rollbacks, reopens and drops.  It is so in a 0.18-format file, and in a  *)
(* Register file as long as no commit is published and answered as failed.  *)
THEOREM IdsStayFresh ==
  ASSUME Answers
  PROVE  Spec => []IdsNeverReused
<1>1. Shape /\ Ided => IdsNeverReused
  BY IdsFollow, Zenon
<1> QED
  BY <1>1, ShapeAlways, IdedAlways, PTL

(* The external-key map and the rows of a live collection are inverse, its  *)
(* index holds exactly its rows and its span lies above them, in the        *)
(* working tree and in every published one.                                 *)
THEOREM RowsStayPaired ==
  ASSUME Answers
  PROVE  Spec => []RowsConsistent
<1>1. Shape /\ Ided /\ Tallied => RowsConsistent
  BY RowsFollow, Zenon
<1> QED
  BY <1>1, ShapeAlways, IdedAlways, TalliedAlways, PTL

(* The count row_count answers without a walk is the number of rows,        *)
(* whether it was kept from the collection's creation or reached by a       *)
(* backfill that inserts and deletes overtook.                              *)
THEOREM CountsAreExact ==
  ASSUME Answers
  PROVE  Spec => []CountExact
<1>1. Tallied => CountExact
  BY CountsFollow, Zenon
<1> QED
  BY <1>1, TalliedAlways, PTL
=============================================================================
