-------------------------- MODULE CollectionsProofs --------------------------
(***************************************************************************)
(* Collections, for every number of collections, keys, ids and every       *)
(* budget: what one step does to the working tree, the published tree and  *)
(* the handle's memory; then what it does to the row ids: an insert takes  *)
(* an id above every id that was ever published, in the file or in memory. *)
(***************************************************************************)
EXTENDS Collections, TLAPS

USE SMTT(30)

Partial(A, B) == UNION {[S -> B] : S \in SUBSET A}
Positive      == Nat \ {0}
LifePhases    == {"live", "none"} \cup Phases
IndexStates   == {"none", "ready", "dropping"}
IdBlock       == [next : Positive, reserved : Positive]

Tree ==
  [next    : 1..MaxColl + 1,
   phase   : [Colls -> LifePhases],
   seq     : Partial(Colls, Positive),
   counted : BOOLEAN,
   count   : Partial(Colls, Int),
   index   : [Colls -> IndexStates],
   posts   : [Colls -> SUBSET Ids],
   cells   : [Colls -> SUBSET Ids],
   rows    : [Colls -> Partial(Ids, Keys)],
   maps    : [Colls -> Partial(Keys, Ids)]]
-----------------------------------------------------------------------------
(* Partial functions. *)

LEMMA PartialIs ==
  ASSUME NEW A, NEW B, NEW f
  PROVE  f \in Partial(A, B) <=> DOMAIN f \subseteq A /\ f \in [DOMAIN f -> B]
BY Zenon DEF Partial

LEMMA SetIs ==
  ASSUME NEW f, NEW x, NEW v
  PROVE  /\ DOMAIN Set(f, x, v) = DOMAIN f \cup {x}
         /\ Set(f, x, v)[x] = v
         /\ \A y \in DOMAIN f \ {x} : Set(f, x, v)[y] = f[y]
BY Zenon DEF Set

LEMMA SetType ==
  ASSUME NEW A, NEW B, NEW f \in Partial(A, B), NEW x \in A, NEW v \in B
  PROVE  Set(f, x, v) \in Partial(A, B)
<1>1. DOMAIN f \subseteq A /\ f \in [DOMAIN f -> B]
  BY PartialIs, Zenon
<1>2. DOMAIN Set(f, x, v) \subseteq A
  <2>1. DOMAIN Set(f, x, v) = DOMAIN f \cup {x}
    BY SetIs, Zenon
  <2> QED
    BY <1>1, <2>1, Zenon
<1>3. Set(f, x, v) \in [DOMAIN f \cup {x} -> B]
  <2>1. \A y \in DOMAIN f \cup {x} : (IF y = x THEN v ELSE f[y]) \in B
    BY <1>1, Zenon
  <2> QED
    BY <2>1, Zenon DEF Set
<1> QED
  BY <1>2, <1>3, SetIs, PartialIs, Zenon

LEMMA RestrictIs ==
  ASSUME NEW f, NEW S
  PROVE  DOMAIN Restrict(f, S) = S /\ \A y \in S : Restrict(f, S)[y] = f[y]
BY Zenon DEF Restrict

LEMMA RestrictType ==
  ASSUME NEW A, NEW B, NEW f \in Partial(A, B), NEW S, S \subseteq DOMAIN f
  PROVE  Restrict(f, S) \in Partial(A, B)
<1>1. DOMAIN f \subseteq A /\ f \in [DOMAIN f -> B]
  BY PartialIs, Zenon
<1>2. Restrict(f, S) \in [S -> B]
  BY <1>1, Zenon DEF Restrict
<1> QED
  BY <1>1, <1>2, RestrictIs, PartialIs, Zenon

LEMMA DropIs ==
  ASSUME NEW f, NEW x
  PROVE  /\ DOMAIN Drop(f, x) = DOMAIN f \ {x}
         /\ \A y \in DOMAIN f \ {x} : Drop(f, x)[y] = f[y]
BY RestrictIs, Zenon DEF Drop

LEMMA DropType ==
  ASSUME NEW A, NEW B, NEW f \in Partial(A, B), NEW x
  PROVE  Drop(f, x) \in Partial(A, B)
BY RestrictType, Zenon DEF Drop

LEMMA NothingIs ==
  DOMAIN Nothing = {} /\ \A A, B : Nothing \in Partial(A, B)
<1>1. DOMAIN Nothing = {}
  BY Zenon DEF Nothing
<1>2. \A B : Nothing \in [{} -> B]
  BY Zenon DEF Nothing
<1> QED
  BY <1>1, <1>2, PartialIs, Zenon
-----------------------------------------------------------------------------
(* The phases of a drop. *)

LEMMA PhaseOrder ==
  /\ Phases = {"indexes", "sidecars", "rows", "mappings", "descriptor"}
  /\ PhasesAfter("indexes") = {"sidecars", "rows", "mappings", "descriptor"}
  /\ PhasesAfter("sidecars") = {"rows", "mappings", "descriptor"}
  /\ PhasesAfter("rows") = {"mappings", "descriptor"}
  /\ PhasesAfter("mappings") = {"descriptor"}
  /\ PhasesAfter("descriptor") = {}
<1>1. DOMAIN DropPhase = 1..5
  BY DEF DropPhase
<1>2. /\ DropPhase[1] = "indexes" /\ DropPhase[2] = "sidecars" /\ DropPhase[3] = "rows"
      /\ DropPhase[4] = "mappings" /\ DropPhase[5] = "descriptor"
  BY Zenon DEF DropPhase
<1>3. 1..5 = {1, 2, 3, 4, 5}
  OBVIOUS
<1>4. ASSUME NEW p, NEW l \in 1..5, \A m \in 1..5 : DropPhase[m] = p <=> m = l
      PROVE  PhasesAfter(p) = {DropPhase[n] : n \in {m \in 1..5 : m > l}}
  BY <1>1, <1>4 DEF PhasesAfter
<1>5. \A m \in 1..5 :
        /\ DropPhase[m] = "indexes" <=> m = 1
        /\ DropPhase[m] = "sidecars" <=> m = 2
        /\ DropPhase[m] = "rows" <=> m = 3
        /\ DropPhase[m] = "mappings" <=> m = 4
        /\ DropPhase[m] = "descriptor" <=> m = 5
  BY <1>2, <1>3, Zenon
<1>6. /\ {m \in 1..5 : m > 1} = {2, 3, 4, 5} /\ {m \in 1..5 : m > 2} = {3, 4, 5}
      /\ {m \in 1..5 : m > 3} = {4, 5} /\ {m \in 1..5 : m > 4} = {5} /\ {m \in 1..5 : m > 5} = {}
  BY <1>3
<1>7. Phases = {DropPhase[n] : n \in {1, 2, 3, 4, 5}}
  BY <1>1, <1>3, Zenon DEF Phases, Range
<1>8. /\ PhasesAfter("indexes") = {DropPhase[n] : n \in {2, 3, 4, 5}}
      /\ PhasesAfter("sidecars") = {DropPhase[n] : n \in {3, 4, 5}}
      /\ PhasesAfter("rows") = {DropPhase[n] : n \in {4, 5}}
      /\ PhasesAfter("mappings") = {DropPhase[n] : n \in {5}}
      /\ PhasesAfter("descriptor") = {DropPhase[n] : n \in {}}
  BY <1>3, <1>4, <1>5, <1>6
<1> QED
  BY <1>2, <1>7, <1>8

LEMMA PhaseSteps ==
  /\ NextPhase("indexes") = "sidecars" /\ NextPhase("sidecars") = "rows"
  /\ NextPhase("rows") = "mappings" /\ NextPhase("mappings") = "descriptor"
<1>1. /\ DOMAIN DropPhase = 1..5
      /\ DropPhase[1] = "indexes" /\ DropPhase[2] = "sidecars" /\ DropPhase[3] = "rows"
      /\ DropPhase[4] = "mappings" /\ DropPhase[5] = "descriptor"
  BY DEF DropPhase
<1>2. ASSUME NEW p, NEW l \in 1..5, \A m \in 1..5 : DropPhase[m] = p <=> m = l
      PROVE  NextPhase(p) = DropPhase[l + 1]
  <2>1. (CHOOSE n \in DOMAIN DropPhase : DropPhase[n] = p) = l
    BY <1>1, <1>2, Zenon
  <2> QED
    BY <2>1, Zenon DEF NextPhase
<1>3. \A m \in 1..5 :
        /\ DropPhase[m] = "indexes" <=> m = 1
        /\ DropPhase[m] = "sidecars" <=> m = 2
        /\ DropPhase[m] = "rows" <=> m = 3
        /\ DropPhase[m] = "mappings" <=> m = 4
  <2>1. 1..5 = {1, 2, 3, 4, 5}
    OBVIOUS
  <2> QED
    BY <1>1, <2>1, Zenon
<1>4. /\ NextPhase("indexes") = DropPhase[1 + 1] /\ NextPhase("sidecars") = DropPhase[2 + 1]
      /\ NextPhase("rows") = DropPhase[3 + 1] /\ NextPhase("mappings") = DropPhase[4 + 1]
  <2>1. 1 \in 1..5 /\ 2 \in 1..5 /\ 3 \in 1..5 /\ 4 \in 1..5
    OBVIOUS
  <2> QED
    BY <1>2, <1>3, <2>1
<1>5. 1 + 1 = 2 /\ 2 + 1 = 3 /\ 3 + 1 = 4 /\ 4 + 1 = 5
  OBVIOUS
<1> QED
  BY <1>1, <1>4, <1>5, Zenon
-----------------------------------------------------------------------------
(* A tree on its own: at most one drop, and each keyspace that a phase has  *)
(* passed is empty.                                                         *)
Passed(t, c, p) == t.phase[c] \in {"none"} \cup PhasesAfter(p)

TidyAt(t, c) ==
  /\ c >= t.next => t.phase[c] = "none"
  /\ t.phase[c] # "none" => c \in DOMAIN t.seq
  /\ t.phase[c] = "none" => c \notin DOMAIN t.seq \cup DOMAIN t.count
  /\ t.index[c] = "none" => t.posts[c] = {}
  /\ Passed(t, c, "indexes") => t.index[c] = "none"
  /\ Passed(t, c, "sidecars") => t.cells[c] = {}
  /\ Passed(t, c, "rows") => DOMAIN t.rows[c] = {}
  /\ Passed(t, c, "mappings") => DOMAIN t.maps[c] = {}

Alone(t) == \A c, d \in Dropping(t) : c = d
Tidy(t)  == Alone(t) /\ \A c \in Colls : TidyAt(t, c)

(* What the working tree t may have done to collection c of the published   *)
(* tree d: nothing but the caller's writes while it is live, and a drop     *)
(* only goes forward.                                                       *)
KeptAt(d, t, wrote, c) ==
  /\ d.phase[c] = "live" => t.phase[c] = "live"
  /\ t.phase[c] = "live" /\ ~wrote =>
       /\ d.phase[c] = "live"
       /\ t.posts[c] = d.posts[c] /\ t.cells[c] = d.cells[c]
       /\ t.rows[c] = d.rows[c] /\ t.maps[c] = d.maps[c]
  /\ d.phase[c] \in Phases =>
       /\ t.phase[c] \in {d.phase[c], "none"} \cup PhasesAfter(d.phase[c])
       /\ DOMAIN t.rows[c] \subseteq DOMAIN d.rows[c]

SequenceOK(s) ==
  /\ s \in [c : 0..MaxColl, next : Nat, reserved : Nat, dirty : BOOLEAN]
  /\ s.c = 0 => s = NoSequence
  /\ s.c # 0 => s.next # 0 /\ s.reserved # 0

BackfillOK(b) ==
  /\ b = [c |-> b.c, after |-> b.after, counted |-> b.counted]
  /\ b.c \in 0..MaxColl /\ (b.c = 0 => b = NoBackfill) /\ b.counted \in Int

Tally == [base : Int, delta : Int]

Types ==
  /\ db \in Tree /\ disk \in Tree
  /\ SequenceOK(sequence) /\ BackfillOK(backfill)
  /\ blocks \in Partial(Colls, IdBlock) /\ pending \in Partial(Colls, IdBlock)
  /\ counts \in Partial(Colls, Tally)
  /\ dropping \in 0..MaxColl /\ user \in BOOLEAN /\ failed \in BOOLEAN

(* A handle that has not failed: its memory is about live collections. *)
Standing ==
  /\ disk.next <= db.next
  /\ \A c \in Colls : TidyAt(db, c)
  /\ sequence.c # 0 => db.phase[sequence.c] = "live"
  /\ backfill.c # 0 => db.phase[backfill.c] # "none"
  /\ \A c \in DOMAIN counts : db.phase[c] = "live"
  /\ \A c \in Colls : db.phase[c] \in Phases <=> c = dropping
  /\ \A c \in Colls : KeptAt(disk, db, user, c)

Shape == Types /\ Tidy(disk) /\ (~failed => Standing)
-----------------------------------------------------------------------------
(* Two trees with the same collection c. *)

SameAt(t, u, c) ==
  /\ u.phase[c] = t.phase[c] /\ u.index[c] = t.index[c] /\ u.posts[c] = t.posts[c]
  /\ u.cells[c] = t.cells[c] /\ u.rows[c] = t.rows[c] /\ u.maps[c] = t.maps[c]

SameTidy(t, u, c) ==
  /\ c >= u.next => c >= t.next
  /\ t.phase[c] # "none" => (c \in DOMAIN t.seq => c \in DOMAIN u.seq)
  /\ t.phase[c] = "none" =>
       (c \in DOMAIN u.seq \cup DOMAIN u.count => c \in DOMAIN t.seq \cup DOMAIN t.count)

LEMMA TidyCarries ==
  ASSUME NEW t, NEW u, NEW c, SameAt(t, u, c), SameTidy(t, u, c), TidyAt(t, c)
  PROVE  TidyAt(u, c)
BY Zenon DEF SameAt, SameTidy, TidyAt, Passed

LEMMA KeptCarries ==
  ASSUME NEW d, NEW t, NEW u, NEW c, NEW w, NEW v, SameAt(t, u, c), KeptAt(d, t, w, c), w => v
  PROVE  KeptAt(d, u, v, c)
BY Zenon DEF SameAt, KeptAt

LEMMA KeptRefl ==
  ASSUME NEW t, NEW u, NEW w, NEW c, SameAt(t, u, c)
  PROVE  KeptAt(t, u, w, c)
BY Zenon DEF KeptAt, SameAt
-----------------------------------------------------------------------------
(* What a flush writes. *)

(* Two trees with the same collections: only counters differ. *)
Alike(t, u) ==
  /\ u.next = t.next /\ u.phase = t.phase /\ u.index = t.index /\ u.posts = t.posts
  /\ u.cells = t.cells /\ u.rows = t.rows /\ u.maps = t.maps /\ u.counted = t.counted

(* The counters after flush_sequence: those of t but the open one's. *)
SeqFlushed(t, u) ==
  /\ DOMAIN t.seq \subseteq DOMAIN u.seq
  /\ \A c \in Colls : c # sequence.c =>
       /\ c \in DOMAIN u.seq => c \in DOMAIN t.seq
       /\ c \in DOMAIN t.seq => u.seq[c] = t.seq[c]
  /\ sequence.c # 0 =>
       IF Register /\ ~sequence.dirty THEN u.seq = t.seq
       ELSE /\ sequence.c \in DOMAIN u.seq
            /\ u.seq[sequence.c] = IF Register THEN sequence.reserved ELSE sequence.next

LEMMA SequenceFields ==
  ASSUME Types
  PROVE  /\ sequence = NoSequence <=> sequence.c = 0
         /\ sequence.c # 0 => /\ sequence.c \in Colls /\ sequence.next \in Positive
                              /\ sequence.reserved \in Positive
         /\ sequence.dirty \in BOOLEAN
<1>1. sequence \in [c : 0..MaxColl, next : Nat, reserved : Nat, dirty : BOOLEAN]
  BY Zenon DEF Types, SequenceOK
<1>2. sequence.c \in 0..MaxColl /\ sequence.next \in Nat /\ sequence.reserved \in Nat /\ sequence.dirty \in BOOLEAN
  BY <1>1, Zenon
<1>3. sequence.c # 0 => sequence.c \in Colls
  BY <1>2, CollectionsAssumption DEF Colls
<1>4. NoSequence.c = 0
  BY Zenon DEF NoSequence
<1> QED
  BY <1>2, <1>3, <1>4, Zenon DEF Types, SequenceOK, Positive

LEMMA TreeFields ==
  ASSUME NEW t \in Tree
  PROVE  /\ t.next \in 1..MaxColl + 1 /\ t.phase \in [Colls -> LifePhases]
         /\ t.seq \in Partial(Colls, Positive) /\ t.counted \in BOOLEAN
         /\ t.count \in Partial(Colls, Int) /\ t.index \in [Colls -> IndexStates]
         /\ t.posts \in [Colls -> SUBSET Ids] /\ t.cells \in [Colls -> SUBSET Ids]
         /\ t.rows \in [Colls -> Partial(Ids, Keys)] /\ t.maps \in [Colls -> Partial(Keys, Ids)]
BY Zenon DEF Tree

LEMMA SeqReplaced ==
  ASSUME NEW t \in Tree, NEW f \in Partial(Colls, Positive)
  PROVE  /\ [t EXCEPT !.seq = f] \in Tree /\ [t EXCEPT !.seq = f].seq = f
         /\ Alike(t, [t EXCEPT !.seq = f]) /\ [t EXCEPT !.seq = f].count = t.count
BY Zenon DEF Tree, Alike

LEMMA CountReplaced ==
  ASSUME NEW t \in Tree, NEW f \in Partial(Colls, Int)
  PROVE  /\ [t EXCEPT !.count = f] \in Tree /\ [t EXCEPT !.count = f].count = f
         /\ Alike(t, [t EXCEPT !.count = f]) /\ [t EXCEPT !.count = f].seq = t.seq
BY Zenon DEF Tree, Alike

LEMMA AlikeRefl == \A t : Alike(t, t)
BY Zenon DEF Alike

LEMMA SequenceWrittenIs ==
  ASSUME Types, NEW t \in Tree, NEW u, u = SequenceWritten(t)
  PROVE  u \in Tree /\ Alike(t, u) /\ u.count = t.count /\ SeqFlushed(t, u)
<1>1. CASE sequence.c = 0 \/ (Register /\ ~sequence.dirty)
  <2>1. u = t
    BY <1>1, SequenceFields, Zenon DEF SequenceWritten
  <2> QED
    BY <1>1, <2>1, AlikeRefl, Zenon DEF SeqFlushed
<1>2. CASE ~(sequence.c = 0 \/ (Register /\ ~sequence.dirty))
  <2> DEFINE n == IF Register THEN sequence.reserved ELSE sequence.next
             f == Set(t.seq, sequence.c, n)
  <2>1. u = [t EXCEPT !.seq = f]
    BY <1>2, SequenceFields, Zenon DEF SequenceWritten
  <2>2. sequence.c \in Colls /\ n \in Positive
    BY <1>2, SequenceFields, Zenon
  <2>3. t.seq \in Partial(Colls, Positive)
    BY TreeFields, Zenon
  <2> HIDE DEF n, f
  <2>4. f \in Partial(Colls, Positive)
    BY <2>2, <2>3, SetType, Zenon DEF f
  <2>5. u \in Tree /\ Alike(t, u) /\ u.count = t.count /\ u.seq = f
    BY <2>1, <2>4, SeqReplaced
  <2>6. /\ DOMAIN f = DOMAIN t.seq \cup {sequence.c} /\ f[sequence.c] = n
        /\ \A y \in DOMAIN t.seq \ {sequence.c} : f[y] = t.seq[y]
    BY Zenon DEF f, Set
  <2>7. SeqFlushed(t, u)
    <3> SUFFICES /\ DOMAIN t.seq \subseteq DOMAIN f
                 /\ \A c \in Colls : c # sequence.c =>
                      /\ c \in DOMAIN f => c \in DOMAIN t.seq
                      /\ c \in DOMAIN t.seq => f[c] = t.seq[c]
                 /\ sequence.c \in DOMAIN f /\ f[sequence.c] = n
      BY <1>2, <2>5, Zenon DEF SeqFlushed, n
    <3> QED
      BY <2>6, Zenon
  <2> QED
    BY <2>5, <2>7, Zenon
<1> QED
  BY <1>1, <1>2, Zenon

(* The counts after flush_row_counts. *)
CountFlushed(t, u) ==
  /\ DOMAIN u.count = DOMAIN t.count \cup {c \in DOMAIN counts : counts[c].delta # 0}
  /\ \A c \in DOMAIN u.count :
       u.count[c] = IF c \in DOMAIN counts /\ counts[c].delta # 0
                    THEN counts[c].base + counts[c].delta ELSE t.count[c]

LEMMA CountsWrittenIs ==
  ASSUME Types, NEW t \in Tree, NEW u, u = CountsWritten(t)
  PROVE  u \in Tree /\ Alike(t, u) /\ u.seq = t.seq /\ CountFlushed(t, u)
<1> DEFINE moved == {c \in DOMAIN counts : counts[c].delta # 0}
           f == [c \in DOMAIN t.count \cup moved |->
                   IF c \in moved THEN counts[c].base + counts[c].delta ELSE t.count[c]]
<1>1. u = [t EXCEPT !.count = f]
  BY Zenon DEF CountsWritten
<1>2. /\ DOMAIN counts \subseteq Colls
      /\ \A c \in DOMAIN counts : counts[c].base + counts[c].delta \in Int
  <2>1. DOMAIN counts \subseteq Colls /\ counts \in [DOMAIN counts -> Tally]
    BY PartialIs, Zenon DEF Types
  <2> QED
    BY <2>1 DEF Tally
<1>3. DOMAIN t.count \subseteq Colls /\ t.count \in [DOMAIN t.count -> Int]
  BY TreeFields, PartialIs, Zenon
<1>4. f \in Partial(Colls, Int)
  <2>1. DOMAIN f \subseteq Colls
    BY <1>2, <1>3, Zenon
  <2>2. \A c \in DOMAIN t.count \cup moved :
          (IF c \in moved THEN counts[c].base + counts[c].delta ELSE t.count[c]) \in Int
    BY <1>2, <1>3, Zenon
  <2>3. f \in [DOMAIN f -> Int]
    BY <2>2, Zenon
  <2> HIDE DEF f
  <2> QED
    BY <2>1, <2>3, PartialIs, Zenon
<1>5. u \in Tree /\ Alike(t, u) /\ u.seq = t.seq /\ u.count = f
  <2> HIDE DEF f
  <2> QED
    BY <1>1, <1>4, CountReplaced
<1>6. CountFlushed(t, u)
  BY <1>5, Zenon DEF CountFlushed
<1> QED
  BY <1>5, <1>6, Zenon

LEMMA FlushedIs ==
  ASSUME Types
  PROVE  /\ Flushed \in Tree /\ Alike(db, Flushed)
         /\ SeqFlushed(db, Flushed) /\ CountFlushed(db, Flushed)
<1> DEFINE u == SequenceWritten(db)
           w == CountsWritten(u)
<1>1. db \in Tree
  BY Zenon DEF Types
<1> HIDE DEF u
<1>2. u \in Tree /\ Alike(db, u) /\ u.count = db.count /\ SeqFlushed(db, u)
  BY <1>1, SequenceWrittenIs, Zenon DEF u
<1> HIDE DEF w
<1>3. w \in Tree /\ Alike(u, w) /\ w.seq = u.seq /\ CountFlushed(u, w)
  BY <1>2, CountsWrittenIs, Zenon DEF w
<1>4. Alike(db, w)
  BY <1>2, <1>3, Zenon DEF Alike
<1>5. SeqFlushed(db, w)
  BY <1>2, <1>3, Zenon DEF SeqFlushed
<1>6. CountFlushed(db, w)
  BY <1>2, <1>3, Zenon DEF CountFlushed
<1>7. Flushed = w
  BY Zenon DEF Flushed, u, w
<1> QED
  BY <1>3, <1>4, <1>5, <1>6, <1>7, Zenon

LEMMA FlushedSame ==
  ASSUME Types, Standing, NEW c \in Colls
  PROVE  SameAt(db, Flushed, c) /\ SameTidy(db, Flushed, c)
<1>1. SameAt(db, Flushed, c)
  BY FlushedIs, Zenon DEF Alike, SameAt
<1>2. c >= Flushed.next => c >= db.next
  BY FlushedIs, Zenon DEF Alike
<1>3. DOMAIN db.seq \subseteq DOMAIN Flushed.seq
  BY FlushedIs, Zenon DEF SeqFlushed
<1>4. ASSUME db.phase[c] = "none" PROVE c \in DOMAIN Flushed.seq => c \in DOMAIN db.seq
  <2>1. c # sequence.c
    <3>1. c # 0
      BY CollectionsAssumption DEF Colls
    <3> QED
      BY <1>4, <3>1, Zenon DEF Standing
  <2> QED
    BY <2>1, FlushedIs, Zenon DEF SeqFlushed
<1>5. ASSUME db.phase[c] = "none" PROVE c \in DOMAIN Flushed.count => c \in DOMAIN db.count
  <2>1. c \notin DOMAIN counts
    BY <1>5, Zenon DEF Standing
  <2> QED
    BY <2>1, FlushedIs, Zenon DEF CountFlushed
<1> QED
  BY <1>1, <1>2, <1>3, <1>4, <1>5, Zenon DEF SameTidy

LEMMA FlushedMemory ==
  ASSUME Types
  PROVE  PendingAfterFlush \in Partial(Colls, IdBlock) /\ Merged \in Partial(Colls, IdBlock)
<1>1. PendingAfterFlush \in Partial(Colls, IdBlock)
  <2>1. pending \in Partial(Colls, IdBlock)
    BY Zenon DEF Types
  <2>2. CASE sequence.c = 0 \/ ~Register
    BY <2>1, <2>2, SequenceFields, Zenon DEF PendingAfterFlush
  <2>3. CASE sequence.c # 0 /\ Register
    <3> DEFINE b == [next |-> sequence.next, reserved |-> sequence.reserved]
    <3>1. b \in IdBlock /\ sequence.c \in Colls
      BY <2>3, SequenceFields, Zenon DEF IdBlock
    <3>2. PendingAfterFlush = Set(pending, sequence.c, b)
      BY <2>3, SequenceFields, Zenon DEF PendingAfterFlush
    <3> HIDE DEF b
    <3> QED
      BY <2>1, <3>1, <3>2, SetType, Zenon
  <2> QED
    BY <2>2, <2>3, Zenon
<1>2. /\ DOMAIN PendingAfterFlush \subseteq Colls
      /\ PendingAfterFlush \in [DOMAIN PendingAfterFlush -> IdBlock]
  BY <1>1, PartialIs, Zenon
<1>3. DOMAIN blocks \subseteq Colls /\ blocks \in [DOMAIN blocks -> IdBlock]
  BY PartialIs, Zenon DEF Types
<1>4. DOMAIN Merged \subseteq Colls
  BY <1>2, <1>3, Zenon DEF Merged
<1>5. Merged \in [DOMAIN Merged -> IdBlock]
  BY <1>2, <1>3, Zenon DEF Merged
<1> QED
  BY <1>1, <1>4, <1>5, PartialIs, Zenon
-----------------------------------------------------------------------------
(* Each action keeps the shape. *)

(* A live or absent collection is in no phase of a drop. *)
LEMMA NotDropping ==
  /\ "live" \notin Phases /\ "none" \notin Phases
  /\ \A p : "live" \notin {"none"} \cup PhasesAfter(p)
<1>1. \A p : PhasesAfter(p) \subseteq Phases
  BY Zenon DEF PhasesAfter, Phases, Range
<1> QED
  BY <1>1, PhaseOrder

(* The part of Standing that is about one collection. *)
StandAt(c) ==
  /\ TidyAt(db, c) /\ KeptAt(disk, db, user, c)
  /\ db.phase[c] \in Phases <=> c = dropping

(* A collection no step touched. *)
LEMMA StandCarries ==
  ASSUME NEW c, StandAt(c), SameAt(db, db', c), SameTidy(db, db', c),
         disk' = disk, user => user', dropping' = dropping
  PROVE  StandAt(c)'
<1>1. TidyAt(db', c)
  BY TidyCarries, Zenon DEF StandAt
<1>2. KeptAt(disk, db', user', c)
  BY KeptCarries, Zenon DEF StandAt
<1> QED
  BY <1>1, <1>2, Zenon DEF StandAt, SameAt

LEMMA CreateFields ==
  ASSUME db \in Tree, CreateCollection
  PROVE  /\ db.next \in Colls /\ db'.next = db.next + 1
         /\ db'.phase = [db.phase EXCEPT ![db.next] = "live"]
         /\ db'.seq = Set(db.seq, db.next, 1) /\ db'.counted = TRUE
         /\ db'.count = Set(db.count, db.next, 0)
         /\ db'.index = db.index /\ db'.posts = db.posts /\ db'.cells = db.cells
         /\ db'.rows = db.rows /\ db'.maps = db.maps
         /\ db' \in Tree
<1> DEFINE n == db.next
<1>1. /\ n \in Colls
      /\ db' = [db EXCEPT !.next = n + 1, !.phase = [db.phase EXCEPT ![n] = "live"],
                          !.seq = Set(db.seq, n, 1), !.counted = TRUE,
                          !.count = Set(db.count, n, 0)]
  BY Zenon DEF CreateCollection
<1>2. n + 1 \in 1..MaxColl + 1
  BY <1>1, CollectionsAssumption DEF Colls
<1>3. [db.phase EXCEPT ![n] = "live"] \in [Colls -> LifePhases]
  BY TreeFields, Zenon DEF LifePhases
<1>4. Set(db.seq, n, 1) \in Partial(Colls, Positive)
  <2>1. 1 \in Positive
    BY DEF Positive
  <2> QED
    BY <1>1, <2>1, TreeFields, SetType, Zenon
<1>5. Set(db.count, n, 0) \in Partial(Colls, Int)
  <2>1. 0 \in Int
    OBVIOUS
  <2> QED
    BY <1>1, <2>1, TreeFields, SetType, Zenon
<1> HIDE DEF n
<1>6. db' \in Tree
  BY <1>1, <1>2, <1>3, <1>4, <1>5, Zenon DEF Tree
<1> QED
  BY <1>1, <1>6, Zenon DEF Tree, n

LEMMA CreateShape ==
  ASSUME Shape, CreateCollection
  PROVE  Shape'
<1>0. PICK n : n = db.next
  BY Zenon
<1>1. /\ Types /\ Tidy(disk) /\ Standing /\ ~failed /\ failed' = failed
      /\ disk' = disk /\ user' = TRUE /\ sequence' = sequence /\ blocks' = blocks
      /\ pending' = pending /\ backfill' = backfill /\ dropping' = dropping
      /\ counts' = Drop(counts, n)
  BY <1>0, Zenon DEF Shape, CreateCollection, ids
<1>2. /\ n \in Colls /\ db'.next = n + 1
      /\ db'.phase = [db.phase EXCEPT ![n] = "live"]
      /\ db'.seq = Set(db.seq, n, 1) /\ db'.count = Set(db.count, n, 0)
      /\ db'.index = db.index /\ db'.posts = db.posts /\ db'.cells = db.cells
      /\ db'.rows = db.rows /\ db'.maps = db.maps /\ db' \in Tree
  BY <1>0, <1>1, CreateFields, Zenon DEF Types
<1>3. db.phase \in [Colls -> LifePhases] /\ disk.next \in Nat /\ n \in Nat
  BY <1>0, <1>1, TreeFields, CollectionsAssumption DEF Types
<1>4. db.phase[n] = "none" /\ disk.phase[n] = "none"
  <2>1. TidyAt(db, n) /\ TidyAt(disk, n) /\ disk.next <= n
    BY <1>0, <1>1, <1>2, Zenon DEF Standing, Tidy
  <2>2. n >= db.next /\ n >= disk.next
    BY <1>0, <1>3, <2>1
  <2> QED
    BY <2>1, <2>2, Zenon DEF TidyAt
<1>5. Types'
  <2>1. Drop(counts, n) \in Partial(Colls, Tally)
    BY <1>1, DropType, Zenon DEF Types
  <2> QED
    BY <1>1, <1>2, <2>1, Zenon DEF Types
<1>6. ASSUME NEW c \in Colls, c # n PROVE StandAt(c)'
  <2>1. StandAt(c)
    BY <1>1, Zenon DEF Standing, StandAt
  <2>2. SameAt(db, db', c)
    BY <1>2, <1>3, <1>6, Zenon DEF SameAt
  <2>3. SameTidy(db, db', c)
    <3>1. c >= n + 1 => c >= n
      BY <1>3 DEF Colls
    <3>2. DOMAIN db'.seq = DOMAIN db.seq \cup {n} /\ DOMAIN db'.count = DOMAIN db.count \cup {n}
      BY <1>2, Zenon DEF Set
    <3> QED
      BY <1>0, <1>2, <1>6, <3>1, <3>2, Zenon DEF SameTidy
  <2> QED
    BY <1>1, <2>1, <2>2, <2>3, StandCarries, Zenon
<1>7. StandAt(n)'
  <2>1. db'.phase[n] = "live"
    BY <1>2, <1>3, Zenon
  <2>2. TidyAt(db, n) /\ n # dropping
    BY <1>1, <1>2, <1>4, NotDropping, Zenon DEF Standing
  <2>3. n \in DOMAIN db'.seq
    BY <1>2, Zenon DEF Set
  <2>4. ~(n >= n + 1)
    BY <1>3
  <2>5. TidyAt(db', n)
    BY <1>2, <2>1, <2>2, <2>3, <2>4, NotDropping, Zenon DEF TidyAt, Passed
  <2>6. KeptAt(disk, db', TRUE, n)
    BY <1>4, <2>1, NotDropping, Zenon DEF KeptAt
  <2> QED
    BY <1>1, <2>1, <2>2, <2>5, <2>6, NotDropping, Zenon DEF StandAt
<1>8. Standing'
  <2>1. disk'.next <= db'.next
    BY <1>0, <1>1, <1>2, <1>3 DEF Standing
  <2>2. sequence'.c # 0 => db'.phase[sequence'.c] = "live"
    BY <1>1, <1>2, <1>3, SequenceFields, Zenon DEF Standing
  <2>3. backfill'.c # 0 => db'.phase[backfill'.c] # "none"
    BY <1>1, <1>2, <1>3 DEF Standing, Types, BackfillOK, Colls
  <2>4. \A c \in DOMAIN counts' : db'.phase[c] = "live"
    <3>1. DOMAIN counts' = DOMAIN counts \ {n}
      BY <1>1, DropIs, Zenon
    <3>2. DOMAIN counts \subseteq Colls
      BY <1>1, PartialIs, Zenon DEF Types
    <3> QED
      BY <1>1, <1>2, <1>3, <3>1, <3>2, Zenon DEF Standing
  <2> QED
    BY <1>6, <1>7, <2>1, <2>2, <2>3, <2>4, Zenon DEF Standing, StandAt
<1> QED
  BY <1>1, <1>5, <1>8, Zenon DEF Shape

(* The accumulator an allocation opens, and the one it leaves. *)
OpenSeq == [c : Colls, next : Positive, reserved : Positive, dirty : BOOLEAN]

LEMMA BlockIs ==
  ASSUME Types, NEW c \in Colls, c \in DOMAIN db.seq
  PROVE  BlockOf(c) \in IdBlock
<1>1. DOMAIN pending \subseteq Colls /\ pending \in [DOMAIN pending -> IdBlock]
  BY PartialIs, Zenon DEF Types
<1>2. DOMAIN blocks \subseteq Colls /\ blocks \in [DOMAIN blocks -> IdBlock]
  BY PartialIs, Zenon DEF Types
<1>3. db.seq[c] \in Positive
  <2>1. DOMAIN db.seq \subseteq Colls /\ db.seq \in [DOMAIN db.seq -> Positive]
    BY TreeFields, PartialIs, Zenon DEF Types
  <2> QED
    BY <2>1, Zenon
<1>4. [next |-> db.seq[c], reserved |-> db.seq[c]] \in IdBlock
  BY <1>3, Zenon DEF IdBlock
<1> QED
  BY <1>1, <1>2, <1>4, Zenon DEF BlockOf

LEMMA OpenIs ==
  ASSUME Types, NEW c \in Colls, c \in DOMAIN db.seq
  PROVE  OpenSequence(c) \in OpenSeq /\ OpenSequence(c).c = c
<1>1. CASE sequence.c = c
  <2>1. OpenSequence(c) = sequence /\ c # 0
    BY <1>1, CollectionsAssumption DEF OpenSequence, Colls
  <2>2. sequence \in [c : 0..MaxColl, next : Nat, reserved : Nat, dirty : BOOLEAN]
    BY Zenon DEF Types, SequenceOK
  <2>3. sequence = [c |-> sequence.c, next |-> sequence.next, reserved |-> sequence.reserved, dirty |-> sequence.dirty]
    BY <2>2, Zenon
  <2>4. sequence.next \in Positive /\ sequence.reserved \in Positive /\ sequence.dirty \in BOOLEAN
    BY <1>1, <2>1, SequenceFields, Zenon
  <2> QED
    BY <1>1, <2>1, <2>3, <2>4 DEF OpenSeq
<1>2. CASE sequence.c # c
  <2>1. OpenSequence(c) =
          [c |-> c, next |-> BlockOf(c).next, reserved |-> BlockOf(c).reserved, dirty |-> FALSE]
    BY <1>2, Zenon DEF OpenSequence
  <2>2. BlockOf(c).next \in Positive /\ BlockOf(c).reserved \in Positive
    BY BlockIs, Zenon DEF IdBlock
  <2> QED
    BY <2>1, <2>2 DEF OpenSeq
<1> QED
  BY <1>1, <1>2, Zenon

LEMMA ReserveIs ==
  ASSUME NEW s \in OpenSeq
  PROVE  /\ Reserve(s) \in OpenSeq /\ Reserve(s).c = s.c /\ Reserve(s).next = s.next
         /\ Register => \/ Reserve(s) = s /\ s.next < s.reserved
                        \/ Reserve(s).dirty /\ Reserve(s).reserved = s.next + Block
<1>1. s.c \in Colls /\ s.next \in Positive /\ s.reserved \in Positive /\ s.dirty \in BOOLEAN
  BY Zenon DEF OpenSeq
<1>2. s.next + Block \in Positive
  BY <1>1, CollectionsAssumption DEF Positive
<1>3. CASE Register /\ s.next >= s.reserved
  <2>1. Reserve(s) = [s EXCEPT !.reserved = s.next + Block, !.dirty = TRUE]
    BY <1>3, Zenon DEF Reserve
  <2> QED
    BY <1>1, <1>2, <2>1, Zenon DEF OpenSeq
<1>4. CASE ~(Register /\ s.next >= s.reserved)
  <2>1. Reserve(s) = s
    BY <1>4, Zenon DEF Reserve
  <2> QED
    BY <1>1, <1>4, <2>1 DEF Positive
<1> QED
  BY <1>3, <1>4, Zenon

(* The tree an insert starts from: it has flushed another open accumulator. *)
Before(c) == IF sequence.c = c THEN db ELSE SequenceWritten(db)

LEMMA BeforeIs ==
  ASSUME Types, NEW c
  PROVE  /\ Before(c) \in Tree /\ Alike(db, Before(c)) /\ Before(c).count = db.count
         /\ DOMAIN db.seq \subseteq DOMAIN Before(c).seq
         /\ IF sequence.c = c THEN Before(c) = db ELSE SeqFlushed(db, Before(c))
<1>1. CASE sequence.c = c
  <2>1. Before(c) = db
    BY <1>1, Zenon DEF Before
  <2> QED
    BY <1>1, <2>1, AlikeRefl, Zenon DEF Types
<1>2. CASE sequence.c # c
  <2>1. Before(c) = SequenceWritten(db)
    BY <1>2, Zenon DEF Before
  <2>2. /\ Before(c) \in Tree /\ Alike(db, Before(c)) /\ Before(c).count = db.count
        /\ SeqFlushed(db, Before(c))
    BY <2>1, SequenceWrittenIs, Zenon DEF Types
  <2> QED
    BY <1>2, <2>2, Zenon DEF SeqFlushed
<1> QED
  BY <1>1, <1>2, Zenon

(* The tree u is t with row id of key k in collection c. *)
Inserted(t, u, c, k, id) ==
  /\ u \in Tree /\ u.next = t.next /\ u.phase = t.phase /\ u.index = t.index
  /\ u.counted = t.counted /\ u.count = t.count
  /\ u.posts = [t.posts EXCEPT ![c] = IF t.index[c] = "ready" THEN t.posts[c] \cup {id} ELSE t.posts[c]]
  /\ u.cells = [t.cells EXCEPT ![c] = t.cells[c] \cup {id}]
  /\ u.rows = [t.rows EXCEPT ![c] = Set(t.rows[c], id, k)]
  /\ u.maps = [t.maps EXCEPT ![c] = Set(t.maps[c], k, id)]

LEMMA PutFields ==
  ASSUME Types, NEW c \in Colls, NEW k \in Keys, c \in DOMAIN db.seq, PutNew(c, k)
  PROVE  LET s  == Reserve(OpenSequence(c))
         IN /\ s.next \in Ids /\ Inserted(db, db', c, k, s.next)
            /\ db'.seq = Before(c).seq
            /\ sequence' = [s EXCEPT !.next = s.next + 1]
<1> DEFINE s  == Reserve(OpenSequence(c))
           id == s.next
           t  == Before(c)
           P  == IF t.index[c] = "ready" THEN t.posts[c] \cup {id} ELSE t.posts[c]
<1>1. id \in Ids
  <2>1. OpenSequence(c).next \in Ids
    BY Zenon DEF PutNew, NextId
  <2> QED
    BY <2>1, OpenIs, ReserveIs, Zenon
<1>2. t \in Tree /\ Alike(db, t) /\ t.count = db.count
  BY BeforeIs, Zenon
<1>3. /\ db' = [t EXCEPT !.posts[c] = IF db.index[c] = "ready" THEN @ \cup {id} ELSE @,
                          !.cells[c] = @ \cup {id},
                          !.rows[c] = Set(@, id, k),
                          !.maps[c] = Set(@, k, id)]
      /\ sequence' = [s EXCEPT !.next = s.next + 1]
  BY Zenon DEF PutNew, Before
<1> HIDE DEF t, id
<1>4. db' = [t EXCEPT !.posts = [t.posts EXCEPT ![c] = P],
                      !.cells = [t.cells EXCEPT ![c] = t.cells[c] \cup {id}],
                      !.rows = [t.rows EXCEPT ![c] = Set(t.rows[c], id, k)],
                      !.maps = [t.maps EXCEPT ![c] = Set(t.maps[c], k, id)]]
  BY <1>2, <1>3, Zenon DEF Alike
<1>5. /\ t.posts \in [Colls -> SUBSET Ids] /\ t.cells \in [Colls -> SUBSET Ids]
      /\ t.rows \in [Colls -> Partial(Ids, Keys)] /\ t.maps \in [Colls -> Partial(Keys, Ids)]
  BY <1>2, TreeFields, Zenon
<1>6. P \in SUBSET Ids /\ t.cells[c] \cup {id} \in SUBSET Ids
  BY <1>1, <1>5, Zenon
<1>7. Set(t.rows[c], id, k) \in Partial(Ids, Keys) /\ Set(t.maps[c], k, id) \in Partial(Keys, Ids)
  <2>1. t.rows[c] \in Partial(Ids, Keys) /\ t.maps[c] \in Partial(Keys, Ids)
    BY <1>5, Zenon
  <2> QED
    BY <1>1, <2>1, SetType, Zenon
<1> HIDE DEF P
<1>8. /\ [t.posts EXCEPT ![c] = P] \in [Colls -> SUBSET Ids]
      /\ [t.cells EXCEPT ![c] = t.cells[c] \cup {id}] \in [Colls -> SUBSET Ids]
      /\ [t.rows EXCEPT ![c] = Set(t.rows[c], id, k)] \in [Colls -> Partial(Ids, Keys)]
      /\ [t.maps EXCEPT ![c] = Set(t.maps[c], k, id)] \in [Colls -> Partial(Keys, Ids)]
  BY <1>5, <1>6, <1>7, Zenon
<1>9. db' \in Tree
  BY <1>2, <1>4, <1>8, Zenon DEF Tree
<1>10. Inserted(t, db', c, k, id) /\ db'.seq = t.seq
  BY <1>2, <1>4, <1>9, Zenon DEF Tree, Inserted, P
<1>11. Inserted(db, db', c, k, id)
  BY <1>2, <1>10, Zenon DEF Inserted, Alike
<1> QED
  BY <1>1, <1>3, <1>10, <1>11, Zenon DEF t, id

LEMMA ReservedNext ==
  ASSUME NEW s \in OpenSeq
  PROVE  SequenceOK([s EXCEPT !.next = s.next + 1])
<1>1. /\ s.c \in Colls /\ s.next \in Nat \ {0} /\ s.reserved \in Nat \ {0} /\ s.dirty \in BOOLEAN
      /\ s = [c |-> s.c, next |-> s.next, reserved |-> s.reserved, dirty |-> s.dirty]
  BY Zenon DEF OpenSeq, Positive
<1>2. /\ s.c \in 0..MaxColl /\ s.c # 0 /\ s.next + 1 \in Nat /\ s.next + 1 # 0
  BY <1>1, CollectionsAssumption DEF Colls
<1>3. [s EXCEPT !.next = s.next + 1] =
        [c |-> s.c, next |-> s.next + 1, reserved |-> s.reserved, dirty |-> s.dirty]
  BY <1>1
<1> QED
  BY <1>1, <1>2, <1>3, Zenon DEF SequenceOK

(* touch_row_count keeps the type and opens no other collection. *)
LEMMA NoteIs ==
  ASSUME Types, NEW c \in Colls, NEW n \in Int
  PROVE  Note(c, n) \in Partial(Colls, Tally) /\ DOMAIN Note(c, n) \subseteq DOMAIN counts \cup {c}
<1>1. counts \in Partial(Colls, Tally)
  BY Zenon DEF Types
<1>2. CASE ~Counted(c)
  BY <1>1, <1>2, Zenon DEF Note
<1>3. CASE Counted(c)
  <2> DEFINE old == IF c \in DOMAIN counts THEN counts[c] ELSE [base |-> db.count[c], delta |-> 0]
             new == [old EXCEPT !.delta = old.delta + n]
  <2>1. Note(c, n) = Set(counts, c, new)
    BY <1>3, Zenon DEF Note
  <2>2. old \in Tally
    <3>1. DOMAIN counts \subseteq Colls /\ counts \in [DOMAIN counts -> Tally]
      BY <1>1, PartialIs, Zenon
    <3>2. DOMAIN db.count \subseteq Colls /\ db.count \in [DOMAIN db.count -> Int]
      BY TreeFields, PartialIs, Zenon DEF Types
    <3>3. c \notin DOMAIN counts => db.count[c] \in Int
      BY <1>3, <3>2, Zenon DEF Counted
    <3> QED
      BY <3>1, <3>3 DEF Tally
  <2> HIDE DEF old
  <2>3. new \in Tally
    BY <2>2 DEF Tally
  <2> HIDE DEF new
  <2>4. Set(counts, c, new) \in Partial(Colls, Tally)
    BY <1>1, <2>3, SetType, Zenon
  <2>5. DOMAIN Set(counts, c, new) = DOMAIN counts \cup {c}
    BY Zenon DEF Set
  <2> QED
    BY <2>1, <2>4, <2>5, Zenon
<1> QED
  BY <1>2, <1>3, Zenon

(* What is the same for every collection after a write in c. *)
LEMMA WrittenSame ==
  ASSUME Types, Standing, NEW c \in Colls, db.phase[c] = "live",
         db' \in Tree, db'.next = db.next, db'.phase = db.phase, db'.index = db.index,
         DOMAIN db.seq \subseteq DOMAIN db'.seq, db'.count = db.count,
         \A d \in Colls : d \in DOMAIN db'.seq => d \in DOMAIN db.seq \/ d = sequence.c,
         \A d \in Colls \ {c} : /\ db'.posts[d] = db.posts[d] /\ db'.cells[d] = db.cells[d]
                                 /\ db'.rows[d] = db.rows[d] /\ db'.maps[d] = db.maps[d],
         db.index[c] = "none" => db'.posts[c] = db.posts[c],
         disk' = disk, user' = TRUE, failed' = failed, dropping' = dropping,
         DOMAIN counts' \subseteq DOMAIN counts \cup {c}, backfill'.c = backfill.c,
         sequence'.c \in {c, sequence.c}
  PROVE  Standing'
<1>1. ASSUME NEW d \in Colls, d # c PROVE StandAt(d)'
  <2>1. StandAt(d)
    BY Zenon DEF Standing, StandAt
  <2>2. SameAt(db, db', d)
    BY <1>1, Zenon DEF SameAt
  <2>3. db.phase[d] = "none" => d # sequence.c
    BY <1>1, CollectionsAssumption DEF Standing, Colls
  <2>4. SameTidy(db, db', d)
    BY <2>3, Zenon DEF SameTidy
  <2> QED
    BY <2>1, <2>2, <2>4, StandCarries, Zenon
<1>2. StandAt(c)'
  <2>1. TidyAt(db, c) /\ KeptAt(disk, db, user, c) /\ (db.phase[c] \in Phases <=> c = dropping)
    BY Zenon DEF Standing
  <2>2. TidyAt(db', c)
    <3>1. \A p : ~Passed(db', c, p)
      BY NotDropping, Zenon DEF Passed
    <3>2. c \in DOMAIN db'.seq /\ ~(c >= db'.next) /\ (db'.index[c] = "none" => db'.posts[c] = {})
      BY <2>1, Zenon DEF TidyAt
    <3> QED
      BY <3>1, <3>2, Zenon DEF TidyAt
  <2>3. disk.phase[c] \notin Phases
    <3>1. disk.phase[c] \in Phases => db.phase[c] \in {disk.phase[c], "none"} \cup PhasesAfter(disk.phase[c])
      BY <2>1, Zenon DEF KeptAt
    <3> QED
      BY <3>1, NotDropping, Zenon
  <2>4. KeptAt(disk, db', TRUE, c)
    BY <2>3, Zenon DEF KeptAt
  <2> QED
    BY <2>1, <2>2, <2>4, Zenon DEF StandAt
<1>3. /\ disk'.next <= db'.next
      /\ sequence'.c # 0 => db'.phase[sequence'.c] = "live"
      /\ backfill'.c # 0 => db'.phase[backfill'.c] # "none"
      /\ \A d \in DOMAIN counts' : db'.phase[d] = "live"
  BY DEF Standing
<1> QED
  BY <1>1, <1>2, <1>3, Zenon DEF Standing, StandAt

LEMMA PutShape ==
  ASSUME Shape, NEW c \in Colls, NEW k \in Keys, PutNew(c, k)
  PROVE  Shape'
<1> DEFINE s == Reserve(OpenSequence(c))
<1>1. /\ Types /\ Tidy(disk) /\ Standing /\ ~failed /\ failed' = failed /\ db.phase[c] = "live"
      /\ disk' = disk /\ user' = TRUE /\ blocks' = blocks
      /\ pending' = (IF sequence.c = c THEN pending ELSE PendingAfterFlush)
      /\ backfill' = backfill /\ dropping' = dropping /\ counts' = Note(c, 1)
  BY Zenon DEF Shape, PutNew, Live
<1>2. c \in DOMAIN db.seq
  BY <1>1, Zenon DEF Standing, TidyAt
<1>3. /\ Inserted(db, db', c, k, s.next) /\ db'.seq = Before(c).seq
      /\ sequence' = [s EXCEPT !.next = s.next + 1]
  BY <1>1, <1>2, PutFields, Zenon
<1>4. s \in OpenSeq /\ s.c = c
  BY <1>1, <1>2, OpenIs, ReserveIs, Zenon
<1> HIDE DEF s
<1>5. SequenceOK(sequence') /\ sequence'.c = c
  <2>1. [s EXCEPT !.next = s.next + 1].c = s.c
    BY <1>4, Zenon DEF OpenSeq
  <2> QED
    BY <1>3, <1>4, <2>1, ReservedNext, Zenon
<1>6. Note(c, 1) \in Partial(Colls, Tally) /\ DOMAIN counts' \subseteq DOMAIN counts \cup {c}
  BY <1>1, NoteIs
<1>7. pending' \in Partial(Colls, IdBlock)
  BY <1>1, FlushedMemory, Zenon DEF Types
<1>8. db' \in Tree
  BY <1>3, Zenon DEF Inserted
<1>9. Types'
  BY <1>1, <1>5, <1>6, <1>7, <1>8, Zenon DEF Types
<1>10. /\ DOMAIN db.seq \subseteq DOMAIN db'.seq
       /\ \A d \in Colls : d \in DOMAIN db'.seq => d \in DOMAIN db.seq \/ d = sequence.c
  BY <1>1, <1>3, BeforeIs, Zenon DEF SeqFlushed
<1>11. /\ db'.next = db.next /\ db'.phase = db.phase /\ db'.index = db.index /\ db'.count = db.count
       /\ \A d \in Colls \ {c} : /\ db'.posts[d] = db.posts[d] /\ db'.cells[d] = db.cells[d]
                                 /\ db'.rows[d] = db.rows[d] /\ db'.maps[d] = db.maps[d]
       /\ db.index[c] = "none" => db'.posts[c] = db.posts[c]
  <2>1. /\ db.posts \in [Colls -> SUBSET Ids] /\ db.cells \in [Colls -> SUBSET Ids]
        /\ db.rows \in [Colls -> Partial(Ids, Keys)] /\ db.maps \in [Colls -> Partial(Keys, Ids)]
    BY <1>1, TreeFields, Zenon DEF Types
  <2> QED
    BY <1>3, <2>1, Zenon DEF Inserted
<1>12. sequence'.c \in {c, sequence.c} /\ backfill'.c = backfill.c
  BY <1>1, <1>5, Zenon
<1>13. Standing'
  BY <1>1, <1>6, <1>8, <1>10, <1>11, <1>12, WrittenSame, Zenon
<1> QED
  BY <1>1, <1>9, <1>13, Zenon DEF Shape

(* The tree u is t without row id of key k in collection c. *)
Removed(t, u, c, k, id) ==
  /\ u \in Tree /\ u.next = t.next /\ u.phase = t.phase /\ u.index = t.index
  /\ u.seq = t.seq /\ u.counted = t.counted /\ u.count = t.count
  /\ u.posts = [t.posts EXCEPT ![c] = IF t.index[c] = "ready" THEN t.posts[c] \ {id} ELSE t.posts[c]]
  /\ u.cells = [t.cells EXCEPT ![c] = t.cells[c] \ {id}]
  /\ u.rows = [t.rows EXCEPT ![c] = Drop(t.rows[c], id)]
  /\ u.maps = [t.maps EXCEPT ![c] = Drop(t.maps[c], k)]

LEMMA DeleteFields ==
  ASSUME db \in Tree, NEW c \in Colls, NEW k \in Keys, Delete(c, k)
  PROVE  Removed(db, db', c, k, db.maps[c][k])
<1> DEFINE id == db.maps[c][k]
           P  == IF db.index[c] = "ready" THEN db.posts[c] \ {id} ELSE db.posts[c]
<1>1. db' = [db EXCEPT !.posts[c] = IF db.index[c] = "ready" THEN @ \ {id} ELSE @,
                       !.cells[c] = @ \ {id}, !.rows[c] = Drop(@, id), !.maps[c] = Drop(@, k)]
  BY Zenon DEF Delete
<1> HIDE DEF id
<1>2. db' = [db EXCEPT !.posts = [db.posts EXCEPT ![c] = P],
                       !.cells = [db.cells EXCEPT ![c] = db.cells[c] \ {id}],
                       !.rows = [db.rows EXCEPT ![c] = Drop(db.rows[c], id)],
                       !.maps = [db.maps EXCEPT ![c] = Drop(db.maps[c], k)]]
  BY <1>1, Zenon
<1>3. /\ db.posts \in [Colls -> SUBSET Ids] /\ db.cells \in [Colls -> SUBSET Ids]
      /\ db.rows \in [Colls -> Partial(Ids, Keys)] /\ db.maps \in [Colls -> Partial(Keys, Ids)]
  BY TreeFields, Zenon
<1>4. P \in SUBSET Ids /\ db.cells[c] \ {id} \in SUBSET Ids
  BY <1>3, Zenon
<1>5. Drop(db.rows[c], id) \in Partial(Ids, Keys) /\ Drop(db.maps[c], k) \in Partial(Keys, Ids)
  <2>1. db.rows[c] \in Partial(Ids, Keys) /\ db.maps[c] \in Partial(Keys, Ids)
    BY <1>3, Zenon
  <2> QED
    BY <2>1, DropType, Zenon
<1> HIDE DEF P
<1>6. /\ [db.posts EXCEPT ![c] = P] \in [Colls -> SUBSET Ids]
      /\ [db.cells EXCEPT ![c] = db.cells[c] \ {id}] \in [Colls -> SUBSET Ids]
      /\ [db.rows EXCEPT ![c] = Drop(db.rows[c], id)] \in [Colls -> Partial(Ids, Keys)]
      /\ [db.maps EXCEPT ![c] = Drop(db.maps[c], k)] \in [Colls -> Partial(Keys, Ids)]
  BY <1>3, <1>4, <1>5, Zenon
<1>7. db' \in Tree
  BY <1>2, <1>6, Zenon DEF Tree
<1> QED
  BY <1>2, <1>7, Zenon DEF Tree, Removed, P, id

LEMMA DeleteShape ==
  ASSUME Shape, NEW c \in Colls, NEW k \in Keys, Delete(c, k)
  PROVE  Shape'
<1> DEFINE id == db.maps[c][k]
<1>1. /\ Types /\ Tidy(disk) /\ Standing /\ ~failed /\ failed' = failed /\ db.phase[c] = "live"
      /\ disk' = disk /\ user' = TRUE /\ blocks' = blocks /\ pending' = pending
      /\ sequence' = sequence /\ dropping' = dropping
      /\ backfill' = BackfillAfterRemoval(c, id) /\ counts' = Note(c, -1)
  BY Zenon DEF Shape, Delete, Live
<1>2. Removed(db, db', c, k, id)
  BY <1>1, DeleteFields, Zenon DEF Types
<1>3. BackfillOK(backfill') /\ backfill'.c = backfill.c
  <2>1. BackfillOK(backfill)
    BY <1>1, Zenon DEF Types
  <2>2. CASE backfill.c = c /\ id <= backfill.after /\ backfill.counted > 0
    <3>1. backfill' = [backfill EXCEPT !.counted = backfill.counted - 1]
      BY <1>1, <2>2, Zenon DEF BackfillAfterRemoval
    <3>2. backfill' = [c |-> backfill.c, after |-> backfill.after, counted |-> backfill.counted - 1]
      BY <2>1, <3>1, Zenon DEF BackfillOK
    <3>3. c # 0
      BY CollectionsAssumption DEF Colls
    <3> QED
      BY <2>1, <2>2, <3>2, <3>3 DEF BackfillOK
  <2>3. CASE ~(backfill.c = c /\ id <= backfill.after /\ backfill.counted > 0)
    BY <1>1, <2>1, <2>3, Zenon DEF BackfillAfterRemoval
  <2> QED
    BY <2>2, <2>3, Zenon
<1>4. Note(c, -1) \in Partial(Colls, Tally) /\ DOMAIN counts' \subseteq DOMAIN counts \cup {c}
  BY <1>1, NoteIs
<1> HIDE DEF id
<1>5. db' \in Tree
  BY <1>2, Zenon DEF Removed
<1>6. Types'
  BY <1>1, <1>3, <1>4, <1>5, Zenon DEF Types
<1>7. /\ db'.next = db.next /\ db'.phase = db.phase /\ db'.index = db.index /\ db'.count = db.count
      /\ db'.seq = db.seq
      /\ \A d \in Colls \ {c} : /\ db'.posts[d] = db.posts[d] /\ db'.cells[d] = db.cells[d]
                                /\ db'.rows[d] = db.rows[d] /\ db'.maps[d] = db.maps[d]
      /\ db.index[c] = "none" => db'.posts[c] = db.posts[c]
  <2>1. /\ db.posts \in [Colls -> SUBSET Ids] /\ db.cells \in [Colls -> SUBSET Ids]
        /\ db.rows \in [Colls -> Partial(Ids, Keys)] /\ db.maps \in [Colls -> Partial(Keys, Ids)]
    BY <1>1, TreeFields, Zenon DEF Types
  <2> QED
    BY <1>2, <2>1, Zenon DEF Removed
<1>8. Standing'
  BY <1>1, <1>3, <1>4, <1>5, <1>7, WrittenSame, Zenon
<1> QED
  BY <1>1, <1>6, <1>8, Zenon DEF Shape

LEMMA ReplaceShape ==
  ASSUME Shape, NEW c, NEW k, Replace(c, k), c \in Colls
  PROVE  Shape'
<1>1. /\ Types /\ Tidy(disk) /\ Standing /\ ~failed /\ failed' = failed /\ db' = db
      /\ disk' = disk /\ user' = TRUE /\ blocks' = blocks /\ pending' = pending
      /\ sequence' = sequence /\ dropping' = dropping /\ backfill' = backfill /\ counts' = counts
      /\ db.phase[c] = "live"
  BY Zenon DEF Shape, Replace, ids, rest, Live
<1>2. Types'
  BY <1>1, Zenon DEF Types
<1>3. ASSUME NEW d \in Colls PROVE KeptAt(disk, db, TRUE, d)
  <2>1. SameAt(db, db, d) /\ KeptAt(disk, db, user, d)
    BY <1>1, Zenon DEF SameAt, Standing
  <2> QED
    BY <2>1, KeptCarries, Zenon
<1>4. Standing'
  BY <1>1, <1>3, Zenon DEF Standing
<1> QED
  BY <1>1, <1>2, <1>4, Zenon DEF Shape

(* What the proofs use of sets of numbers, proved in CollectionsCountProofs: *)
(* a set of naturals has a least element, ids can be counted, and a step that *)
(* ends a phase has removed all it found.                                    *)
HasLeast  == \A S \in SUBSET Nat : S # {} => Min(S) \in S /\ \A y \in S : Min(S) <= y
Countable == \A S \in SUBSET Ids : Cardinality(S) \in Nat
TakesAll  == \A S \in (SUBSET Ids) \cup (SUBSET Keys), b \in 1..Batch :
                \A r \in Removals(S, b) : r.ends => r.gone = S

(* The rollback and the reopen find the published tree. *)
LEMMA FreshShape ==
  ASSUME HasLeast, Shape, Rollback \/ Reopen
  PROVE  Shape'
<1>1. /\ Types /\ Tidy(disk) /\ db' = disk /\ disk' = disk
      /\ sequence' = NoSequence /\ pending' = Nothing /\ blocks' \in {blocks, Nothing}
      /\ counts' = Nothing /\ backfill' = NoBackfill /\ dropping' = ScanDropping(disk)
      /\ user' = FALSE /\ failed' = FALSE
  BY Zenon DEF Shape, Rollback, Reopen
<1>2. SequenceOK(NoSequence) /\ BackfillOK(NoBackfill) /\ NoSequence.c = 0 /\ NoBackfill.c = 0
  BY CollectionsAssumption DEF SequenceOK, BackfillOK, NoSequence, NoBackfill
<1>3. /\ ScanDropping(disk) \in 0..MaxColl
      /\ \A c \in Colls : disk.phase[c] \in Phases <=> c = ScanDropping(disk)
  <2>1. CASE Dropping(disk) = {}
    <3>1. ScanDropping(disk) = 0
      BY <2>1, Zenon DEF ScanDropping
    <3> QED
      BY <2>1, <3>1, CollectionsAssumption DEF Dropping, Colls
  <2>2. CASE Dropping(disk) # {}
    <3>1. Dropping(disk) \subseteq Nat /\ ScanDropping(disk) = Min(Dropping(disk))
      BY <2>2, CollectionsAssumption DEF ScanDropping, Dropping, Colls
    <3>2. ScanDropping(disk) \in Dropping(disk)
      BY <2>2, <3>1, Zenon DEF HasLeast
    <3>3. \A c \in Dropping(disk) : c = ScanDropping(disk)
      BY <1>1, <3>2, Zenon DEF Tidy, Alone
    <3> QED
      BY <3>2, <3>3, CollectionsAssumption DEF Dropping, Colls
  <2> QED
    BY <2>1, <2>2, Zenon
<1>4. Types'
  BY <1>1, <1>2, <1>3, NothingIs, Zenon DEF Types
<1>5. ASSUME NEW c \in Colls PROVE KeptAt(disk, disk, FALSE, c)
  <2>1. SameAt(disk, disk, c)
    BY Zenon DEF SameAt
  <2> QED
    BY <2>1, KeptRefl, Zenon
<1>6. disk.next <= disk.next
  BY <1>1, TreeFields DEF Types
<1>7. Standing'
  BY <1>1, <1>2, <1>3, <1>5, <1>6, NothingIs, Zenon DEF Standing, Tidy
<1> QED
  BY <1>1, <1>4, <1>7, Zenon DEF Shape

LEMMA IoErrorShape ==
  ASSUME Shape, IoError
  PROVE  Shape'
<1>1. /\ Types /\ Tidy(disk) /\ failed' = TRUE /\ db' = db
      /\ disk' = disk /\ user' = user /\ blocks' = blocks /\ pending' = pending
      /\ sequence' = sequence /\ dropping' = dropping /\ backfill' = backfill /\ counts' = counts
  BY Zenon DEF Shape, IoError, ids, rest
<1> QED
  BY <1>1, Zenon DEF Shape, Types

LEMMA FlushedTidy ==
  ASSUME Types, Standing
  PROVE  Tidy(Flushed)
<1>1. ASSUME NEW c \in Colls PROVE TidyAt(Flushed, c)
  <2>1. TidyAt(db, c)
    BY Zenon DEF Standing
  <2> QED
    BY <2>1, FlushedSame, TidyCarries, Zenon
<1>2. Flushed.phase = db.phase
  BY FlushedIs, Zenon DEF Alike
<1>3. Alone(Flushed)
  BY <1>2, Zenon DEF Alone, Dropping, Standing
<1> QED
  BY <1>1, <1>3, Zenon DEF Tidy

(* A handle that has just published its tree, with nothing in memory. *)
LEMMA PublishedStanding ==
  ASSUME Types', Tidy(db'), disk' = db', sequence' = NoSequence, counts' = Nothing,
         backfill' = backfill, backfill.c # 0 => db'.phase[backfill.c] # "none",
         \A c \in Colls : db'.phase[c] \in Phases <=> c = dropping'
  PROVE  Standing'
<1>1. ASSUME NEW c \in Colls PROVE KeptAt(disk', db', user', c)
  <2>1. SameAt(db', db', c)
    BY Zenon DEF SameAt
  <2> QED
    BY <2>1, KeptRefl, Zenon
<1>2. disk'.next <= db'.next
  <2>1. db'.next \in 1..MaxColl + 1
    BY TreeFields, Zenon DEF Types
  <2> QED
    BY <2>1, CollectionsAssumption
<1>3. sequence'.c = 0 /\ DOMAIN counts' = {}
  BY NothingIs, Zenon DEF NoSequence
<1> QED
  BY <1>1, <1>2, <1>3, Zenon DEF Standing, Tidy

LEMMA EmptyMemory ==
  /\ SequenceOK(NoSequence) /\ BackfillOK(NoBackfill) /\ NoSequence.c = 0 /\ NoBackfill.c = 0
  /\ Nothing \in Partial(Colls, IdBlock) /\ Nothing \in Partial(Colls, Tally)
BY CollectionsAssumption, NothingIs DEF SequenceOK, BackfillOK, NoSequence, NoBackfill

LEMMA CommitShape ==
  ASSUME Shape, Commit
  PROVE  Shape'
<1>1. /\ Types /\ Tidy(disk) /\ Standing
      /\ db' = Flushed /\ sequence' = NoSequence /\ counts' = Nothing /\ user' = FALSE
      /\ backfill' = backfill /\ dropping' = dropping
  BY Zenon DEF Shape, Commit
<1>2. /\ disk' \in {disk, Flushed} /\ blocks' \in {blocks, Merged}
      /\ pending' \in {Nothing, PendingAfterFlush}
      /\ failed' = TRUE \/ (failed' = failed /\ disk' = Flushed)
  BY Zenon DEF Commit, Publish
<1>3. Types'
  <2>1. /\ db' \in Tree /\ disk' \in Tree
    BY <1>1, <1>2, FlushedIs, Zenon DEF Types
  <2>2. blocks' \in Partial(Colls, IdBlock) /\ pending' \in Partial(Colls, IdBlock)
    BY <1>1, <1>2, FlushedMemory, EmptyMemory, Zenon DEF Types
  <2>3. failed' \in BOOLEAN
    BY <1>1, <1>2, Zenon DEF Types
  <2> QED
    BY <1>1, <2>1, <2>2, <2>3, EmptyMemory, Zenon DEF Types
<1>4. Tidy(Flushed) /\ Flushed.phase = db.phase
  BY <1>1, FlushedTidy, FlushedIs, Zenon DEF Alike
<1>5. Tidy(disk')
  BY <1>1, <1>2, <1>4, Zenon
<1>6. ASSUME ~failed' PROVE Standing'
  <2>1. disk' = db' /\ Tidy(db')
    BY <1>1, <1>2, <1>4, <1>6, Zenon
  <2>2. backfill.c # 0 => db'.phase[backfill.c] # "none"
    BY <1>1, <1>4, Zenon DEF Standing
  <2>3. \A c \in Colls : db'.phase[c] \in Phases <=> c = dropping'
    BY <1>1, <1>4, Zenon DEF Standing
  <2> QED
    BY <1>1, <1>3, <2>1, <2>2, <2>3, PublishedStanding, Zenon
<1> QED
  BY <1>3, <1>5, <1>6, Zenon DEF Shape

LEMMA MarkedIs ==
  ASSUME Types, Standing, NEW c \in Colls, db.phase[c] = "live", dropping = 0
  PROVE  LET u == MarkDropping(Flushed, c)
         IN /\ u \in Tree /\ Tidy(u) /\ u.phase = [db.phase EXCEPT ![c] = "indexes"]
            /\ u.next = db.next /\ u.index = db.index /\ u.posts = db.posts
            /\ u.cells = db.cells /\ u.rows = db.rows /\ u.maps = db.maps
            /\ u.counted = db.counted /\ u.seq = Flushed.seq /\ u.count = Flushed.count
<1> DEFINE u == MarkDropping(Flushed, c)
<1>1. Flushed \in Tree /\ Alike(db, Flushed)
  BY FlushedIs, Zenon
<1>2. u = [Flushed EXCEPT !.phase = [db.phase EXCEPT ![c] = "indexes"]]
  BY <1>1, Zenon DEF MarkDropping, Alike
<1>3. db.phase \in [Colls -> LifePhases] /\ "indexes" \in LifePhases
  BY TreeFields, PhaseOrder, Zenon DEF Types, LifePhases
<1>4. [db.phase EXCEPT ![c] = "indexes"] \in [Colls -> LifePhases]
  BY <1>3, Zenon
<1> HIDE DEF u
<1>5. u \in Tree
  BY <1>1, <1>2, <1>4, Zenon DEF Tree
<1>6. /\ u.phase = [db.phase EXCEPT ![c] = "indexes"]
      /\ u.next = db.next /\ u.index = db.index /\ u.posts = db.posts
      /\ u.cells = db.cells /\ u.rows = db.rows /\ u.maps = db.maps
      /\ u.counted = db.counted /\ u.seq = Flushed.seq /\ u.count = Flushed.count
  BY <1>1, <1>2, Zenon DEF Tree, Alike
<1>7. Tidy(Flushed)
  BY FlushedTidy, Zenon
<1>8. ASSUME NEW d \in Colls, d # c PROVE TidyAt(u, d)
  <2>1. SameAt(Flushed, u, d)
    BY <1>1, <1>3, <1>6, <1>8, Zenon DEF SameAt, Alike
  <2>2. SameTidy(Flushed, u, d)
    BY <1>1, <1>6, Zenon DEF SameTidy, Alike
  <2> QED
    BY <1>7, <2>1, <2>2, TidyCarries, Zenon DEF Tidy
<1>9. TidyAt(u, c)
  <2>1. TidyAt(Flushed, c) /\ Flushed.phase[c] = "live"
    BY <1>1, <1>7, Zenon DEF Tidy, Alike
  <2>2. u.phase[c] = "indexes"
    BY <1>3, <1>6, Zenon
  <2>3. /\ ~Passed(u, c, "indexes") /\ ~Passed(u, c, "sidecars") /\ ~Passed(u, c, "rows")
        /\ ~Passed(u, c, "mappings")
    BY <2>2, PhaseOrder, Zenon DEF Passed
  <2> QED
    BY <1>1, <1>6, <2>1, <2>2, <2>3, Zenon DEF TidyAt, Alike
<1>10. Alone(u)
  <2>1. \A d \in Colls : db.phase[d] \notin Phases
    BY CollectionsAssumption DEF Standing, Colls
  <2>2. Dropping(u) \subseteq {c}
    BY <1>3, <1>6, <2>1, Zenon DEF Dropping
  <2> QED
    BY <2>2, Zenon DEF Alone
<1> QED
  BY <1>5, <1>6, <1>8, <1>9, <1>10, Zenon DEF Tidy, u

LEMMA BeginDropShape ==
  ASSUME Shape, NEW c \in Colls, BeginDrop(c)
  PROVE  Shape'
<1> DEFINE u == MarkDropping(Flushed, c)
<1>1. /\ Types /\ Tidy(disk) /\ Standing /\ db.phase[c] = "live" /\ dropping = 0
      /\ db' = u /\ sequence' = NoSequence /\ counts' = Nothing /\ pending' = Nothing
      /\ user' = user /\ backfill' = backfill /\ dropping' = c
  BY Zenon DEF Shape, BeginDrop, DropAdmitted, Live
<1>2. /\ disk' \in {disk, Flushed, u} /\ blocks' \in {blocks, Merged}
      /\ failed' = TRUE \/ (failed' = failed /\ disk' = u)
  BY Zenon DEF BeginDrop, Publish
<1>3. /\ u \in Tree /\ Tidy(u) /\ u.phase = [db.phase EXCEPT ![c] = "indexes"]
      /\ Flushed \in Tree /\ Tidy(Flushed)
  BY <1>1, MarkedIs, FlushedIs, FlushedTidy, Zenon
<1> HIDE DEF u
<1>4. Types'
  <2>1. /\ db' \in Tree /\ disk' \in Tree
    BY <1>1, <1>2, <1>3, Zenon DEF Types
  <2>2. blocks' \in Partial(Colls, IdBlock) /\ pending' \in Partial(Colls, IdBlock)
    BY <1>1, <1>2, FlushedMemory, EmptyMemory, Zenon DEF Types
  <2>3. failed' \in BOOLEAN
    BY <1>1, <1>2, Zenon DEF Types
  <2>4. dropping' \in 0..MaxColl
    BY <1>1, CollectionsAssumption DEF Colls
  <2> QED
    BY <1>1, <2>1, <2>2, <2>3, <2>4, EmptyMemory, Zenon DEF Types
<1>5. Tidy(disk')
  BY <1>1, <1>2, <1>3, Zenon
<1>6. ASSUME ~failed' PROVE Standing'
  <2>1. disk' = db' /\ Tidy(db')
    BY <1>1, <1>2, <1>3, <1>6, Zenon
  <2>2. db.phase \in [Colls -> LifePhases]
    BY <1>1, TreeFields, Zenon DEF Types
  <2>3. backfill.c # 0 => db'.phase[backfill.c] # "none"
    BY <1>1, <1>3, <2>2 DEF Standing
  <2>4. \A d \in Colls : db'.phase[d] \in Phases <=> d = dropping'
    <3>1. \A d \in Colls : db.phase[d] \notin Phases
      BY <1>1, CollectionsAssumption DEF Standing, Colls
    <3>2. "indexes" \in Phases
      BY PhaseOrder, Zenon
    <3> QED
      BY <1>1, <1>3, <2>2, <3>1, <3>2, Zenon
  <2> QED
    BY <1>1, <1>4, <2>1, <2>3, <2>4, PublishedStanding, Zenon
<1> QED
  BY <1>4, <1>5, <1>6, Zenon DEF Shape


(* The collection a backfill call counts. *)
Counting == IF backfill # NoBackfill THEN backfill ELSE [NoBackfill EXCEPT !.c = Min(Uncounted)]

LEMMA CountingIs ==
  ASSUME HasLeast, Types, Standing, backfill # NoBackfill \/ Uncounted # {}
  PROVE  /\ Counting.c \in Colls /\ db.phase[Counting.c] # "none" /\ Counting.counted \in Int
         /\ backfill = NoBackfill => /\ Counting = [c |-> Min(Uncounted), after |-> 0, counted |-> 0]
                                     /\ Min(Uncounted) \in Uncounted
<1>1. CASE backfill # NoBackfill
  <2>1. Counting = backfill
    BY <1>1, Zenon DEF Counting
  <2>2. backfill.c # 0 /\ backfill.c \in 0..MaxColl /\ backfill.counted \in Int
    BY <1>1, Zenon DEF Types, BackfillOK
  <2> QED
    BY <1>1, <2>1, <2>2, CollectionsAssumption DEF Standing, Colls
<1>2. CASE backfill = NoBackfill
  <2>1. Counting = [c |-> Min(Uncounted), after |-> 0, counted |-> 0]
    BY <1>2, Zenon DEF Counting, NoBackfill
  <2>2. Uncounted \subseteq Nat
    BY CollectionsAssumption DEF Uncounted, Colls
  <2>3. Min(Uncounted) \in Uncounted
    BY <1>2, <2>2, Zenon DEF HasLeast
  <2>4. Min(Uncounted) \in Colls /\ db.phase[Min(Uncounted)] = "live"
    BY <2>3, Zenon DEF Uncounted, Live
  <2> QED
    BY <1>2, <2>1, <2>3, <2>4
<1> QED
  BY <1>1, <1>2, Zenon

(* The collection that is counted, and the ids the call looks at. *)
Ahead(a)     == {id \in DOMAIN db.rows[a.c] : id > a.after}
Walked(a, b) == {id \in Ahead(a) : Cardinality({x \in Ahead(a) : x <= id}) <= b}
Total(a, b)  == a.counted + Cardinality(Walked(a, b))

LEMMA BackfillIs ==
  ASSUME NEW b, Backfill(b)
  PROVE  /\ ~failed /\ (backfill # NoBackfill \/ Uncounted # {})
         /\ disk' = disk /\ sequence' = sequence /\ blocks' = blocks /\ pending' = pending
         /\ allocated' = allocated /\ dropping' = dropping /\ user' = user
         /\ failed' = failed /\ used' = used
         /\ IF Cardinality(Walked(Counting, b)) < b
            THEN /\ db' = [db EXCEPT !.counted = TRUE,
                                     !.count = Set(db.count, Counting.c, Total(Counting, b))]
                 /\ counts' = Drop(counts, Counting.c) /\ backfill' = NoBackfill
            ELSE /\ backfill' = [c |-> Counting.c, after |-> Max(Walked(Counting, b)),
                                 counted |-> Total(Counting, b)]
                 /\ db' = db /\ counts' = counts
BY Zenon DEF Backfill, Counting, Ahead, Walked, Total, ids

LEMMA WalkedIs ==
  ASSUME Countable, db \in Tree, NEW a, a.c \in Colls, a.counted \in Int, NEW b
  PROVE  /\ Walked(a, b) \subseteq Ahead(a) /\ Ahead(a) \subseteq DOMAIN db.rows[a.c]
         /\ DOMAIN db.rows[a.c] \subseteq Ids
         /\ Cardinality(Walked(a, b)) \in Nat /\ Total(a, b) \in Int
<1>1. db.rows[a.c] \in Partial(Ids, Keys)
  BY TreeFields, Zenon
<1>2. DOMAIN db.rows[a.c] \subseteq Ids
  BY <1>1, Zenon DEF Partial
<1>3. Walked(a, b) \subseteq Ahead(a) /\ Ahead(a) \subseteq DOMAIN db.rows[a.c]
  BY Zenon DEF Walked, Ahead
<1>4. Cardinality(Walked(a, b)) \in Nat
  <2>1. Walked(a, b) \in SUBSET Ids
    BY <1>2, <1>3, Zenon
  <2> QED
    BY <2>1, Zenon DEF Countable
<1>5. Total(a, b) \in Int
  BY <1>4 DEF Total
<1> QED
  BY <1>2, <1>3, <1>4, <1>5, Zenon

LEMMA BackfillShape ==
  ASSUME HasLeast, Countable, Shape, NEW b \in 1..Batch, Backfill(b)
  PROVE  Shape'
<1>0. PICK a : a = Counting
  BY Zenon
<1>1. /\ Types /\ Tidy(disk) /\ Standing /\ ~failed
      /\ (backfill # NoBackfill \/ Uncounted # {})
      /\ disk' = disk /\ sequence' = sequence /\ blocks' = blocks /\ pending' = pending
      /\ dropping' = dropping /\ user' = user /\ failed' = failed
  BY BackfillIs, Zenon DEF Shape
<1>2. a.c \in Colls /\ db.phase[a.c] # "none" /\ a.counted \in Int
  BY <1>0, <1>1, CountingIs, Zenon
<1>3. Total(a, b) \in Int
  BY <1>1, <1>2, WalkedIs, Zenon DEF Types
<1>4. CASE Cardinality(Walked(a, b)) < b
  <2> DEFINE f == Set(db.count, a.c, Total(a, b))
  <2>1. /\ db' = [db EXCEPT !.counted = TRUE, !.count = f]
        /\ counts' = Drop(counts, a.c) /\ backfill' = NoBackfill
    BY <1>0, <1>4, BackfillIs, Zenon
  <2>2. f \in Partial(Colls, Int)
    <3>1. db.count \in Partial(Colls, Int)
      BY <1>1, TreeFields, Zenon DEF Types
    <3> QED
      BY <1>2, <1>3, <3>1, SetType, Zenon
  <2>3. DOMAIN f = DOMAIN db.count \cup {a.c}
    BY Zenon DEF Set
  <2> HIDE DEF f
  <2>4. /\ db' \in Tree /\ db'.count = f /\ db'.next = db.next /\ db'.phase = db.phase
        /\ db'.seq = db.seq /\ db'.index = db.index /\ db'.posts = db.posts
        /\ db'.cells = db.cells /\ db'.rows = db.rows /\ db'.maps = db.maps
    <3>1. db \in Tree
      BY <1>1, Zenon DEF Types
    <3> QED
      BY <2>1, <2>2, <3>1, Zenon DEF Tree
  <2>5. Types'
    <3>1. counts' \in Partial(Colls, Tally)
      BY <1>1, <2>1, DropType, Zenon DEF Types
    <3> QED
      BY <1>1, <2>1, <2>4, <3>1, EmptyMemory, Zenon DEF Types
  <2>6. ASSUME NEW d \in Colls PROVE StandAt(d)'
    <3>1. StandAt(d)
      BY <1>1, Zenon DEF Standing, StandAt
    <3>2. SameAt(db, db', d)
      BY <2>4, Zenon DEF SameAt
    <3>3. SameTidy(db, db', d)
      BY <1>2, <2>3, <2>4, Zenon DEF SameTidy
    <3> QED
      BY <1>1, <3>1, <3>2, <3>3, StandCarries, Zenon
  <2>7. Standing'
    <3>1. \A d \in DOMAIN counts' : db'.phase[d] = "live"
      <4>1. DOMAIN counts' = DOMAIN counts \ {a.c}
        BY <2>1, DropIs, Zenon
      <4> QED
        BY <1>1, <2>4, <4>1, Zenon DEF Standing
    <3>2. backfill'.c = 0
      BY <2>1, Zenon DEF NoBackfill
    <3> QED
      BY <1>1, <2>4, <2>6, <3>1, <3>2, Zenon DEF Standing, StandAt
  <2> QED
    BY <1>1, <2>5, <2>7, Zenon DEF Shape
<1>5. CASE ~(Cardinality(Walked(a, b)) < b)
  <2>1. /\ db' = db /\ counts' = counts
        /\ backfill' = [c |-> a.c, after |-> Max(Walked(a, b)), counted |-> Total(a, b)]
    BY <1>0, <1>5, BackfillIs, Zenon
  <2>2. BackfillOK(backfill') /\ backfill'.c = a.c
    <3>1. a.c # 0 /\ a.c \in 0..MaxColl
      BY <1>2, CollectionsAssumption DEF Colls
    <3>2. /\ backfill'.c = a.c /\ backfill'.after = Max(Walked(a, b))
          /\ backfill'.counted = Total(a, b)
      BY <2>1, Zenon
    <3> QED
      BY <1>3, <2>1, <3>1, <3>2, Zenon DEF BackfillOK
  <2>3. Types'
    BY <1>1, <2>1, <2>2, Zenon DEF Types
  <2>4. Standing'
    BY <1>1, <1>2, <2>1, <2>2, Zenon DEF Standing
  <2> QED
    BY <1>1, <2>3, <2>4, Zenon DEF Shape
<1> QED
  BY <1>4, <1>5, Zenon

(* What a step of a drop does to collection c of tree t, and to no other. *)
Shrunk(t, u, c) ==
  /\ u \in Tree /\ u.next = t.next /\ u.seq = t.seq /\ u.counted = t.counted
  /\ u.count = t.count
  /\ u.phase[c] \in {t.phase[c]} \cup PhasesAfter(t.phase[c])
  /\ \A d \in Colls \ {c} : SameAt(t, u, d)
  /\ DOMAIN u.rows[c] \subseteq DOMAIN t.rows[c]
  /\ TidyAt(u, c)

LEMMA ShrunkStanding ==
  ASSUME Shape, ~failed, NEW c \in Colls, db.phase[c] \in Phases, Shrunk(db, db', c),
         disk' = disk, sequence' = sequence, blocks' = blocks, pending' = pending,
         counts' = counts, backfill' = backfill, dropping' = dropping, user' = user,
         failed' = failed
  PROVE  Shape'
<1>1. Types /\ Tidy(disk) /\ Standing
  BY Zenon DEF Shape
<1>2. Types'
  BY <1>1, Zenon DEF Types, Shrunk
<1>3. db'.phase[c] \in Phases
  <2>1. PhasesAfter(db.phase[c]) \subseteq Phases
    BY Zenon DEF PhasesAfter, Phases, Range
  <2> QED
    BY <2>1, Zenon DEF Shrunk
<1>4. ASSUME NEW d \in Colls, d # c PROVE StandAt(d)'
  <2>1. StandAt(d)
    BY <1>1, Zenon DEF Standing, StandAt
  <2>2. SameAt(db, db', d)
    BY <1>4, Zenon DEF Shrunk
  <2>3. SameTidy(db, db', d)
    BY Zenon DEF SameTidy, Shrunk
  <2> QED
    BY <2>1, <2>2, <2>3, StandCarries, Zenon
<1>5. StandAt(c)'
  <2>1. StandAt(c)
    BY <1>1, Zenon DEF Standing, StandAt
  <2>2. /\ disk.phase[c] # "live" /\ db'.phase[c] # "live"
    BY <1>3, <2>1, NotDropping, Zenon DEF StandAt, KeptAt
  <2>3. ASSUME disk.phase[c] \in Phases
        PROVE  /\ db'.phase[c] \in {disk.phase[c], "none"} \cup PhasesAfter(disk.phase[c])
               /\ DOMAIN db'.rows[c] \subseteq DOMAIN disk.rows[c]
    <3>1. /\ db.phase[c] \in {disk.phase[c], "none"} \cup PhasesAfter(disk.phase[c])
          /\ DOMAIN db.rows[c] \subseteq DOMAIN disk.rows[c]
      BY <2>1, <2>3, Zenon DEF StandAt, KeptAt
    <3>2. db'.phase[c] \in {db.phase[c]} \cup PhasesAfter(db.phase[c])
      BY Zenon DEF Shrunk
    <3>3. db'.phase[c] \in {disk.phase[c], "none"} \cup PhasesAfter(disk.phase[c])
      BY <2>3, <3>1, <3>2, PhaseOrder, Zenon
    <3> QED
      BY <3>1, <3>3, Zenon DEF Shrunk
  <2>4. KeptAt(disk, db', user', c)
    BY <2>2, <2>3, Zenon DEF KeptAt
  <2> QED
    BY <1>3, <2>1, <2>4, Zenon DEF StandAt, Shrunk
<1>6. ASSUME NEW d \in Colls PROVE db'.phase[d] = db.phase[d] \/ (d = c /\ db'.phase[d] \in Phases)
  BY <1>3, Zenon DEF Shrunk, SameAt
<1>7. Standing'
  <2>1. db'.next = db.next
    BY Zenon DEF Shrunk
  <2>2. sequence'.c # 0 => db'.phase[sequence'.c] = "live"
    BY <1>1, <1>6, NotDropping, SequenceFields, Zenon DEF Standing
  <2>3. backfill'.c # 0 => db'.phase[backfill'.c] # "none"
    <3>1. backfill.c # 0 => backfill.c \in Colls
      BY <1>1, CollectionsAssumption DEF Types, BackfillOK, Colls
    <3> QED
      BY <1>1, <1>6, <3>1, NotDropping, Zenon DEF Standing
  <2>4. \A d \in DOMAIN counts' : db'.phase[d] = "live"
    <3>1. DOMAIN counts \subseteq Colls
      BY <1>1, PartialIs, Zenon DEF Types
    <3> QED
      BY <1>1, <1>6, <3>1, NotDropping, Zenon DEF Standing
  <2> QED
    BY <1>1, <1>4, <1>5, <2>1, <2>2, <2>3, <2>4, Zenon DEF Standing, StandAt
<1> QED
  BY <1>1, <1>2, <1>7, Zenon DEF Shape

LEMMA RemovalsAre ==
  ASSUME NEW S, NEW b, NEW r \in Removals(S, b)
  PROVE  r.gone \subseteq S /\ r.ends \in BOOLEAN
<1>1. CASE r \in {[gone |-> T, ends |-> PhaseEnds(S, b)] : T \in FirstEntries(S, b)}
  <2>1. PICK T \in FirstEntries(S, b) : r = [gone |-> T, ends |-> PhaseEnds(S, b)]
    BY <1>1, Zenon
  <2>2. T \subseteq S /\ PhaseEnds(S, b) \in BOOLEAN
    BY DEF FirstEntries, PhaseEnds
  <2> QED
    BY <2>1, <2>2, Zenon
<1>2. CASE r \in {[gone |-> T, ends |-> FALSE] : T \in SpentEntries(S, b)}
  <2>1. PICK T \in SpentEntries(S, b) : r = [gone |-> T, ends |-> FALSE]
    BY <1>2, Zenon
  <2>2. T \subseteq S
    BY Zenon DEF SpentEntries
  <2> QED
    BY <2>1, <2>2, Zenon
<1> QED
  BY <1>1, <1>2, Zenon DEF Removals

LEMMA PhaseMoved ==
  ASSUME NEW f \in [Colls -> LifePhases], NEW c \in Colls, NEW p \in Phases
  PROVE  /\ [f EXCEPT ![c] = p] \in [Colls -> LifePhases] /\ [f EXCEPT ![c] = p][c] = p
         /\ \A d \in Colls \ {c} : [f EXCEPT ![c] = p][d] = f[d]
<1>1. p \in LifePhases
  BY Zenon DEF LifePhases
<1> QED
  BY <1>1, Zenon

(* A step of the "indexes" phase. *)
LEMMA DropIndexesShrinks ==
  ASSUME db \in Tree, NEW c \in Colls, TidyAt(db, c), NEW b, DropIndexes(c, b)
  PROVE  Shrunk(db, db', c)
<1>1. /\ db.phase \in [Colls -> LifePhases] /\ db.index \in [Colls -> IndexStates]
      /\ db.posts \in [Colls -> SUBSET Ids] /\ db.phase[c] = "indexes"
  BY TreeFields, Zenon DEF DropIndexes
<1>2. CASE db.index[c] = "none"
  <2> DEFINE P == [db.phase EXCEPT ![c] = "sidecars"]
  <2>1. db' = [db EXCEPT !.phase = P]
    BY <1>2, PhaseSteps, Zenon DEF DropIndexes
  <2>2. /\ P \in [Colls -> LifePhases] /\ P[c] = "sidecars"
        /\ \A d \in Colls \ {c} : P[d] = db.phase[d]
    BY <1>1, PhaseMoved, PhaseOrder, Zenon
  <2> HIDE DEF P
  <2>3. /\ db' \in Tree /\ db'.phase = P /\ db'.next = db.next /\ db'.seq = db.seq
        /\ db'.counted = db.counted /\ db'.count = db.count /\ db'.index = db.index
        /\ db'.posts = db.posts /\ db'.cells = db.cells /\ db'.rows = db.rows
        /\ db'.maps = db.maps
    BY <2>1, <2>2, Zenon DEF Tree
  <2>4. ~Passed(db', c, "sidecars") /\ ~Passed(db', c, "rows") /\ ~Passed(db', c, "mappings")
    BY <2>2, <2>3, PhaseOrder, Zenon DEF Passed
  <2>5. TidyAt(db', c)
    BY <1>1, <1>2, <2>2, <2>3, <2>4, Zenon DEF TidyAt
  <2>6. "sidecars" \in PhasesAfter("indexes")
    BY PhaseOrder, Zenon
  <2> QED
    BY <1>1, <2>2, <2>3, <2>5, <2>6, Zenon DEF Shrunk, SameAt
<1>3. CASE db.index[c] # "none"
  <2>1. PICK T \in FirstEntries(db.posts[c], b) \cup SpentEntries(db.posts[c], b) :
          db' = [db EXCEPT !.posts[c] = @ \ T,
                           !.index[c] = IF T = db.posts[c] THEN "none" ELSE "dropping"]
    BY <1>3, Zenon DEF DropIndexes
  <2> DEFINE x == IF T = db.posts[c] THEN "none" ELSE "dropping"
             Q == [db.posts EXCEPT ![c] = db.posts[c] \ T]
             X == [db.index EXCEPT ![c] = x]
  <2>2. db' = [db EXCEPT !.posts = Q, !.index = X]
    BY <2>1, Zenon
  <2>3. /\ Q \in [Colls -> SUBSET Ids] /\ Q[c] = db.posts[c] \ T
        /\ \A d \in Colls \ {c} : Q[d] = db.posts[d]
    BY <1>1, Zenon
  <2>4. /\ X \in [Colls -> IndexStates] /\ (X[c] = "none" => Q[c] = {})
        /\ \A d \in Colls \ {c} : X[d] = db.index[d]
    BY <1>1, Zenon DEF IndexStates
  <2> HIDE DEF Q, X
  <2>5. /\ db' \in Tree /\ db'.phase = db.phase /\ db'.next = db.next /\ db'.seq = db.seq
        /\ db'.counted = db.counted /\ db'.count = db.count /\ db'.index = X
        /\ db'.posts = Q /\ db'.cells = db.cells /\ db'.rows = db.rows
        /\ db'.maps = db.maps
    BY <2>2, <2>3, <2>4, Zenon DEF Tree
  <2>6. /\ ~Passed(db', c, "indexes") /\ ~Passed(db', c, "sidecars") /\ ~Passed(db', c, "rows")
        /\ ~Passed(db', c, "mappings")
    BY <1>1, <2>5, PhaseOrder, Zenon DEF Passed
  <2>7. TidyAt(db', c)
    BY <1>1, <2>4, <2>5, <2>6, Zenon DEF TidyAt
  <2> QED
    BY <2>3, <2>4, <2>5, <2>7, Zenon DEF Shrunk, SameAt
<1> QED
  BY <1>2, <1>3, Zenon

(* A step of the "sidecars" phase. *)
LEMMA DropSidecarsShrinks ==
  ASSUME TakesAll, db \in Tree, NEW c \in Colls, TidyAt(db, c), NEW b \in 1..Batch,
         DropSidecars(c, b)
  PROVE  Shrunk(db, db', c)
<1>1. /\ db.phase \in [Colls -> LifePhases] /\ db.cells \in [Colls -> SUBSET Ids]
      /\ db.phase[c] = "sidecars"
  BY TreeFields, Zenon DEF DropSidecars
<1>2. PICK r \in Removals(db.cells[c], b) :
        db' = [db EXCEPT !.cells[c] = @ \ r.gone, !.phase[c] = PhaseAfter("sidecars", r.ends)]
  BY Zenon DEF DropSidecars
<1>3. r.gone \subseteq db.cells[c] /\ r.ends \in BOOLEAN /\ (r.ends => r.gone = db.cells[c])
  <2>1. db.cells[c] \in (SUBSET Ids) \cup (SUBSET Keys)
    BY <1>1, Zenon
  <2> QED
    BY <1>2, <2>1, RemovalsAre, Zenon DEF TakesAll
<1> DEFINE p == PhaseAfter("sidecars", r.ends)
           P == [db.phase EXCEPT ![c] = p]
           Q == [db.cells EXCEPT ![c] = db.cells[c] \ r.gone]
<1>4. db' = [db EXCEPT !.cells = Q, !.phase = P]
  BY <1>2, Zenon
<1>5. p = IF r.ends THEN "rows" ELSE "sidecars"
  BY PhaseSteps, Zenon DEF PhaseAfter
<1> HIDE DEF p
<1>6. /\ P \in [Colls -> LifePhases] /\ P[c] = p
      /\ \A d \in Colls \ {c} : P[d] = db.phase[d]
  <2>1. p \in Phases
    BY <1>3, <1>5, PhaseOrder, Zenon
  <2> QED
    BY <1>1, <2>1, PhaseMoved, Zenon
<1>7. /\ Q \in [Colls -> SUBSET Ids] /\ (r.ends => Q[c] = {})
      /\ \A d \in Colls \ {c} : Q[d] = db.cells[d]
  BY <1>1, <1>3, Zenon
<1> HIDE DEF P, Q
<1>8. /\ db' \in Tree /\ db'.phase = P /\ db'.next = db.next /\ db'.seq = db.seq
      /\ db'.counted = db.counted /\ db'.count = db.count /\ db'.index = db.index
      /\ db'.posts = db.posts /\ db'.cells = Q /\ db'.rows = db.rows /\ db'.maps = db.maps
  BY <1>4, <1>6, <1>7, Zenon DEF Tree
<1>9. /\ Passed(db, c, "indexes") /\ (Passed(db', c, "sidecars") => r.ends)
      /\ ~Passed(db', c, "rows") /\ ~Passed(db', c, "mappings") /\ db'.phase[c] # "none"
      /\ p \in {"sidecars"} \cup PhasesAfter("sidecars")
  BY <1>1, <1>3, <1>5, <1>6, <1>8, PhaseOrder DEF Passed
<1>10. TidyAt(db', c)
  BY <1>1, <1>7, <1>8, <1>9, Zenon DEF TidyAt, Passed
<1> QED
  BY <1>1, <1>6, <1>7, <1>8, <1>9, <1>10, Zenon DEF Shrunk, SameAt

(* A step of the "rows" phase. *)
LEMMA DropRowsShrinks ==
  ASSUME TakesAll, db \in Tree, NEW c \in Colls, TidyAt(db, c), NEW b \in 1..Batch,
         DropRows(c, b)
  PROVE  Shrunk(db, db', c)
<1>1. /\ db.phase \in [Colls -> LifePhases] /\ db.rows \in [Colls -> Partial(Ids, Keys)]
      /\ db.phase[c] = "rows"
  BY TreeFields, Zenon DEF DropRows
<1>2. PICK r \in Removals(DOMAIN db.rows[c], b) :
        db' = [db EXCEPT !.rows[c] = Restrict(@, DOMAIN @ \ r.gone),
                         !.phase[c] = PhaseAfter("rows", r.ends)]
  BY Zenon DEF DropRows
<1> DEFINE D == DOMAIN db.rows[c]
           f == Restrict(db.rows[c], D \ r.gone)
           p == PhaseAfter("rows", r.ends)
           P == [db.phase EXCEPT ![c] = p]
           Q == [db.rows EXCEPT ![c] = f]
<1>3. r.gone \subseteq D /\ r.ends \in BOOLEAN /\ (r.ends => r.gone = D)
  <2>1. db.rows[c] \in Partial(Ids, Keys)
    BY <1>1, Zenon
  <2>2. D \in (SUBSET Ids) \cup (SUBSET Keys)
    BY <2>1, Zenon DEF Partial
  <2> QED
    BY <1>2, <2>2, RemovalsAre, Zenon DEF TakesAll
<1>4. db' = [db EXCEPT !.rows = Q, !.phase = P]
  BY <1>2, Zenon
<1>5. p = IF r.ends THEN "mappings" ELSE "rows"
  BY PhaseSteps, Zenon DEF PhaseAfter
<1>6. f \in Partial(Ids, Keys) /\ DOMAIN f = D \ r.gone
  <2>1. db.rows[c] \in Partial(Ids, Keys)
    BY <1>1, Zenon
  <2>2. D \ r.gone \subseteq DOMAIN db.rows[c]
    BY Zenon
  <2> QED
    BY <2>1, <2>2, RestrictType, RestrictIs, Zenon
<1> HIDE DEF p, f
<1>7. /\ P \in [Colls -> LifePhases] /\ P[c] = p
      /\ \A d \in Colls \ {c} : P[d] = db.phase[d]
  <2>1. p \in Phases
    BY <1>3, <1>5, PhaseOrder, Zenon
  <2> QED
    BY <1>1, <2>1, PhaseMoved, Zenon
<1>8. /\ Q \in [Colls -> Partial(Ids, Keys)] /\ (r.ends => DOMAIN Q[c] = {})
      /\ DOMAIN Q[c] \subseteq DOMAIN db.rows[c]
      /\ \A d \in Colls \ {c} : Q[d] = db.rows[d]
  BY <1>1, <1>3, <1>6, Zenon
<1> HIDE DEF P, Q
<1>9. /\ db' \in Tree /\ db'.phase = P /\ db'.next = db.next /\ db'.seq = db.seq
      /\ db'.counted = db.counted /\ db'.count = db.count /\ db'.index = db.index
      /\ db'.posts = db.posts /\ db'.cells = db.cells /\ db'.rows = Q /\ db'.maps = db.maps
  BY <1>4, <1>7, <1>8, Zenon DEF Tree
<1>10. /\ Passed(db, c, "indexes") /\ Passed(db, c, "sidecars")
       /\ (Passed(db', c, "rows") => r.ends) /\ ~Passed(db', c, "mappings")
       /\ db'.phase[c] # "none" /\ p \in {"rows"} \cup PhasesAfter("rows")
  BY <1>1, <1>3, <1>5, <1>7, <1>9, PhaseOrder, Zenon DEF Passed
<1>11. TidyAt(db', c)
  BY <1>1, <1>8, <1>9, <1>10, Zenon DEF TidyAt, Passed
<1> QED
  BY <1>1, <1>7, <1>8, <1>9, <1>10, <1>11, Zenon DEF Shrunk, SameAt

(* A step of the "mappings" phase. *)
LEMMA DropMappingsShrinks ==
  ASSUME TakesAll, db \in Tree, NEW c \in Colls, TidyAt(db, c), NEW b \in 1..Batch,
         DropMappings(c, b)
  PROVE  Shrunk(db, db', c)
<1>1. /\ db.phase \in [Colls -> LifePhases] /\ db.maps \in [Colls -> Partial(Keys, Ids)]
      /\ db.phase[c] = "mappings"
  BY TreeFields, Zenon DEF DropMappings
<1>2. PICK r \in Removals(DOMAIN db.maps[c], b) :
        db' = [db EXCEPT !.maps[c] = Restrict(@, DOMAIN @ \ r.gone),
                         !.phase[c] = PhaseAfter("mappings", r.ends)]
  BY Zenon DEF DropMappings
<1> DEFINE D == DOMAIN db.maps[c]
           f == Restrict(db.maps[c], D \ r.gone)
           p == PhaseAfter("mappings", r.ends)
           P == [db.phase EXCEPT ![c] = p]
           Q == [db.maps EXCEPT ![c] = f]
<1>3. r.gone \subseteq D /\ r.ends \in BOOLEAN /\ (r.ends => r.gone = D)
  <2>1. db.maps[c] \in Partial(Keys, Ids)
    BY <1>1, Zenon
  <2>2. D \in (SUBSET Ids) \cup (SUBSET Keys)
    <3>1. D \subseteq Keys
      BY <2>1, PartialIs, Zenon
    <3>2. D \in SUBSET Keys
      BY <3>1, Zenon
    <3> QED
      BY <3>2, Zenon
  <2> QED
    BY <1>2, <2>2, RemovalsAre, Zenon DEF TakesAll
<1>4. db' = [db EXCEPT !.maps = Q, !.phase = P]
  BY <1>2, Zenon
<1>5. p = IF r.ends THEN "descriptor" ELSE "mappings"
  BY PhaseSteps, Zenon DEF PhaseAfter
<1>6. f \in Partial(Keys, Ids) /\ DOMAIN f = D \ r.gone
  <2>1. db.maps[c] \in Partial(Keys, Ids)
    BY <1>1, Zenon
  <2>2. D \ r.gone \subseteq DOMAIN db.maps[c]
    BY Zenon
  <2> QED
    BY <2>1, <2>2, RestrictType, RestrictIs, Zenon
<1> HIDE DEF p, f
<1>7. /\ P \in [Colls -> LifePhases] /\ P[c] = p
      /\ \A d \in Colls \ {c} : P[d] = db.phase[d]
  <2>1. p \in Phases
    BY <1>3, <1>5, PhaseOrder, Zenon
  <2> QED
    BY <1>1, <2>1, PhaseMoved, Zenon
<1>8. /\ Q \in [Colls -> Partial(Keys, Ids)] /\ (r.ends => DOMAIN Q[c] = {})
      /\ DOMAIN Q[c] \subseteq DOMAIN db.maps[c]
      /\ \A d \in Colls \ {c} : Q[d] = db.maps[d]
  BY <1>1, <1>3, <1>6, Zenon
<1> HIDE DEF P, Q
<1>9. /\ db' \in Tree /\ db'.phase = P /\ db'.next = db.next /\ db'.seq = db.seq
      /\ db'.counted = db.counted /\ db'.count = db.count /\ db'.index = db.index
      /\ db'.posts = db.posts /\ db'.cells = db.cells /\ db'.rows = db.rows /\ db'.maps = Q
  BY <1>4, <1>7, <1>8, Zenon DEF Tree
<1>10. /\ Passed(db, c, "indexes") /\ Passed(db, c, "sidecars") /\ Passed(db, c, "rows")
       /\ (Passed(db', c, "mappings") => r.ends)
       /\ db'.phase[c] # "none" /\ p \in {"mappings"} \cup PhasesAfter("mappings")
  BY <1>1, <1>3, <1>5, <1>7, <1>9, PhaseOrder, Zenon DEF Passed
<1>11. TidyAt(db', c)
  BY <1>1, <1>8, <1>9, <1>10, Zenon DEF TidyAt, Passed
<1> QED
  BY <1>1, <1>7, <1>8, <1>9, <1>10, <1>11, Zenon DEF Shrunk, SameAt

LEMMA DropStepShrinks ==
  ASSUME TakesAll, Shape, NEW c \in Colls, NEW b \in 1..Batch, DropStep(c, b)
  PROVE  Shrunk(db, db', c) /\ db.phase[c] \in Phases /\ db'.phase[c] \in Phases
<1>1. db \in Tree /\ TidyAt(db, c)
  BY Zenon DEF Shape, Types, Standing, DropStep
<1>2. ASSUME DropIndexes(c, b) PROVE Shrunk(db, db', c) /\ db.phase[c] \in Phases
  <2>1. db.phase[c] \in Phases
    BY <1>2, PhaseOrder, Zenon DEF DropIndexes
  <2>2. Shrunk(db, db', c)
    BY <1>1, <1>2, DropIndexesShrinks, Zenon
  <2> QED
    BY <2>1, <2>2, Zenon
<1>3. ASSUME DropSidecars(c, b) PROVE Shrunk(db, db', c) /\ db.phase[c] \in Phases
  <2>1. db.phase[c] \in Phases
    BY <1>3, PhaseOrder, Zenon DEF DropSidecars
  <2>2. Shrunk(db, db', c)
    BY <1>1, <1>3, DropSidecarsShrinks, Zenon
  <2> QED
    BY <2>1, <2>2, Zenon
<1>4. ASSUME DropRows(c, b) PROVE Shrunk(db, db', c) /\ db.phase[c] \in Phases
  <2>1. db.phase[c] \in Phases
    BY <1>4, PhaseOrder, Zenon DEF DropRows
  <2>2. Shrunk(db, db', c)
    BY <1>1, <1>4, DropRowsShrinks, Zenon
  <2> QED
    BY <2>1, <2>2, Zenon
<1>5. ASSUME DropMappings(c, b) PROVE Shrunk(db, db', c) /\ db.phase[c] \in Phases
  <2>1. db.phase[c] \in Phases
    BY <1>5, PhaseOrder, Zenon DEF DropMappings
  <2>2. Shrunk(db, db', c)
    BY <1>1, <1>5, DropMappingsShrinks, Zenon
  <2> QED
    BY <2>1, <2>2, Zenon
<1>6. Shrunk(db, db', c) /\ db.phase[c] \in Phases
  BY <1>2, <1>3, <1>4, <1>5, Zenon DEF DropStep
<1>7. PhasesAfter(db.phase[c]) \subseteq Phases
  BY Zenon DEF PhasesAfter, Phases, Range
<1> QED
  BY <1>6, <1>7, Zenon DEF Shrunk

LEMMA DropStepShape ==
  ASSUME TakesAll, Shape, NEW c \in Colls, NEW b \in 1..Batch, DropStep(c, b)
  PROVE  Shape'
<1>1. /\ ~failed /\ disk' = disk /\ sequence' = sequence /\ blocks' = blocks
      /\ pending' = pending /\ counts' = counts /\ backfill' = backfill
      /\ dropping' = dropping /\ user' = user /\ failed' = failed
  BY Zenon DEF DropStep, rest
<1> QED
  BY <1>1, DropStepShrinks, ShrunkStanding, Zenon

(* The last step: the descriptor goes when the keyspaces are empty. *)
LEMMA DescriptorFields ==
  ASSUME db \in Tree, NEW c \in Colls, DropDescriptor(c), KeyspacesEmpty(db, c)
  PROVE  /\ db' \in Tree /\ db'.next = db.next /\ db'.counted = db.counted
         /\ db'.index = db.index /\ db'.posts = db.posts /\ db'.cells = db.cells
         /\ db'.rows = db.rows /\ db'.maps = db.maps
         /\ db'.phase[c] = "none" /\ \A d \in Colls \ {c} : db'.phase[d] = db.phase[d]
         /\ db'.seq = Drop(db.seq, c) /\ db'.count = Drop(db.count, c)
<1> DEFINE P == [db.phase EXCEPT ![c] = "none"]
<1>1. db' = [db EXCEPT !.phase = P, !.seq = Drop(db.seq, c), !.count = Drop(db.count, c)]
  BY Zenon DEF DropDescriptor
<1>2. /\ db.phase \in [Colls -> LifePhases] /\ db.seq \in Partial(Colls, Positive)
      /\ db.count \in Partial(Colls, Int)
  BY TreeFields, Zenon
<1>3. /\ P \in [Colls -> LifePhases] /\ P[c] = "none"
      /\ \A d \in Colls \ {c} : P[d] = db.phase[d]
  <2>1. "none" \in LifePhases
    BY Zenon DEF LifePhases
  <2> QED
    BY <1>2, <2>1, Zenon
<1>4. Drop(db.seq, c) \in Partial(Colls, Positive) /\ Drop(db.count, c) \in Partial(Colls, Int)
  BY <1>2, DropType, Zenon
<1> HIDE DEF P
<1>5. db' \in Tree
  BY <1>1, <1>3, <1>4, Zenon DEF Tree
<1> QED
  BY <1>1, <1>3, <1>5, Zenon DEF Tree

LEMMA DropDescriptorShape ==
  ASSUME Shape, NEW c \in Colls, DropDescriptor(c)
  PROVE  Shape'
<1>1. /\ Types /\ Tidy(disk) /\ Standing /\ ~failed /\ disk' = disk /\ user' = user
      /\ db.phase[c] = "descriptor"
  BY Zenon DEF Shape, DropDescriptor
<1>2. CASE ~KeyspacesEmpty(db, c)
  <2>1. /\ failed' = TRUE /\ db' = db /\ sequence' = sequence /\ blocks' = blocks
        /\ pending' = pending /\ counts' = counts /\ backfill' = backfill
        /\ dropping' = dropping
    BY <1>2, Zenon DEF DropDescriptor, ids, rest
  <2> QED
    BY <1>1, <2>1, Zenon DEF Shape, Types
<1>3. CASE KeyspacesEmpty(db, c)
  <2>1. /\ sequence' = (IF sequence.c = c THEN NoSequence ELSE sequence)
        /\ blocks' = Drop(blocks, c) /\ pending' = Drop(pending, c)
        /\ counts' = Drop(counts, c)
        /\ backfill' = (IF backfill.c = c THEN NoBackfill ELSE backfill)
        /\ dropping' = 0 /\ failed' = failed
    BY <1>3, Zenon DEF DropDescriptor
  <2>2. /\ db' \in Tree /\ db'.next = db.next
        /\ db'.index = db.index /\ db'.posts = db.posts /\ db'.cells = db.cells
        /\ db'.rows = db.rows /\ db'.maps = db.maps
        /\ db'.phase[c] = "none" /\ \A d \in Colls \ {c} : db'.phase[d] = db.phase[d]
        /\ DOMAIN db'.seq = DOMAIN db.seq \ {c} /\ DOMAIN db'.count = DOMAIN db.count \ {c}
    <3>1. db \in Tree
      BY <1>1, Zenon DEF Types
    <3> QED
      BY <1>3, <3>1, DescriptorFields, DropIs, Zenon
  <2>3. Types'
    <3>1. SequenceOK(sequence') /\ BackfillOK(backfill')
      BY <1>1, <2>1, EmptyMemory, Zenon DEF Types
    <3>2. /\ blocks' \in Partial(Colls, IdBlock) /\ pending' \in Partial(Colls, IdBlock)
          /\ counts' \in Partial(Colls, Tally)
      BY <1>1, <2>1, DropType, Zenon DEF Types
    <3>3. dropping' \in 0..MaxColl
      BY <2>1, CollectionsAssumption
    <3> QED
      BY <1>1, <2>1, <2>2, <3>1, <3>2, <3>3, Zenon DEF Types
  <2>4. c = dropping /\ \A d \in Colls \ {c} : db.phase[d] \notin Phases
    <3>1. db.phase[c] \in Phases
      BY <1>1, PhaseOrder, Zenon
    <3> QED
      BY <1>1, <3>1, Zenon DEF Standing
  <2>5. ASSUME NEW d \in Colls, d # c
        PROVE  TidyAt(db', d) /\ KeptAt(disk', db', user', d) /\ db'.phase[d] \notin Phases
    <3>1. TidyAt(db, d) /\ KeptAt(disk, db, user, d)
      BY <1>1, Zenon DEF Standing
    <3>2. SameAt(db, db', d)
      BY <2>2, <2>5, Zenon DEF SameAt
    <3>3. SameTidy(db, db', d)
      BY <2>2, <2>5, Zenon DEF SameTidy
    <3> QED
      <4>1. TidyAt(db', d)
        BY <3>1, <3>2, <3>3, TidyCarries, Zenon
      <4>2. KeptAt(disk', db', user', d)
        <5>1. KeptAt(disk, db', user, d)
          BY <3>1, <3>2, KeptCarries
        <5> QED
          BY <1>1, <5>1, Zenon
      <4> QED
        BY <2>2, <2>4, <2>5, <4>1, <4>2, Zenon
  <2>6. TidyAt(db', c)
    <3>1. /\ db.index[c] = "none" /\ db.posts[c] = {} /\ db.cells[c] = {}
          /\ DOMAIN db.rows[c] = {} /\ DOMAIN db.maps[c] = {}
      BY <1>3, Zenon DEF KeyspacesEmpty
    <3> QED
      BY <2>2, <3>1, Zenon DEF TidyAt
  <2>7. KeptAt(disk', db', user', c)
    <3>1. KeptAt(disk, db, user, c)
      BY <1>1, Zenon DEF Standing
    <3>2. DOMAIN db'.rows[c] = {}
      BY <1>3, <2>2, Zenon DEF KeyspacesEmpty
    <3>3. disk.phase[c] # "live"
      BY <1>1, <3>1 DEF KeptAt
    <3> QED
      BY <1>1, <2>2, <3>2, <3>3, Zenon DEF KeptAt
  <2>8. Standing'
    <3>1. sequence'.c # 0 => db'.phase[sequence'.c] = "live"
      BY <1>1, <2>1, <2>2, SequenceFields, Zenon DEF Standing, NoSequence
    <3>2. backfill'.c # 0 => db'.phase[backfill'.c] # "none"
      <4>1. backfill.c # 0 => backfill.c \in Colls
        BY <1>1, CollectionsAssumption DEF Types, BackfillOK, Colls
      <4> QED
        BY <1>1, <2>1, <2>2, <4>1, Zenon DEF Standing, NoBackfill
    <3>3. \A d \in DOMAIN counts' : db'.phase[d] = "live"
      <4>1. DOMAIN counts \subseteq Colls /\ DOMAIN counts' = DOMAIN counts \ {c}
        BY <1>1, <2>1, PartialIs, DropIs, Zenon DEF Types
      <4> QED
        BY <1>1, <2>2, <4>1, Zenon DEF Standing
    <3>4. \A d \in Colls : db'.phase[d] \in Phases <=> d = dropping'
      BY <2>1, <2>2, <2>5, NotDropping DEF Colls
    <3> QED
      BY <1>1, <2>2, <2>5, <2>6, <2>7, <3>1, <3>2, <3>3, <3>4, Zenon DEF Standing
  <2> QED
    BY <1>1, <2>3, <2>8, Zenon DEF Shape
<1> QED
  BY <1>2, <1>3, Zenon

LEMMA InitShape ==
  ASSUME Init
  PROVE  Shape
<1>1. PICK n \in 0..MaxColl, indexed \in BOOLEAN : db = OldFile(n, indexed)
  BY Zenon DEF Init
<1>2. /\ db.next = n + 1 /\ db.counted = FALSE /\ db.count = Nothing
      /\ db.seq = [c \in 1..n |-> 1]
      /\ db.phase = [c \in Colls |-> IF c <= n THEN "live" ELSE "none"]
      /\ db.index = [c \in Colls |-> IF c <= n /\ indexed THEN "ready" ELSE "none"]
      /\ db.posts = [c \in Colls |-> {}] /\ db.cells = [c \in Colls |-> {}]
      /\ db.rows = [c \in Colls |-> Nothing] /\ db.maps = [c \in Colls |-> Nothing]
  BY <1>1, Zenon DEF OldFile
<1>3. db \in Tree
  <2>1. n + 1 \in 1..MaxColl + 1
    BY CollectionsAssumption
  <2>2. [c \in Colls |-> IF c <= n THEN "live" ELSE "none"] \in [Colls -> LifePhases]
    BY Zenon DEF LifePhases
  <2>3. [c \in 1..n |-> 1] \in Partial(Colls, Positive)
    <3>1. DOMAIN [c \in 1..n |-> 1] = 1..n /\ 1..n \subseteq Colls
      BY CollectionsAssumption DEF Colls
    <3>2. [c \in 1..n |-> 1] \in [1..n -> Positive]
      BY DEF Positive
    <3> QED
      BY <3>1, <3>2, PartialIs, Zenon
  <2>4. [c \in Colls |-> IF c <= n /\ indexed THEN "ready" ELSE "none"] \in [Colls -> IndexStates]
    BY Zenon DEF IndexStates
  <2>5. /\ [c \in Colls |-> {}] \in [Colls -> SUBSET Ids]
        /\ [c \in Colls |-> Nothing] \in [Colls -> Partial(Ids, Keys)]
        /\ [c \in Colls |-> Nothing] \in [Colls -> Partial(Keys, Ids)]
        /\ Nothing \in Partial(Colls, Int) /\ FALSE \in BOOLEAN
    BY NothingIs, Zenon
  <2> QED
    BY <1>1, <2>1, <2>2, <2>3, <2>4, <2>5, Zenon DEF OldFile, Tree
<1>4. /\ disk = db /\ sequence = NoSequence /\ blocks = Nothing /\ pending = Nothing
      /\ counts = Nothing /\ backfill = NoBackfill /\ dropping = 0 /\ user = FALSE
      /\ failed = FALSE
  BY Zenon DEF Init
<1>5. Types
  <2>1. 0 \in 0..MaxColl
    BY CollectionsAssumption
  <2> QED
    BY <1>3, <1>4, <2>1, EmptyMemory, NothingIs, Zenon DEF Types
<1>6. ASSUME NEW c \in Colls
      PROVE  /\ TidyAt(db, c) /\ db.phase[c] \notin Phases /\ c # 0
  <2>1. /\ db.posts[c] = {} /\ db.cells[c] = {} /\ db.rows[c] = Nothing /\ db.maps[c] = Nothing
        /\ DOMAIN db.count = {} /\ DOMAIN db.seq = 1..n
        /\ db.phase[c] = (IF c <= n THEN "live" ELSE "none")
        /\ db.index[c] = (IF c <= n /\ indexed THEN "ready" ELSE "none")
    BY <1>2, NothingIs, Zenon
  <2>2. /\ c <= n => c \in 1..n /\ ~(c >= n + 1)
        /\ c \in 1..n => c <= n /\ c # 0
    BY DEF Colls
  <2>3. \A p : Passed(db, c, p) => db.index[c] = "none"
    BY <2>1, NotDropping, Zenon DEF Passed
  <2> QED
    BY <1>2, <2>1, <2>2, <2>3, NothingIs, NotDropping DEF TidyAt, Colls
<1>7. Tidy(disk)
  <2>1. Dropping(db) = {}
    BY <1>6, Zenon DEF Dropping
  <2> QED
    BY <1>4, <1>6, <2>1, Zenon DEF Tidy, Alone
<1>8. Standing
  <2>1. \A c \in Colls : KeptAt(disk, db, user, c)
    BY <1>4, KeptRefl, Zenon DEF SameAt
  <2>2. DOMAIN counts = {} /\ sequence.c = 0 /\ backfill.c = 0
    BY <1>4, NothingIs, Zenon DEF NoSequence, NoBackfill
  <2>3. disk.next <= db.next
    BY <1>2, <1>4
  <2> QED
    BY <1>4, <1>6, <2>1, <2>2, <2>3, Zenon DEF Standing
<1> QED
  BY <1>5, <1>7, <1>8, Zenon DEF Shape

(* Every step keeps the shape. *)
LEMMA ShapeStep ==
  ASSUME HasLeast, Countable, TakesAll, Shape, [Next]_vars
  PROVE  Shape'
<1>1. CASE CreateCollection
  BY <1>1, CreateShape, Zenon
<1>2. CASE \E c \in Colls, k \in Keys : PutNew(c, k) \/ Replace(c, k) \/ Delete(c, k)
  BY <1>2, PutShape, ReplaceShape, DeleteShape, Zenon
<1>3. CASE Commit \/ IoError \/ Rollback \/ Reopen
  BY <1>3, CommitShape, IoErrorShape, FreshShape, Zenon
<1>4. CASE \E b \in 1..Batch : Backfill(b)
  BY <1>4, BackfillShape, Zenon
<1>5. CASE \E c \in Colls : BeginDrop(c) \/ DropDescriptor(c)
  BY <1>5, BeginDropShape, DropDescriptorShape, Zenon
<1>6. CASE \E c \in Colls, b \in 1..Batch : DropStep(c, b)
  BY <1>6, DropStepShape, Zenon
<1>7. CASE UNCHANGED vars
  BY <1>7, Zenon DEF vars, ids, rest, Shape, Types, Standing
<1> QED
  BY <1>1, <1>2, <1>3, <1>4, <1>5, <1>6, <1>7, Zenon DEF Next
-----------------------------------------------------------------------------
(* Only a commit and the start of a drop publish. *)

Frozen(d, u) ==
  \A c \in Colls :
    /\ d.phase[c] = "live" /\ u.phase[c] # "live" =>
         /\ u.phase[c] = "indexes"
         /\ u.posts[c] = d.posts[c] /\ u.cells[c] = d.cells[c]
         /\ u.rows[c] = d.rows[c] /\ u.maps[c] = d.maps[c]
    /\ d.phase[c] \in Phases =>
         /\ u.phase[c] \in {d.phase[c], "none"} \cup PhasesAfter(d.phase[c])
         /\ DOMAIN u.rows[c] \subseteq DOMAIN d.rows[c]

LEMMA Publishes ==
  ASSUME [Next]_vars
  PROVE  \/ disk' = disk
         \/ ~failed /\ disk' = Flushed
         \/ \E c \in Colls : DropAdmitted(c) /\ disk' = MarkDropping(Flushed, c)
<1>1. CASE CreateCollection
  BY <1>1, Zenon DEF CreateCollection
<1>2. ASSUME NEW c \in Colls, NEW k \in Keys, PutNew(c, k) \/ Replace(c, k) \/ Delete(c, k)
      PROVE  disk' = disk
  BY <1>2, Zenon DEF PutNew, Replace, Delete
<1>3. CASE Commit
  BY <1>3, Zenon DEF Commit, Publish
<1>4. CASE IoError \/ Rollback \/ Reopen
  BY <1>4, Zenon DEF IoError, Rollback, Reopen
<1>5. ASSUME NEW b, Backfill(b) PROVE disk' = disk
  BY <1>5, BackfillIs, Zenon
<1>6. ASSUME NEW c \in Colls, BeginDrop(c)
      PROVE  /\ DropAdmitted(c) /\ ~failed
             /\ disk' \in {disk, Flushed, MarkDropping(Flushed, c)}
  BY <1>6, Zenon DEF BeginDrop, Publish, DropAdmitted
<1>7. ASSUME NEW c \in Colls, DropDescriptor(c) PROVE disk' = disk
  BY <1>7, Zenon DEF DropDescriptor
<1>8. ASSUME NEW c \in Colls, NEW b, DropStep(c, b) PROVE disk' = disk
  BY <1>8, Zenon DEF DropStep
<1>9. CASE UNCHANGED vars
  BY <1>9, Zenon DEF vars
<1> QED
  BY <1>1, <1>2, <1>3, <1>4, <1>5, <1>6, <1>7, <1>8, <1>9, Zenon DEF Next

LEMMA FreezesStep ==
  ASSUME Shape, [Next]_vars
  PROVE  Frozen(disk, disk')
<1>1. CASE disk' = disk
  BY <1>1, Zenon DEF Frozen
<1>2. CASE ~failed /\ disk' = Flushed
  <2>1. Types /\ Standing
    BY <1>2, Zenon DEF Shape
  <2>2. Alike(db, disk')
    BY <1>2, <2>1, FlushedIs, Zenon
  <2> QED
    BY <2>1, <2>2, Zenon DEF Standing, KeptAt, Alike, Frozen
<1>3. ASSUME NEW c \in Colls, DropAdmitted(c), disk' = MarkDropping(Flushed, c)
      PROVE  Frozen(disk, disk')
  <2>1. Types /\ Standing /\ db.phase[c] = "live" /\ ~user
    BY <1>3, Zenon DEF Shape, DropAdmitted, Live
  <2>2. Flushed \in Tree /\ Alike(db, Flushed)
    BY <2>1, FlushedIs, Zenon
  <2>3. /\ disk'.posts = db.posts /\ disk'.cells = db.cells
        /\ disk'.rows = db.rows /\ disk'.maps = db.maps
        /\ disk'.phase = [db.phase EXCEPT ![c] = "indexes"]
    BY <1>3, <2>2, Zenon DEF MarkDropping, Alike, Tree
  <2>4. /\ disk'.phase[c] = "indexes" /\ \A d \in Colls \ {c} : disk'.phase[d] = db.phase[d]
    <3>1. db.phase \in [Colls -> LifePhases]
      BY <2>1, TreeFields, Zenon DEF Types
    <3> QED
      BY <2>3, <3>1, Zenon
  <2>5. disk.phase[c] = "live"
    BY <2>1, Zenon DEF Standing, KeptAt
  <2>6. ASSUME NEW d \in Colls, d # c
        PROVE  /\ disk.phase[d] = "live" => disk'.phase[d] = "live"
               /\ disk.phase[d] \in Phases =>
                    /\ disk'.phase[d] \in {disk.phase[d], "none"} \cup PhasesAfter(disk.phase[d])
                    /\ DOMAIN disk'.rows[d] \subseteq DOMAIN disk.rows[d]
    <3>1. KeptAt(disk, db, user, d) /\ disk'.phase[d] = db.phase[d]
      BY <2>1, <2>4, <2>6, Zenon DEF Standing
    <3> QED
      BY <2>3, <3>1, Zenon DEF KeptAt
  <2>7. /\ disk'.posts[c] = disk.posts[c] /\ disk'.cells[c] = disk.cells[c]
        /\ disk'.rows[c] = disk.rows[c] /\ disk'.maps[c] = disk.maps[c]
    <3>1. KeptAt(disk, db, user, c)
      BY <2>1, Zenon DEF Standing
    <3>2. /\ db.posts[c] = disk.posts[c] /\ db.cells[c] = disk.cells[c]
          /\ db.rows[c] = disk.rows[c] /\ db.maps[c] = disk.maps[c]
      BY <2>1, <3>1, Zenon DEF KeptAt
    <3> QED
      BY <2>3, <3>2, Zenon
  <2> QED
    BY <2>4, <2>5, <2>6, <2>7, NotDropping, Zenon DEF Frozen
<1> QED
  BY <1>1, <1>2, <1>3, Publishes, Zenon
-----------------------------------------------------------------------------
(* Row ids.  Above every id that was ever published or is in the working    *)
(* tree lies the number an insert would take, and a Register file's bound   *)
(* on disk lies above what the memory of the handle has handed out.         *)

Above(S, n) == \A id \in S : id < n

Paired(t, c) ==
  /\ \A k \in DOMAIN t.maps[c] :
       t.maps[c][k] \in DOMAIN t.rows[c] /\ t.rows[c][t.maps[c][k]] = k
  /\ \A id \in DOMAIN t.rows[c] :
       t.rows[c][id] \in DOMAIN t.maps[c] /\ t.maps[c][t.rows[c][id]] = id
  /\ t.cells[c] = DOMAIN t.rows[c]
  /\ t.posts[c] = IF t.index[c] = "ready" THEN DOMAIN t.rows[c] ELSE {}

(* A bound this transaction has not raised is already in the tree. *)
Bounded(s, n) == Register => s.next <= s.reserved /\ (s.dirty \/ s.reserved <= n)

Numbered(c) ==
  /\ Above(used[c] \cup DOMAIN db.rows[c], OpenSequence(c).next)
  /\ Bounded(OpenSequence(c), db.seq[c])

Kept(b, S, n) == Above(S, b.next) /\ b.next <= b.reserved /\ b.reserved <= n

PublishedAt(c) ==
  /\ c >= disk.next => used[c] = {}
  /\ DOMAIN disk.rows[c] \subseteq used[c]
  /\ disk.phase[c] = "live" =>
       /\ Paired(disk, c) /\ Above(used[c], disk.seq[c])
       /\ c \in DOMAIN blocks => Kept(blocks[c], used[c], disk.seq[c])

WorkingAt(c) ==
  /\ c \in DOMAIN pending => c < db.next
  /\ db.phase[c] = "live" => Paired(db, c) /\ Numbered(c)

Memory ==
  /\ used \in [Colls -> SUBSET Ids]
  /\ \A c \in DOMAIN blocks : c < disk.next
  /\ ~Register => blocks = Nothing /\ pending = Nothing

Ided ==
  /\ Memory /\ (\A c \in Colls : PublishedAt(c))
  /\ ~failed => \A c \in Colls : WorkingAt(c)

(* Two accumulators that say the same of collection c. *)
LEMMA PairedCarries ==
  ASSUME NEW t, NEW u, NEW c, SameAt(t, u, c), Paired(t, c)
  PROVE  Paired(u, c)
BY Zenon DEF SameAt, Paired

LEMMA WorkingCarries ==
  ASSUME NEW c, WorkingAt(c), SameAt(db, db', c), OpenSequence(c)' = OpenSequence(c),
         db.phase[c] = "live" => db'.seq[c] = db.seq[c],
         used' = used, c \in DOMAIN pending' => c < db'.next
  PROVE  WorkingAt(c)'
<1>1. ASSUME db'.phase[c] = "live" PROVE Paired(db', c) /\ Numbered(c)'
  <2>1. db.phase[c] = "live" /\ db'.rows[c] = db.rows[c]
    BY <1>1, Zenon DEF SameAt
  <2>2. Paired(db, c) /\ Numbered(c)
    BY <2>1, Zenon DEF WorkingAt
  <2>3. Paired(db', c)
    BY <2>2, PairedCarries, Zenon
  <2> QED
    BY <2>1, <2>2, <2>3, Zenon DEF Numbered
<1> QED
  BY <1>1, Zenon DEF WorkingAt

LEMMA PublishedCarries ==
  ASSUME NEW c, PublishedAt(c), disk' = disk, used' = used,
         c \in DOMAIN blocks' => c \in DOMAIN blocks /\ blocks'[c] = blocks[c]
  PROVE  PublishedAt(c)'
BY Zenon DEF PublishedAt

(* The block of collection c once the open accumulator is in tree u. *)
AfterFlush(u, c) ==
  IF c \in DOMAIN PendingAfterFlush THEN PendingAfterFlush[c]
  ELSE IF c \in DOMAIN blocks THEN blocks[c]
  ELSE [next |-> u.seq[c], reserved |-> u.seq[c]]

(* flush_sequence keeps the next id, and its bound is in the tree. *)
LEMMA FlushNumbers ==
  ASSUME Types, Memory, NEW c \in Colls, c \in DOMAIN db.seq,
         Bounded(OpenSequence(c), db.seq[c]), NEW u \in Tree, SeqFlushed(db, u)
  PROVE  /\ AfterFlush(u, c).next = OpenSequence(c).next
         /\ Register => /\ AfterFlush(u, c).next <= AfterFlush(u, c).reserved
                        /\ AfterFlush(u, c).reserved <= u.seq[c]
         /\ OpenSequence(c).next <= u.seq[c]
<1>1. OpenSequence(c) \in OpenSeq /\ c # 0
  BY OpenIs, CollectionsAssumption DEF Colls
<1>2. u.seq[c] \in Nat /\ db.seq[c] \in Nat
  <2>1. c \in DOMAIN u.seq
    BY Zenon DEF SeqFlushed
  <2>2. /\ u.seq \in [DOMAIN u.seq -> Positive] /\ db.seq \in [DOMAIN db.seq -> Positive]
    BY TreeFields, PartialIs, Zenon DEF Types
  <2> QED
    BY <2>1, <2>2, Zenon DEF Positive
<1>3. OpenSequence(c).next \in Nat /\ OpenSequence(c).reserved \in Nat
  BY <1>1, Zenon DEF OpenSeq, Positive
<1>4. CASE sequence.c = c /\ Register
  <2> DEFINE b == [next |-> sequence.next, reserved |-> sequence.reserved]
  <2>1. PendingAfterFlush = Set(pending, c, b)
    BY <1>1, <1>4, SequenceFields, Zenon DEF PendingAfterFlush
  <2>2. c \in DOMAIN Set(pending, c, b) /\ Set(pending, c, b)[c] = b
    <3> HIDE DEF b
    <3> QED
      BY Zenon DEF Set
  <2>3. AfterFlush(u, c) = b /\ OpenSequence(c) = sequence
    BY <1>4, <2>1, <2>2, Zenon DEF AfterFlush, OpenSequence
  <2>4. sequence.next <= sequence.reserved /\ sequence.reserved <= u.seq[c]
    <3>1. CASE sequence.dirty
      BY <1>1, <1>2, <1>3, <1>4, <2>3, <3>1 DEF Bounded, SeqFlushed
    <3>2. CASE ~sequence.dirty
      BY <1>1, <1>4, <2>3, <3>2, Zenon DEF Bounded, SeqFlushed
    <3> QED
      BY <3>1, <3>2, Zenon
  <2> QED
    BY <1>2, <1>3, <2>3, <2>4
<1>5. CASE sequence.c = c /\ ~Register
  <2>1. PendingAfterFlush = Nothing /\ blocks = Nothing
    BY <1>5, Zenon DEF PendingAfterFlush, Memory
  <2>2. AfterFlush(u, c) = [next |-> u.seq[c], reserved |-> u.seq[c]]
    BY <2>1, NothingIs, Zenon DEF AfterFlush
  <2>3. u.seq[c] = sequence.next /\ OpenSequence(c) = sequence
    BY <1>1, <1>5, Zenon DEF SeqFlushed, OpenSequence
  <2> QED
    BY <1>2, <1>5, <2>2, <2>3
<1>6. CASE sequence.c # c
  <2>1. u.seq[c] = db.seq[c]
    BY <1>6, Zenon DEF SeqFlushed
  <2>2. AfterFlush(u, c) = BlockOf(c)
    <3>1. CASE sequence = NoSequence \/ ~Register
      BY <2>1, <3>1, Zenon DEF AfterFlush, BlockOf, PendingAfterFlush
    <3>2. CASE ~(sequence = NoSequence \/ ~Register)
      <4> DEFINE b == [next |-> sequence.next, reserved |-> sequence.reserved]
      <4>1. PendingAfterFlush = Set(pending, sequence.c, b)
        BY <3>2, Zenon DEF PendingAfterFlush
      <4> HIDE DEF b
      <4>2. /\ c \in DOMAIN PendingAfterFlush <=> c \in DOMAIN pending
            /\ c \in DOMAIN pending => PendingAfterFlush[c] = pending[c]
        BY <1>6, <4>1, Zenon DEF Set
      <4> QED
        BY <2>1, <4>2, Zenon DEF AfterFlush, BlockOf
    <3> QED
      BY <3>1, <3>2, Zenon
  <2>3. OpenSequence(c) =
          [c |-> c, next |-> BlockOf(c).next, reserved |-> BlockOf(c).reserved, dirty |-> FALSE]
    BY <1>6, Zenon DEF OpenSequence
  <2>4. /\ OpenSequence(c).next = BlockOf(c).next /\ OpenSequence(c).reserved = BlockOf(c).reserved
        /\ OpenSequence(c).dirty = FALSE
    BY <2>3
  <2>5. ASSUME ~Register PROVE BlockOf(c).next = db.seq[c]
    BY <2>5, NothingIs, Zenon DEF Memory, BlockOf
  <2> QED
    BY <1>2, <1>3, <2>1, <2>2, <2>4, <2>5 DEF Bounded
<1> QED
  BY <1>4, <1>5, <1>6, CollectionsAssumption, Zenon

(* A tree put on disk, whatever becomes of the handle: what the memory says *)
(* of its live collections holds of it.                                     *)
LEMMA PublishIds ==
  ASSUME Types, Standing, Ided, ~failed, NEW u \in Tree,
         u.next = db.next, u.seq = Flushed.seq, u.index = db.index, u.posts = db.posts,
         u.cells = db.cells, u.rows = db.rows, u.maps = db.maps,
         \A c \in Colls : u.phase[c] = "live" => db.phase[c] = "live",
         Publish(u), blocks' = Merged \/ (~Register /\ blocks' = blocks),
         pending' = Nothing \/ pending' = PendingAfterFlush
  PROVE  Memory' /\ \A c \in Colls : PublishedAt(c)'
<1>1. /\ disk' = u /\ used' = [c \in Colls |-> used[c] \cup DOMAIN u.rows[c]]
  BY Zenon DEF Publish
<1>2. /\ Memory /\ \A c \in Colls : PublishedAt(c) /\ WorkingAt(c)
  BY Zenon DEF Ided
<1>3. used \in [Colls -> SUBSET Ids] /\ db.rows \in [Colls -> Partial(Ids, Keys)]
  BY <1>2, TreeFields, Zenon DEF Memory, Types
<1>4. \A c \in Colls : DOMAIN db.rows[c] \subseteq Ids /\ used'[c] = used[c] \cup DOMAIN db.rows[c]
  <2>1. ASSUME NEW c \in Colls PROVE DOMAIN db.rows[c] \subseteq Ids
    <3>1. db.rows[c] \in Partial(Ids, Keys)
      BY <1>3, Zenon
    <3> QED
      BY <3>1, PartialIs, Zenon
  <2> QED
    BY <1>1, <2>1, Zenon
<1>5. used' \in [Colls -> SUBSET Ids]
  BY <1>1, <1>3, <1>4, Zenon
<1>6. /\ disk.next \in Nat /\ db.next \in Nat /\ disk.next <= db.next
  BY TreeFields, CollectionsAssumption DEF Types, Standing
<1>7. ~Register => blocks' = Nothing /\ pending' = Nothing
  <2>1. ASSUME ~Register PROVE PendingAfterFlush = Nothing /\ blocks = Nothing
    BY <1>2, <2>1, Zenon DEF PendingAfterFlush, Memory
  <2>2. ASSUME ~Register PROVE Merged = Nothing
    BY <2>1, <2>2, NothingIs, Zenon DEF Merged, Nothing
  <2> QED
    BY <2>1, <2>2
<1>8. ASSUME NEW c \in DOMAIN PendingAfterFlush PROVE c \in Colls /\ c < db.next
  <2>1. DOMAIN PendingAfterFlush \subseteq Colls
    BY FlushedMemory, PartialIs, Zenon
  <2>2. c \in DOMAIN pending \/ c = sequence.c
    BY <1>8, Zenon DEF PendingAfterFlush, Set
  <2>3. c \in Colls
    BY <1>8, <2>1, Zenon
  <2>4. CASE c \in DOMAIN pending
    BY <1>2, <2>3, <2>4, Zenon DEF WorkingAt
  <2>5. CASE c = sequence.c
    <3>1. db.phase[c] = "live" /\ TidyAt(db, c)
      BY <2>3, <2>5, CollectionsAssumption DEF Standing, Colls
    <3>2. ~(c >= db.next)
      BY <3>1, Zenon DEF TidyAt
    <3> QED
      BY <1>6, <2>3, <3>2 DEF Colls
  <2> QED
    BY <2>2, <2>3, <2>4, <2>5, Zenon
<1>9. \A c \in DOMAIN blocks' : c < disk'.next
  <2>1. ASSUME NEW c \in DOMAIN blocks PROVE c < db.next
    <3>1. c < disk.next /\ c \in Colls
      BY <1>2, <2>1, PartialIs, Zenon DEF Memory, Types
    <3> QED
      BY <1>6, <3>1 DEF Colls
  <2>2. DOMAIN Merged = DOMAIN blocks \cup DOMAIN PendingAfterFlush
    BY Zenon DEF Merged
  <2> QED
    BY <1>1, <1>8, <2>1, <2>2, Zenon
<1>10. Memory'
  BY <1>5, <1>7, <1>9, Zenon DEF Memory
<1>11. ASSUME NEW c \in Colls, u.phase[c] = "live"
       PROVE  /\ Paired(u, c) /\ Above(used'[c], u.seq[c])
              /\ c \in DOMAIN blocks' => Kept(blocks'[c], used'[c], u.seq[c])
  <2>1. db.phase[c] = "live" /\ Paired(db, c) /\ Numbered(c) /\ c \in DOMAIN db.seq
    BY <1>2, <1>11, Zenon DEF WorkingAt, Standing, TidyAt
  <2>2. Paired(u, c)
    BY <2>1, Zenon DEF Paired
  <2>3. SeqFlushed(db, u)
    BY FlushedIs, Zenon DEF SeqFlushed
  <2>4. /\ AfterFlush(u, c).next = OpenSequence(c).next
        /\ Register => /\ AfterFlush(u, c).next <= AfterFlush(u, c).reserved
                       /\ AfterFlush(u, c).reserved <= u.seq[c]
        /\ OpenSequence(c).next <= u.seq[c]
    BY <1>2, <2>1, <2>3, FlushNumbers, Zenon DEF Numbered
  <2>5. Above(used'[c], OpenSequence(c).next)
    BY <1>4, <2>1, Zenon DEF Numbered
  <2>6. Above(used'[c], u.seq[c])
    <3>1. OpenSequence(c).next \in Nat /\ u.seq[c] \in Nat
      <4>1. c \in DOMAIN u.seq /\ u.seq \in [DOMAIN u.seq -> Positive]
        BY <2>1, <2>3, TreeFields, PartialIs, Zenon DEF SeqFlushed
      <4> QED
        BY <2>1, <4>1, OpenIs, Zenon DEF OpenSeq, Positive
    <3>2. used'[c] \subseteq Ids
      BY <1>5, Zenon
    <3> QED
      BY <2>4, <2>5, <3>1, <3>2 DEF Above, Ids
  <2>7. ASSUME c \in DOMAIN blocks' PROVE Kept(blocks'[c], used'[c], u.seq[c])
    <3>1. Register /\ blocks' = Merged
      BY <1>7, <2>7, NothingIs, Zenon
    <3>2. Merged[c] = AfterFlush(u, c)
      BY <2>7, <3>1, Zenon DEF Merged, AfterFlush
    <3> QED
      BY <2>4, <2>5, <3>1, <3>2, Zenon DEF Kept
  <2> QED
    BY <2>2, <2>6, <2>7, Zenon
<1>12. ASSUME NEW c \in Colls, c >= u.next PROVE used'[c] = {}
  <2>1. c >= disk.next
    BY <1>6, <1>12 DEF Colls
  <2>2. used[c] = {}
    BY <1>2, <2>1, Zenon DEF PublishedAt
  <2>3. DOMAIN db.rows[c] = {}
    <3>1. TidyAt(db, c) /\ c >= db.next
      BY <1>12, Zenon DEF Standing
    <3> QED
      BY <3>1, Zenon DEF TidyAt, Passed
  <2> QED
    BY <1>4, <2>2, <2>3, Zenon
<1>13. ASSUME NEW c \in Colls PROVE DOMAIN u.rows[c] \subseteq used'[c]
  BY <1>4, Zenon
<1> QED
  BY <1>1, <1>10, <1>11, <1>12, <1>13, Zenon DEF PublishedAt

(* A working tree that is the published one: rollback, reopen, and the end  *)
(* of every commit that succeeds.                                           *)
LEMMA FreshIds ==
  ASSUME Memory', NEW c \in Colls, PublishedAt(c)', TidyAt(disk', c), disk' \in Tree,
         db' = disk', sequence' = NoSequence, pending' = Nothing
  PROVE  WorkingAt(c)'
<1>1. c \notin DOMAIN pending' /\ sequence'.c # c
  BY NothingIs, CollectionsAssumption DEF NoSequence, Colls
<1>2. ASSUME disk'.phase[c] = "live" PROVE Paired(disk', c) /\ Numbered(c)'
  <2>1. /\ Paired(disk', c) /\ Above(used'[c], disk'.seq[c]) /\ DOMAIN disk'.rows[c] \subseteq used'[c]
        /\ c \in DOMAIN blocks' => Kept(blocks'[c], used'[c], disk'.seq[c])
    BY <1>2, Zenon DEF PublishedAt
  <2>2. c \in DOMAIN disk'.seq
    BY <1>2, Zenon DEF TidyAt
  <2>3. disk'.seq[c] \in Nat
    <3>1. disk'.seq \in [DOMAIN disk'.seq -> Positive]
      BY TreeFields, PartialIs, Zenon
    <3> QED
      BY <2>2, <3>1, Zenon DEF Positive
  <2>4. used'[c] \cup DOMAIN disk'.rows[c] = used'[c]
    BY <2>1, Zenon
  <2>5. CASE c \in DOMAIN blocks'
    <3>1. OpenSequence(c)' =
            [c |-> c, next |-> blocks'[c].next, reserved |-> blocks'[c].reserved, dirty |-> FALSE]
      BY <1>1, <2>5, Zenon DEF OpenSequence, BlockOf
    <3> QED
      BY <2>1, <2>4, <2>5, <3>1 DEF Numbered, Kept, Bounded
  <2>6. CASE c \notin DOMAIN blocks'
    <3>1. OpenSequence(c)' =
            [c |-> c, next |-> disk'.seq[c], reserved |-> disk'.seq[c], dirty |-> FALSE]
      BY <1>1, <2>6, Zenon DEF OpenSequence, BlockOf
    <3> QED
      BY <2>1, <2>3, <2>4, <3>1 DEF Numbered, Bounded
  <2> QED
    BY <2>1, <2>5, <2>6, Zenon
<1> QED
  BY <1>1, <1>2, Zenon DEF WorkingAt

(* A Register file's handle hears of every commit that reached the file:    *)
(* with the outcome "published" (an error although the file has the tree)   *)
(* row_id_blocks would fall behind the ids on disk.                         *)
Answers == Register => "published" \notin Outcomes

LEMMA CommitIds ==
  ASSUME Answers, Shape, Ided, Commit, Shape'
  PROVE  Ided'
<1>1. /\ Types /\ Standing /\ ~failed /\ db' = Flushed /\ sequence' = NoSequence
  BY Zenon DEF Shape, Commit
<1>2. Flushed \in Tree /\ Alike(db, Flushed)
  BY <1>1, FlushedIs, Zenon
<1>3. ASSUME Publish(Flushed), blocks' = Merged \/ (~Register /\ blocks' = blocks),
             pending' = Nothing \/ pending' = PendingAfterFlush
      PROVE  Memory' /\ \A c \in Colls : PublishedAt(c)'
  <2>1. \A c \in Colls : Flushed.phase[c] = "live" => db.phase[c] = "live"
    BY <1>2, Zenon DEF Alike
  <2> QED
    BY <1>1, <1>2, <1>3, <2>1, PublishIds, Zenon DEF Alike
<1>4. CASE Publish(Flushed) /\ blocks' = Merged /\ pending' = Nothing /\ failed' = failed
  <2>1. Memory' /\ \A c \in Colls : PublishedAt(c)'
    BY <1>3, <1>4, Zenon
  <2>2. disk' \in Tree /\ db' = disk'
    BY <1>1, <1>2, <1>4, Zenon DEF Publish
  <2>3. \A c \in Colls : TidyAt(disk', c)
    BY Zenon DEF Shape, Tidy
  <2>4. \A c \in Colls : WorkingAt(c)'
    BY <1>1, <1>4, <2>1, <2>2, <2>3, FreshIds, Zenon
  <2> QED
    BY <2>1, <2>4, Zenon DEF Ided
<1>5. CASE failed' = TRUE /\ pending' = PendingAfterFlush /\ UNCHANGED <<disk, blocks, used>>
  <2>1. \A c \in Colls : PublishedAt(c)'
    BY <1>5, PublishedCarries, Zenon DEF Ided
  <2>2. Memory'
    <3>1. ~Register => PendingAfterFlush = pending
      BY Zenon DEF PendingAfterFlush
    <3> QED
      BY <1>5, <3>1, Zenon DEF Ided, Memory
  <2> QED
    BY <1>5, <2>1, <2>2, Zenon DEF Ided
<1>6. CASE /\ "published" \in Outcomes /\ Publish(Flushed) /\ pending' = PendingAfterFlush
           /\ failed' = TRUE /\ blocks' = blocks
  BY <1>3, <1>6, Zenon DEF Answers, Ided
<1> QED
  BY <1>4, <1>5, <1>6, Zenon DEF Commit

LEMMA BeginDropIds ==
  ASSUME Answers, Shape, Ided, NEW c \in Colls, BeginDrop(c), Shape'
  PROVE  Ided'
<1> DEFINE u == MarkDropping(Flushed, c)
<1>1. /\ Types /\ Standing /\ ~failed /\ db.phase[c] = "live" /\ dropping = 0
      /\ db' = u /\ sequence' = NoSequence /\ pending' = Nothing
  BY Zenon DEF Shape, BeginDrop, DropAdmitted, Live
<1>2. Flushed \in Tree /\ Alike(db, Flushed)
  BY <1>1, FlushedIs, Zenon
<1>3. /\ u \in Tree /\ u.phase = [db.phase EXCEPT ![c] = "indexes"]
      /\ u.next = db.next /\ u.index = db.index /\ u.posts = db.posts
      /\ u.cells = db.cells /\ u.rows = db.rows /\ u.maps = db.maps /\ u.seq = Flushed.seq
  <2>1. db.phase \in [Colls -> LifePhases]
    BY <1>1, TreeFields, Zenon DEF Types
  <2>2. [db.phase EXCEPT ![c] = "indexes"] \in [Colls -> LifePhases]
    BY <2>1, PhaseMoved, PhaseOrder, Zenon
  <2>3. u = [Flushed EXCEPT !.phase = [db.phase EXCEPT ![c] = "indexes"]]
    BY <1>2, Zenon DEF MarkDropping, Alike
  <2> HIDE DEF u
  <2> QED
    BY <1>2, <2>2, <2>3, Zenon DEF Tree, Alike
<1>4. /\ \A d \in Colls : u.phase[d] = "live" => db.phase[d] = "live"
      /\ \A d \in Colls : Flushed.phase[d] = "live" => db.phase[d] = "live"
  <2>1. db.phase \in [Colls -> LifePhases]
    BY <1>1, TreeFields, Zenon DEF Types
  <2> HIDE DEF u
  <2> QED
    BY <1>2, <1>3, <2>1, Zenon DEF Alike
<1>5. ASSUME Publish(Flushed) \/ Publish(u), blocks' = Merged \/ (~Register /\ blocks' = blocks)
      PROVE  Memory' /\ \A d \in Colls : PublishedAt(d)'
  <2> HIDE DEF u
  <2>1. CASE Publish(Flushed)
    BY <1>1, <1>2, <1>4, <1>5, <2>1, PublishIds, Zenon DEF Alike
  <2>2. CASE Publish(u)
    BY <1>1, <1>3, <1>4, <1>5, <2>2, PublishIds, Zenon
  <2> QED
    BY <1>5, <2>1, <2>2, Zenon
<1>6. CASE Publish(u) /\ blocks' = Merged /\ failed' = failed
  <2>1. Memory' /\ \A d \in Colls : PublishedAt(d)'
    BY <1>5, <1>6, Zenon
  <2>2. disk' \in Tree /\ db' = disk'
    BY <1>1, <1>3, <1>6, Zenon DEF Publish
  <2>3. \A d \in Colls : TidyAt(disk', d)
    BY Zenon DEF Shape, Tidy
  <2>4. \A d \in Colls : WorkingAt(d)'
    BY <1>1, <2>1, <2>2, <2>3, FreshIds, Zenon
  <2> QED
    BY <2>1, <2>4, Zenon DEF Ided
<1>7. CASE failed' = TRUE /\ UNCHANGED <<disk, blocks, used>>
  <2>1. \A d \in Colls : PublishedAt(d)'
    BY <1>7, PublishedCarries, Zenon DEF Ided
  <2>2. Memory'
    BY <1>1, <1>7, Zenon DEF Ided, Memory
  <2> QED
    BY <1>7, <2>1, <2>2, Zenon DEF Ided
<1>8. CASE Publish(Flushed) /\ blocks' = Merged /\ failed' = TRUE
  BY <1>5, <1>8, Zenon DEF Ided
<1>9. CASE /\ "published" \in Outcomes /\ failed' = TRUE
           /\ \/ Publish(u) /\ blocks' = Merged
              \/ Publish(Flushed) /\ blocks' = blocks
  BY <1>5, <1>9, Zenon DEF Answers, Ided
<1> HIDE DEF u
<1> QED
  BY <1>6, <1>7, <1>8, <1>9, Zenon DEF BeginDrop, u

(* Rollback and reopen. *)
LEMMA FreshStartIds ==
  ASSUME Shape, Ided, Rollback \/ Reopen, Shape'
  PROVE  Ided'
<1>1. /\ db' = disk /\ disk' = disk /\ used' = used /\ sequence' = NoSequence
      /\ pending' = Nothing /\ blocks' \in {blocks, Nothing}
  BY Zenon DEF Rollback, Reopen
<1>2. \A c \in Colls : PublishedAt(c)'
  BY <1>1, NothingIs, PublishedCarries, Zenon DEF Ided
<1>3. Memory'
  BY <1>1, NothingIs, Zenon DEF Ided, Memory
<1>4. /\ disk' \in Tree /\ db' = disk' /\ \A c \in Colls : TidyAt(disk', c)
  BY <1>1, Zenon DEF Shape, Tidy, Types
<1>5. \A c \in Colls : WorkingAt(c)'
  BY <1>1, <1>2, <1>3, <1>4, FreshIds, Zenon
<1> QED
  BY <1>2, <1>3, <1>5, Zenon DEF Ided

(* An accumulator no step touched. *)
LEMMA OpenSame ==
  ASSUME NEW c, sequence' = sequence \/ (sequence.c # c /\ sequence'.c # c),
         c \in DOMAIN pending' <=> c \in DOMAIN pending,
         c \in DOMAIN pending => pending'[c] = pending[c],
         c \in DOMAIN blocks' <=> c \in DOMAIN blocks,
         c \in DOMAIN blocks => blocks'[c] = blocks[c], db'.seq[c] = db.seq[c]
  PROVE  OpenSequence(c)' = OpenSequence(c)
<1>1. BlockOf(c)' = BlockOf(c)
  BY Zenon DEF BlockOf
<1> QED
  BY <1>1, Zenon DEF OpenSequence

(* A step that leaves the file and the accumulators alone. *)
LEMMA QuietIds ==
  ASSUME Ided, disk' = disk, used' = used, blocks' = blocks, pending' = pending,
         sequence' = sequence, ~failed' => ~failed,
         ~failed => /\ db'.next = db.next /\ db'.seq = db.seq
                    /\ \A c \in Colls : db'.phase[c] = "live" => SameAt(db, db', c)
  PROVE  Ided'
<1>1. Memory' /\ \A c \in Colls : PublishedAt(c)'
  BY PublishedCarries, Zenon DEF Ided, Memory
<1>2. ASSUME ~failed', NEW c \in Colls PROVE WorkingAt(c)'
  <2>1. WorkingAt(c)
    BY <1>2, Zenon DEF Ided
  <2>2. CASE db'.phase[c] = "live"
    <3>1. OpenSequence(c)' = OpenSequence(c)
      BY <1>2, Zenon DEF OpenSequence, BlockOf
    <3>2. SameAt(db, db', c) /\ db'.seq[c] = db.seq[c] /\ (c \in DOMAIN pending' => c < db'.next)
      BY <1>2, <2>1, <2>2, Zenon DEF WorkingAt
    <3> QED
      BY <2>1, <3>1, <3>2, WorkingCarries, Zenon
  <2>3. CASE db'.phase[c] # "live"
    BY <1>2, <2>1, <2>3, Zenon DEF WorkingAt
  <2> QED
    BY <2>2, <2>3, Zenon
<1> QED
  BY <1>1, <1>2, Zenon DEF Ided

LEMMA CreateIds ==
  ASSUME Shape, Ided, CreateCollection
  PROVE  Ided'
<1>0. PICK n : n = db.next
  BY Zenon
<1>1. /\ Types /\ Standing /\ ~failed /\ failed' = failed /\ disk' = disk
      /\ sequence' = sequence /\ blocks' = blocks /\ pending' = pending /\ used' = used
  BY Zenon DEF Shape, CreateCollection, ids
<1>2. /\ n \in Colls /\ db'.next = n + 1
      /\ db'.phase = [db.phase EXCEPT ![n] = "live"] /\ db'.seq = Set(db.seq, n, 1)
      /\ db'.index = db.index /\ db'.posts = db.posts /\ db'.cells = db.cells
      /\ db'.rows = db.rows /\ db'.maps = db.maps
  BY <1>0, <1>1, CreateFields, Zenon DEF Types
<1>3. /\ db.phase \in [Colls -> LifePhases] /\ n \in Nat /\ disk.next \in Nat /\ disk.next <= n
  BY <1>0, <1>1, TreeFields, CollectionsAssumption DEF Types, Standing
<1>4. Memory' /\ \A c \in Colls : PublishedAt(c)'
  BY <1>1, PublishedCarries, Zenon DEF Ided, Memory
<1>5. TidyAt(db, n) /\ PublishedAt(n) /\ WorkingAt(n) /\ Memory
  BY <1>1, <1>2, Zenon DEF Ided, Standing
<1>6. db.phase[n] = "none"
  BY <1>0, <1>3, <1>5 DEF TidyAt
<1>7. ASSUME NEW c \in Colls, c # n PROVE WorkingAt(c)'
  <2>1. WorkingAt(c)
    BY <1>1, Zenon DEF Ided
  <2>2. SameAt(db, db', c)
    BY <1>2, <1>3, <1>7, Zenon DEF SameAt
  <2>3. db.phase[c] = "live" => c \in DOMAIN db.seq
    BY <1>1, Zenon DEF Standing, TidyAt
  <2>4. c \in DOMAIN db.seq => db'.seq[c] = db.seq[c]
    BY <1>2, <1>7, Zenon DEF Set
  <2>5. c \in DOMAIN pending' => c < db'.next
    BY <1>0, <1>1, <1>2, <1>3, <2>1 DEF WorkingAt, Colls
  <2>6. CASE db.phase[c] = "live"
    <3>1. OpenSequence(c)' = OpenSequence(c)
      BY <1>1, <2>3, <2>4, <2>6, OpenSame, Zenon
    <3> QED
      BY <1>1, <2>1, <2>2, <2>3, <2>4, <2>5, <2>6, <3>1, WorkingCarries, Zenon
  <2>7. CASE db.phase[c] # "live"
    BY <2>2, <2>5, <2>7, Zenon DEF WorkingAt, SameAt
  <2> QED
    BY <2>6, <2>7, Zenon
<1>8. WorkingAt(n)'
  <2>1. n \notin DOMAIN pending /\ n \notin DOMAIN blocks
    BY <1>0, <1>3, <1>5 DEF WorkingAt, Memory
  <2>2. sequence.c # n
    <3>1. n # 0
      BY <1>2 DEF Colls
    <3> QED
      BY <1>1, <1>6, <3>1, Zenon DEF Standing
  <2>3. db'.seq[n] = 1
    BY <1>2, Zenon DEF Set
  <2>4. OpenSequence(n)' = [c |-> n, next |-> 1, reserved |-> 1, dirty |-> FALSE]
    BY <1>1, <2>1, <2>2, <2>3, Zenon DEF OpenSequence, BlockOf
  <2>5. used[n] = {}
    BY <1>3, <1>5 DEF PublishedAt
  <2>6. /\ DOMAIN db.rows[n] = {} /\ DOMAIN db.maps[n] = {} /\ db.cells[n] = {}
        /\ db.posts[n] = {} /\ db.index[n] = "none"
    BY <1>5, <1>6, Zenon DEF TidyAt, Passed
  <2>7. Paired(db', n)
    BY <1>2, <2>6, Zenon DEF Paired
  <2>8. Numbered(n)'
    BY <1>1, <1>2, <2>3, <2>4, <2>5, <2>6 DEF Numbered, Above, Bounded
  <2> QED
    BY <1>1, <2>1, <2>7, <2>8, Zenon DEF WorkingAt
<1> QED
  BY <1>1, <1>4, <1>7, <1>8, Zenon DEF Ided

LEMMA InsertPaired ==
  ASSUME NEW t \in Tree, NEW u, NEW c \in Colls, NEW k \in Keys, NEW id \in Ids,
         Inserted(t, u, c, k, id), Paired(t, c), k \notin DOMAIN t.maps[c],
         id \notin DOMAIN t.rows[c]
  PROVE  Paired(u, c) /\ DOMAIN u.rows[c] = DOMAIN t.rows[c] \cup {id}
<1>1. /\ t.posts \in [Colls -> SUBSET Ids] /\ t.cells \in [Colls -> SUBSET Ids]
      /\ t.rows \in [Colls -> Partial(Ids, Keys)] /\ t.maps \in [Colls -> Partial(Keys, Ids)]
  BY TreeFields, Zenon
<1>2. /\ u.rows[c] = Set(t.rows[c], id, k) /\ u.maps[c] = Set(t.maps[c], k, id)
      /\ u.cells[c] = t.cells[c] \cup {id} /\ u.index[c] = t.index[c]
      /\ u.posts[c] = IF t.index[c] = "ready" THEN t.posts[c] \cup {id} ELSE t.posts[c]
  BY <1>1, Zenon DEF Inserted
<1>3. /\ DOMAIN u.rows[c] = DOMAIN t.rows[c] \cup {id} /\ u.rows[c][id] = k
      /\ \A x \in DOMAIN t.rows[c] : u.rows[c][x] = t.rows[c][x]
      /\ DOMAIN u.maps[c] = DOMAIN t.maps[c] \cup {k} /\ u.maps[c][k] = id
      /\ \A x \in DOMAIN t.maps[c] : u.maps[c][x] = t.maps[c][x]
  BY <1>2, Zenon DEF Set
<1>4. /\ \A x \in DOMAIN u.maps[c] :
           u.maps[c][x] \in DOMAIN u.rows[c] /\ u.rows[c][u.maps[c][x]] = x
      /\ \A x \in DOMAIN u.rows[c] :
           u.rows[c][x] \in DOMAIN u.maps[c] /\ u.maps[c][u.rows[c][x]] = x
  BY <1>3 DEF Paired
<1>5. /\ u.cells[c] = DOMAIN u.rows[c]
      /\ u.posts[c] = IF u.index[c] = "ready" THEN DOMAIN u.rows[c] ELSE {}
  BY <1>2, <1>3, Zenon DEF Paired
<1> QED
  BY <1>3, <1>4, <1>5, Zenon DEF Paired

(* The accumulator an insert leaves, and those of the other collections. *)
LEMMA PutOpens ==
  ASSUME Shape, Ided, NEW c \in Colls, NEW k \in Keys, PutNew(c, k)
  PROVE  \E s \in OpenSeq :
           /\ s.c = c /\ s.next \in Ids /\ s.next = OpenSequence(c).next
           /\ Inserted(db, db', c, k, s.next) /\ db'.seq = Before(c).seq
           /\ Register => \/ s = OpenSequence(c) /\ s.next < s.reserved
                          \/ s.dirty /\ s.reserved = s.next + Block
           /\ sequence'.c = c /\ sequence'.next = s.next + 1 /\ sequence'.reserved = s.reserved
           /\ sequence'.dirty = s.dirty
<1>0. PICK s : s = Reserve(OpenSequence(c))
  BY Zenon
<1>1. Types /\ c \in DOMAIN db.seq
  BY Zenon DEF Shape, PutNew, Live, Standing, TidyAt
<1>2. /\ s.next \in Ids /\ Inserted(db, db', c, k, s.next) /\ db'.seq = Before(c).seq
      /\ sequence' = [s EXCEPT !.next = s.next + 1]
  BY <1>0, <1>1, PutFields, Zenon
<1>3. /\ s \in OpenSeq /\ s.c = c /\ s.next = OpenSequence(c).next
      /\ Register => \/ s = OpenSequence(c) /\ s.next < s.reserved
                     \/ s.dirty /\ s.reserved = s.next + Block
  BY <1>0, <1>1, OpenIs, ReserveIs, Zenon
<1>4. /\ sequence'.c = c /\ sequence'.next = s.next + 1 /\ sequence'.reserved = s.reserved
      /\ sequence'.dirty = s.dirty
  BY <1>2, <1>3, Zenon DEF OpenSeq
<1> QED
  BY <1>2, <1>3, <1>4, Zenon

LEMMA PutOthers ==
  ASSUME Shape, Ided, NEW c \in Colls, NEW k \in Keys, PutNew(c, k),
         NEW d \in Colls, d # c, db.phase[d] = "live"
  PROVE  /\ SameAt(db, db', d) /\ OpenSequence(d)'.next = OpenSequence(d).next
         /\ Bounded(OpenSequence(d)', db'.seq[d])
<1>1. /\ Types /\ Standing /\ Memory /\ blocks' = blocks
      /\ pending' = (IF sequence.c = c THEN pending ELSE PendingAfterFlush)
  BY Zenon DEF Shape, Ided, PutNew
<1>2. /\ d \in DOMAIN db.seq /\ Bounded(OpenSequence(d), db.seq[d])
  BY <1>1, Zenon DEF Standing, TidyAt, Ided, WorkingAt, Numbered, PutNew
<1>3. PICK id \in Ids : /\ Inserted(db, db', c, k, id) /\ db'.seq = Before(c).seq
                        /\ sequence'.c = c
  BY PutOpens, Zenon
<1>4. SameAt(db, db', d)
  <2>1. /\ db.posts \in [Colls -> SUBSET Ids] /\ db.cells \in [Colls -> SUBSET Ids]
        /\ db.rows \in [Colls -> Partial(Ids, Keys)] /\ db.maps \in [Colls -> Partial(Keys, Ids)]
    BY <1>1, TreeFields, Zenon DEF Types
  <2> QED
    BY <1>3, <2>1, Zenon DEF Inserted, SameAt
<1>5. CASE sequence.c = c
  <2>1. db'.seq[d] = db.seq[d]
    BY <1>1, <1>3, <1>5, BeforeIs, Zenon
  <2>2. OpenSequence(d)' = OpenSequence(d)
    BY <1>1, <1>3, <1>5, <2>1, OpenSame, Zenon
  <2> QED
    BY <1>2, <1>4, <2>1, <2>2, Zenon
<1>6. CASE sequence.c # c
  <2>1. SeqFlushed(db, db') /\ db' \in Tree
    <3>1. SeqFlushed(db, Before(c)) /\ db'.seq = Before(c).seq /\ db' \in Tree
      BY <1>1, <1>3, <1>6, BeforeIs, Zenon DEF Inserted
    <3> QED
      BY <3>1, Zenon DEF SeqFlushed
  <2>2. /\ AfterFlush(db', d).next = OpenSequence(d).next
        /\ Register => /\ AfterFlush(db', d).next <= AfterFlush(db', d).reserved
                       /\ AfterFlush(db', d).reserved <= db'.seq[d]
    BY <1>1, <1>2, <2>1, FlushNumbers, Zenon
  <2>3. OpenSequence(d)' = [c |-> d, next |-> AfterFlush(db', d).next,
                            reserved |-> AfterFlush(db', d).reserved, dirty |-> FALSE]
    BY <1>1, <1>3, <1>6, Zenon DEF OpenSequence, BlockOf, AfterFlush
  <2>4. /\ OpenSequence(d)'.next = OpenSequence(d).next
        /\ OpenSequence(d)'.reserved = AfterFlush(db', d).reserved
    BY <2>2, <2>3
  <2> QED
    BY <1>4, <2>2, <2>4, Zenon DEF Bounded
<1> QED
  BY <1>5, <1>6, Zenon

LEMMA PutIds ==
  ASSUME Shape, Ided, NEW c \in Colls, NEW k \in Keys, PutNew(c, k)
  PROVE  Ided'
<1>1. /\ Types /\ Standing /\ ~failed /\ failed' = failed /\ db.phase[c] = "live"
      /\ disk' = disk /\ blocks' = blocks /\ used' = used /\ k \notin DOMAIN db.maps[c]
      /\ pending' = (IF sequence.c = c THEN pending ELSE PendingAfterFlush)
  BY Zenon DEF Shape, PutNew, Live
<1>2. c \in DOMAIN db.seq /\ Memory /\ Paired(db, c) /\ Numbered(c)
  BY <1>1, Zenon DEF Standing, TidyAt, Ided, WorkingAt
<1>3. PICK s \in OpenSeq :
        /\ s.c = c /\ s.next \in Ids /\ s.next = OpenSequence(c).next
        /\ Inserted(db, db', c, k, s.next) /\ db'.seq = Before(c).seq
        /\ Register => \/ s = OpenSequence(c) /\ s.next < s.reserved
                       \/ s.dirty /\ s.reserved = s.next + Block
        /\ sequence'.c = c /\ sequence'.next = s.next + 1 /\ sequence'.reserved = s.reserved
        /\ sequence'.dirty = s.dirty
  BY PutOpens, Zenon
<1>4. OpenSequence(c) \in OpenSeq
  BY <1>1, <1>2, OpenIs, Zenon
<1>6. \A d \in Colls : PublishedAt(d)'
  BY <1>1, PublishedCarries, Zenon DEF Ided
<1>7. Memory'
  <2>1. ~Register => PendingAfterFlush = pending
    BY Zenon DEF PendingAfterFlush
  <2> QED
    BY <1>1, <1>2, <2>1, Zenon DEF Memory
<1>8. db.next \in Nat /\ db'.next = db.next
  BY <1>1, <1>3, TreeFields DEF Types, Inserted
<1>9. ASSUME NEW d \in Colls, d \in DOMAIN pending' PROVE d < db'.next
  <2>1. d \in DOMAIN pending \/ d = sequence.c
    BY <1>1, <1>9, Zenon DEF PendingAfterFlush, Set
  <2>2. CASE d \in DOMAIN pending
    BY <1>1, <1>8, <2>2, Zenon DEF Ided, WorkingAt
  <2>3. CASE d = sequence.c
    <3>1. db.phase[d] = "live" /\ TidyAt(db, d)
      BY <1>1, <2>3, CollectionsAssumption DEF Standing, Colls
    <3>2. ~(d >= db.next)
      BY <3>1, Zenon DEF TidyAt
    <3> QED
      BY <1>8, <3>2 DEF Colls
  <2> QED
    BY <2>1, <2>2, <2>3, Zenon
<1>10. WorkingAt(c)'
  <2>1. OpenSequence(c)' = sequence'
    BY <1>3, Zenon DEF OpenSequence
  <2>2. s.next \notin DOMAIN db.rows[c]
    BY <1>2, <1>3, <1>4 DEF Numbered, Above, Ids
  <2>3. Paired(db', c) /\ DOMAIN db'.rows[c] = DOMAIN db.rows[c] \cup {s.next}
    <3>1. db \in Tree
      BY <1>1, Zenon DEF Types
    <3> QED
      BY <1>1, <1>2, <1>3, <2>2, <3>1, InsertPaired
  <2>4. used[c] \cup DOMAIN db.rows[c] \subseteq Ids
    <3>1. used[c] \subseteq Ids
      BY <1>2, Zenon DEF Memory
    <3>2. db.rows[c] \in Partial(Ids, Keys)
      BY <1>1, TreeFields DEF Types
    <3>3. DOMAIN db.rows[c] \subseteq Ids
      BY <3>2, PartialIs, Zenon
    <3> QED
      BY <3>1, <3>3, Zenon
  <2>5. Above(used'[c] \cup DOMAIN db'.rows[c], s.next + 1)
    BY <1>1, <1>2, <1>3, <1>4, <2>3, <2>4 DEF Numbered, Above, Ids
  <2>6. Bounded(sequence', db'.seq[c])
    <3>1. ASSUME Register, s = OpenSequence(c), s.next < s.reserved
          PROVE  s.next + 1 <= s.reserved /\ (s.dirty \/ s.reserved <= db'.seq[c])
      <4>1. s.next + 1 <= s.reserved
        BY <1>4, <3>1 DEF OpenSeq, Positive
      <4>2. s.dirty \/ s.reserved <= db.seq[c]
        BY <1>2, <3>1, Zenon DEF Numbered, Bounded
      <4>3. db'.seq[c] = db.seq[c]
        <5>1. sequence.c # c => SeqFlushed(db, Before(c))
          BY <1>1, BeforeIs, Zenon
        <5>2. sequence.c = c => Before(c) = db
          BY <1>1, BeforeIs, Zenon
        <5> QED
          BY <1>2, <1>3, <5>1, <5>2, Zenon DEF SeqFlushed
      <4> QED
        BY <4>1, <4>2, <4>3, Zenon
    <3>2. ASSUME Register, s.dirty, s.reserved = s.next + Block
          PROVE  s.next + 1 <= s.reserved
      BY <1>4, <3>2, CollectionsAssumption DEF OpenSeq, Positive
    <3> QED
      BY <1>3, <3>1, <3>2, Zenon DEF Bounded
  <2>7. Numbered(c)'
    BY <1>3, <2>1, <2>5, <2>6, Zenon DEF Numbered
  <2> QED
    BY <1>9, <2>3, <2>7, Zenon DEF WorkingAt
<1>11. ASSUME NEW d \in Colls, d # c PROVE WorkingAt(d)'
  <2>1. WorkingAt(d) /\ db'.phase[d] = db.phase[d]
    BY <1>1, <1>3, Zenon DEF Ided, Inserted
  <2>2. CASE db.phase[d] # "live"
    BY <1>9, <2>1, <2>2, Zenon DEF WorkingAt
  <2>3. CASE db.phase[d] = "live"
    <3>1. /\ SameAt(db, db', d) /\ OpenSequence(d)'.next = OpenSequence(d).next
          /\ Bounded(OpenSequence(d)', db'.seq[d])
      BY <1>11, <2>3, PutOthers, Zenon
    <3>2. Paired(db, d) /\ Above(used[d] \cup DOMAIN db.rows[d], OpenSequence(d).next)
      BY <2>1, <2>3, Zenon DEF WorkingAt, Numbered
    <3>3. Above(used'[d] \cup DOMAIN db'.rows[d], OpenSequence(d)'.next)
      BY <1>1, <3>1, <3>2, Zenon DEF SameAt
    <3>4. Paired(db', d)
      BY <3>1, <3>2, PairedCarries, Zenon
    <3> QED
      BY <1>9, <3>1, <3>3, <3>4, Zenon DEF WorkingAt, Numbered
  <2> QED
    BY <2>2, <2>3, Zenon
<1> QED
  BY <1>6, <1>7, <1>10, <1>11, Zenon DEF Ided

LEMMA RemovePaired ==
  ASSUME NEW t \in Tree, NEW u, NEW c \in Colls, NEW k \in DOMAIN t.maps[c],
         Removed(t, u, c, k, t.maps[c][k]), Paired(t, c)
  PROVE  Paired(u, c) /\ DOMAIN u.rows[c] = DOMAIN t.rows[c] \ {t.maps[c][k]}
<1> DEFINE id == t.maps[c][k]
<1>1. /\ t.posts \in [Colls -> SUBSET Ids] /\ t.cells \in [Colls -> SUBSET Ids]
      /\ t.rows \in [Colls -> Partial(Ids, Keys)] /\ t.maps \in [Colls -> Partial(Keys, Ids)]
  BY TreeFields, Zenon
<1> HIDE DEF id
<1>2. /\ u.rows[c] = Drop(t.rows[c], id) /\ u.maps[c] = Drop(t.maps[c], k)
      /\ u.cells[c] = t.cells[c] \ {id} /\ u.index[c] = t.index[c]
      /\ u.posts[c] = IF t.index[c] = "ready" THEN t.posts[c] \ {id} ELSE t.posts[c]
  BY <1>1, Zenon DEF Removed, id
<1>3. /\ DOMAIN u.rows[c] = DOMAIN t.rows[c] \ {id}
      /\ \A x \in DOMAIN t.rows[c] \ {id} : u.rows[c][x] = t.rows[c][x]
      /\ DOMAIN u.maps[c] = DOMAIN t.maps[c] \ {k}
      /\ \A x \in DOMAIN t.maps[c] \ {k} : u.maps[c][x] = t.maps[c][x]
  <2>1. /\ DOMAIN u.rows[c] = DOMAIN t.rows[c] \ {id}
        /\ \A x \in DOMAIN t.rows[c] \ {id} : u.rows[c][x] = t.rows[c][x]
    BY <1>2, Zenon DEF Drop, Restrict
  <2>2. /\ DOMAIN u.maps[c] = DOMAIN t.maps[c] \ {k}
        /\ \A x \in DOMAIN t.maps[c] \ {k} : u.maps[c][x] = t.maps[c][x]
    BY <1>2, Zenon DEF Drop, Restrict
  <2> QED
    BY <2>1, <2>2, Zenon
<1>4. t.maps[c][k] = id /\ t.rows[c][id] = k
  BY Zenon DEF Paired, id
<1>5. /\ \A x \in DOMAIN u.maps[c] :
           u.maps[c][x] \in DOMAIN u.rows[c] /\ u.rows[c][u.maps[c][x]] = x
      /\ \A x \in DOMAIN u.rows[c] :
           u.rows[c][x] \in DOMAIN u.maps[c] /\ u.maps[c][u.rows[c][x]] = x
  BY <1>3, <1>4 DEF Paired
<1>6. /\ u.cells[c] = DOMAIN u.rows[c]
      /\ u.posts[c] = IF u.index[c] = "ready" THEN DOMAIN u.rows[c] ELSE {}
  BY <1>2, <1>3, Zenon DEF Paired
<1> QED
  BY <1>3, <1>5, <1>6, Zenon DEF Paired, id

LEMMA DeleteIds ==
  ASSUME Shape, Ided, NEW c \in Colls, NEW k \in Keys, Delete(c, k)
  PROVE  Ided'
<1>1. /\ Types /\ Standing /\ ~failed /\ failed' = failed /\ db.phase[c] = "live"
      /\ disk' = disk /\ blocks' = blocks /\ pending' = pending
      /\ sequence' = sequence /\ used' = used /\ k \in DOMAIN db.maps[c]
  BY Zenon DEF Shape, Delete, Live, Loads
<1>2. db \in Tree /\ Removed(db, db', c, k, db.maps[c][k])
  BY <1>1, DeleteFields, Zenon DEF Types
<1>3. db'.next = db.next /\ db'.seq = db.seq /\ db'.phase = db.phase
  BY <1>2, Zenon DEF Removed
<1>4. Memory' /\ \A d \in Colls : PublishedAt(d)'
  BY <1>1, PublishedCarries, Zenon DEF Ided, Memory
<1>5. \A d \in Colls : OpenSequence(d)' = OpenSequence(d)
  BY <1>1, <1>3, Zenon DEF OpenSequence, BlockOf
<1>6. ASSUME NEW d \in Colls, d # c PROVE WorkingAt(d)'
  <2>1. SameAt(db, db', d)
    <3>1. /\ db.posts \in [Colls -> SUBSET Ids] /\ db.cells \in [Colls -> SUBSET Ids]
          /\ db.rows \in [Colls -> Partial(Ids, Keys)] /\ db.maps \in [Colls -> Partial(Keys, Ids)]
      BY <1>2, TreeFields, Zenon
    <3> QED
      BY <1>2, <1>6, <3>1, Zenon DEF Removed, SameAt
  <2>2. WorkingAt(d) /\ (d \in DOMAIN pending' => d < db'.next)
    BY <1>1, <1>3, Zenon DEF Ided, WorkingAt
  <2> QED
    BY <1>1, <1>3, <1>5, <2>1, <2>2, WorkingCarries, Zenon
<1>7. WorkingAt(c)'
  <2>1. WorkingAt(c) /\ Paired(db, c) /\ Numbered(c)
    BY <1>1, Zenon DEF Ided, WorkingAt
  <2>2. Paired(db', c) /\ DOMAIN db'.rows[c] \subseteq DOMAIN db.rows[c]
    BY <1>1, <1>2, <2>1, RemovePaired
  <2>3. Numbered(c)'
    <3>1. Above(used'[c] \cup DOMAIN db'.rows[c], OpenSequence(c).next)
      BY <1>1, <2>1, <2>2, Zenon DEF Numbered, Above
    <3>2. Bounded(OpenSequence(c), db'.seq[c])
      BY <1>3, <2>1, Zenon DEF Numbered
    <3> QED
      BY <1>5, <3>1, <3>2, Zenon DEF Numbered
  <2> QED
    BY <1>1, <1>3, <2>1, <2>2, <2>3, Zenon DEF WorkingAt
<1> QED
  BY <1>4, <1>6, <1>7, Zenon DEF Ided

LEMMA DropDescriptorIds ==
  ASSUME Shape, Ided, NEW c \in Colls, DropDescriptor(c)
  PROVE  Ided'
<1>1. Types /\ Standing /\ ~failed /\ disk' = disk /\ used' = used /\ db.phase[c] = "descriptor"
  BY Zenon DEF Shape, DropDescriptor
<1>2. CASE ~KeyspacesEmpty(db, c)
  <2>1. /\ failed' = TRUE /\ db' = db /\ sequence' = sequence /\ blocks' = blocks
        /\ pending' = pending
    BY <1>2, Zenon DEF DropDescriptor, ids
  <2> QED
    BY <1>1, <2>1, PublishedCarries, Zenon DEF Ided, Memory
<1>3. CASE KeyspacesEmpty(db, c)
  <2>1. /\ sequence' = (IF sequence.c = c THEN NoSequence ELSE sequence)
        /\ blocks' = Drop(blocks, c) /\ pending' = Drop(pending, c) /\ failed' = failed
    BY <1>3, Zenon DEF DropDescriptor
  <2>2. /\ db'.next = db.next
        /\ db'.index = db.index /\ db'.posts = db.posts /\ db'.cells = db.cells
        /\ db'.rows = db.rows /\ db'.maps = db.maps
        /\ db'.phase[c] = "none" /\ \A d \in Colls \ {c} : db'.phase[d] = db.phase[d]
        /\ db'.seq = Drop(db.seq, c)
    <3>1. db \in Tree
      BY <1>1, Zenon DEF Types
    <3> QED
      BY <1>3, <3>1, DescriptorFields, Zenon
  <2>3. /\ DOMAIN blocks' = DOMAIN blocks \ {c} /\ DOMAIN pending' = DOMAIN pending \ {c}
        /\ \A d \in DOMAIN blocks \ {c} : blocks'[d] = blocks[d]
        /\ \A d \in DOMAIN pending \ {c} : pending'[d] = pending[d]
        /\ \A d \in DOMAIN db.seq \ {c} : db'.seq[d] = db.seq[d]
    <3>1. /\ DOMAIN blocks' = DOMAIN blocks \ {c}
          /\ \A d \in DOMAIN blocks \ {c} : blocks'[d] = blocks[d]
      BY <2>1, Zenon DEF Drop, Restrict
    <3>2. /\ DOMAIN pending' = DOMAIN pending \ {c}
          /\ \A d \in DOMAIN pending \ {c} : pending'[d] = pending[d]
      BY <2>1, Zenon DEF Drop, Restrict
    <3>3. \A d \in DOMAIN db.seq \ {c} : db'.seq[d] = db.seq[d]
      BY <2>2, Zenon DEF Drop, Restrict
    <3> QED
      BY <3>1, <3>2, <3>3, Zenon
  <2>4. \A d \in Colls : PublishedAt(d)'
    BY <1>1, <2>3, PublishedCarries, Zenon DEF Ided
  <2>5. Memory'
    <3>1. Drop(Nothing, c) = Nothing
      BY NothingIs, Zenon DEF Drop, Restrict, Nothing
    <3> QED
      BY <1>1, <2>1, <2>3, <3>1, Zenon DEF Ided, Memory
  <2>6. ASSUME NEW d \in Colls, d # c PROVE WorkingAt(d)'
    <3>1. WorkingAt(d) /\ SameAt(db, db', d)
      BY <1>1, <2>2, <2>6, Zenon DEF Ided, SameAt
    <3>2. d \in DOMAIN pending' => d < db'.next
      BY <2>2, <2>3, <3>1, Zenon DEF WorkingAt
    <3>3. CASE db.phase[d] = "live"
      <4>1. d \in DOMAIN db.seq
        BY <1>1, <3>3, Zenon DEF Standing, TidyAt
      <4>2. db'.seq[d] = db.seq[d]
        BY <2>3, <2>6, <4>1, Zenon
      <4>3. sequence' = sequence \/ (sequence.c # d /\ sequence'.c # d)
        BY <2>1, <2>6, CollectionsAssumption DEF NoSequence, Colls
      <4>4. OpenSequence(d)' = OpenSequence(d)
        BY <2>3, <2>6, <4>2, <4>3, OpenSame, Zenon
      <4> QED
        BY <1>1, <3>1, <3>2, <4>2, <4>4, WorkingCarries, Zenon
    <3>4. CASE db.phase[d] # "live"
      BY <3>1, <3>2, <3>4, Zenon DEF WorkingAt, SameAt
    <3> QED
      BY <3>3, <3>4, Zenon
  <2>7. WorkingAt(c)'
    BY <2>2, <2>3, Zenon DEF WorkingAt
  <2> QED
    BY <2>4, <2>5, <2>6, <2>7, Zenon DEF Ided
<1> QED
  BY <1>2, <1>3, Zenon

LEMMA InitIds ==
  ASSUME Init
  PROVE  Ided
<1>1. PICK n \in 0..MaxColl, indexed \in BOOLEAN : db = OldFile(n, indexed)
  BY Zenon DEF Init
<1>2. /\ db.next = n + 1 /\ db.seq = [c \in 1..n |-> 1]
      /\ db.phase = [c \in Colls |-> IF c <= n THEN "live" ELSE "none"]
      /\ db.posts = [c \in Colls |-> {}] /\ db.cells = [c \in Colls |-> {}]
      /\ db.rows = [c \in Colls |-> Nothing] /\ db.maps = [c \in Colls |-> Nothing]
  BY <1>1, Zenon DEF OldFile
<1>3. /\ disk = db /\ sequence = NoSequence /\ blocks = Nothing /\ pending = Nothing
      /\ used = [c \in Colls |-> {}]
  BY Zenon DEF Init
<1>4. Memory
  <2>1. used \in [Colls -> SUBSET Ids]
    BY <1>3, Zenon
  <2> QED
    BY <1>3, <2>1, NothingIs, Zenon DEF Memory
<1>5. ASSUME NEW c \in Colls
      PROVE  /\ used[c] = {} /\ Paired(db, c) /\ DOMAIN db.rows[c] = {}
             /\ db.phase[c] = "live" => OpenSequence(c) = [c |-> c, next |-> 1, reserved |-> 1, dirty |-> FALSE]
             /\ db.phase[c] = "live" => db.seq[c] = 1
  <2>1. /\ db.posts[c] = {} /\ db.cells[c] = {} /\ DOMAIN db.rows[c] = {} /\ DOMAIN db.maps[c] = {}
    BY <1>2, NothingIs, Zenon
  <2>2. Paired(db, c)
    BY <2>1, Zenon DEF Paired
  <2>3. db.phase[c] = "live" => db.seq[c] = 1
    BY <1>2 DEF Colls
  <2>4. sequence.c # c /\ c \notin DOMAIN pending /\ c \notin DOMAIN blocks
    BY <1>3, NothingIs, CollectionsAssumption DEF NoSequence, Colls
  <2>5. db.phase[c] = "live" => OpenSequence(c) = [c |-> c, next |-> 1, reserved |-> 1, dirty |-> FALSE]
    BY <2>3, <2>4, Zenon DEF OpenSequence, BlockOf
  <2> QED
    BY <1>3, <2>1, <2>2, <2>3, <2>5, Zenon
<1>6. ASSUME NEW c \in Colls PROVE PublishedAt(c) /\ WorkingAt(c)
  <2>1. c \notin DOMAIN blocks /\ c \notin DOMAIN pending
    BY <1>3, NothingIs, Zenon
  <2>2. PublishedAt(c)
    BY <1>3, <1>5, <2>1, Zenon DEF PublishedAt, Above
  <2>3. db.phase[c] = "live" => Numbered(c)
    BY <1>5 DEF Numbered, Above, Bounded
  <2> QED
    BY <1>5, <2>1, <2>2, <2>3, Zenon DEF WorkingAt
<1> QED
  BY <1>4, <1>6, Zenon DEF Ided

(* Every step keeps the ids in order. *)
LEMMA IdsStep ==
  ASSUME Answers, TakesAll, Shape, Ided, [Next]_vars, Shape'
  PROVE  Ided'
<1>1. CASE CreateCollection
  BY <1>1, CreateIds, Zenon
<1>2. ASSUME NEW c \in Colls, NEW k \in Keys, PutNew(c, k) PROVE Ided'
  BY <1>2, PutIds, Zenon
<1>3. ASSUME NEW c \in Colls, NEW k \in Keys, Delete(c, k) PROVE Ided'
  BY <1>3, DeleteIds, Zenon
<1>4. ASSUME NEW c \in Colls, NEW k \in Keys, Replace(c, k) PROVE Ided'
  <2>1. /\ disk' = disk /\ used' = used /\ blocks' = blocks /\ pending' = pending
        /\ sequence' = sequence /\ failed' = failed /\ db' = db
    BY <1>4, Zenon DEF Replace, ids
  <2> QED
    BY <2>1, QuietIds, Zenon DEF SameAt
<1>5. CASE Commit
  BY <1>5, CommitIds, Zenon
<1>6. CASE IoError
  <2>1. /\ disk' = disk /\ used' = used /\ blocks' = blocks /\ pending' = pending
        /\ sequence' = sequence /\ failed' /\ db' = db
    BY <1>6, Zenon DEF IoError, ids
  <2> QED
    BY <2>1, QuietIds, Zenon DEF SameAt
<1>7. CASE Rollback \/ Reopen
  BY <1>7, FreshStartIds, Zenon
<1>8. ASSUME NEW b \in 1..Batch, Backfill(b) PROVE Ided'
  <2>1. /\ disk' = disk /\ used' = used /\ blocks' = blocks /\ pending' = pending
        /\ sequence' = sequence /\ failed' = failed
    BY <1>8, BackfillIs, Zenon
  <2>2. /\ db'.next = db.next /\ db'.seq = db.seq /\ \A c \in Colls : SameAt(db, db', c)
    <3>1. db \in Tree
      BY Zenon DEF Shape, Types
    <3>2. CASE db' = db
      BY <3>2, Zenon DEF SameAt
    <3>3. CASE db' = [db EXCEPT !.counted = TRUE,
                                !.count = Set(db.count, Counting.c, Total(Counting, b))]
      BY <3>1, <3>3, Zenon DEF SameAt, Tree
    <3> QED
      BY <1>8, <3>2, <3>3, BackfillIs, Zenon
  <2> QED
    BY <2>1, <2>2, QuietIds, Zenon
<1>9. ASSUME NEW c \in Colls, BeginDrop(c) PROVE Ided'
  BY <1>9, BeginDropIds, Zenon
<1>10. ASSUME NEW c \in Colls, DropDescriptor(c) PROVE Ided'
  BY <1>10, DropDescriptorIds, Zenon
<1>11. ASSUME NEW c \in Colls, NEW b \in 1..Batch, DropStep(c, b) PROVE Ided'
  <2>1. /\ disk' = disk /\ used' = used /\ blocks' = blocks /\ pending' = pending
        /\ sequence' = sequence /\ failed' = failed
    BY <1>11, Zenon DEF DropStep
  <2>2. Shrunk(db, db', c) /\ db'.phase[c] # "live"
    BY <1>11, DropStepShrinks, NotDropping, Zenon
  <2> QED
    BY <2>1, <2>2, QuietIds, Zenon DEF Shrunk
<1>12. CASE UNCHANGED vars
  <2>1. /\ disk' = disk /\ used' = used /\ blocks' = blocks /\ pending' = pending
        /\ sequence' = sequence /\ failed' = failed /\ db' = db
    BY <1>12, Zenon DEF vars, ids
  <2> QED
    BY <2>1, QuietIds, Zenon DEF SameAt
<1> QED
  BY <1>1, <1>2, <1>3, <1>4, <1>5, <1>6, <1>7, <1>8, <1>9, <1>10, <1>11, <1>12, Zenon DEF Next

(* A commit that succeeds moves no collection's next id. *)
LEMMA PublishNext ==
  ASSUME Types, Standing, Ided, ~failed, db' \in Tree, db'.seq = Flushed.seq,
         blocks' = Merged, pending' = Nothing, sequence' = NoSequence,
         NEW c \in Colls, db.phase[c] = "live"
  PROVE  OpenSequence(c)'.next = OpenSequence(c).next
<1>1. /\ c \in DOMAIN db.seq /\ Bounded(OpenSequence(c), db.seq[c]) /\ Memory
  BY Zenon DEF Standing, TidyAt, Ided, WorkingAt, Numbered
<1>2. SeqFlushed(db, db')
  BY FlushedIs, Zenon DEF SeqFlushed
<1>3. AfterFlush(db', c).next = OpenSequence(c).next
  BY <1>1, <1>2, FlushNumbers, Zenon
<1>4. sequence'.c # c /\ c \notin DOMAIN pending'
  BY NothingIs, CollectionsAssumption DEF NoSequence, Colls
<1>5. OpenSequence(c)' = [c |-> c, next |-> BlockOf(c)'.next, reserved |-> BlockOf(c)'.reserved,
                          dirty |-> FALSE]
  BY <1>4, Zenon DEF OpenSequence
<1>6. BlockOf(c)' = AfterFlush(db', c)
  <2>1. /\ DOMAIN Merged = DOMAIN blocks \cup DOMAIN PendingAfterFlush
        /\ \A d \in DOMAIN Merged :
             Merged[d] = IF d \in DOMAIN PendingAfterFlush THEN PendingAfterFlush[d] ELSE blocks[d]
    BY Zenon DEF Merged
  <2> QED
    BY <1>4, <2>1, Zenon DEF BlockOf, AfterFlush
<1> QED
  BY <1>3, <1>5, <1>6
=============================================================================
