---------------------------- MODULE Collections ----------------------------
(***************************************************************************)
(* The typed-collection layer of sekejap (core/engine/src/collections):    *)
(* what a writer handle (`Database`) keeps in memory beside the working    *)
(* tree it is changing.  Row ids come from a per-collection sequence that  *)
(* a Register file reserves in blocks; ids handed out by this handle are   *)
(* known to be live without reading them; the live row count is a delta    *)
(* written once per commit, or counted by a resumable backfill; a drop     *)
(* empties a collection's keyspaces in committed phases.  The page-WAL     *)
(* store below is what PageWal specifies: a commit succeeds, or fails with *)
(* its transaction lost, or fails after it was published, and a rollback   *)
(* or a reopen finds whichever it was.                                     *)
(***************************************************************************)
EXTENDS Integers, FiniteSets, FiniteSetsExt, Functions

CONSTANTS
  MaxColl,             \* bound: collections ever created
  Keys,                \* external keys
  MaxId,               \* bound: no row id past this one is handed out
  Block,               \* ROW_ID_BLOCK
  Register,            \* TRUE for a Register file, FALSE for a 0.18-format file
  DeletedIdentities,   \* DELETED_IDENTITIES
  Batch,               \* the largest budget a drop or backfill call is given
  Outcomes,            \* what a commit may do, out of CommitOutcomes
  Maintenance          \* bound: the resumable calls made, out of MaintenanceCalls

CommitOutcomes   == {"ok", "lost", "published"}
MaintenanceCalls == {"backfill", "drop"}

ASSUME CollectionsAssumption ==
  /\ MaxColl \in Nat /\ IsFiniteSet(Keys) /\ MaxId \in Nat /\ Block \in Nat \ {0}
  /\ DeletedIdentities \in Nat /\ Batch \in Nat \ {0}
  /\ Register \in BOOLEAN /\ Outcomes \subseteq CommitOutcomes
  /\ Maintenance \subseteq MaintenanceCalls

VARIABLES
  db,         \* the working tree
  disk,       \* the tree of the last published commit
  sequence,   \* Database.sequence: the open id accumulator
  blocks,     \* row_id_blocks: next id and reserved bound, as of a commit
  pending,    \* row_id_pending: the same, left by this transaction
  allocated,  \* allocated: the ids this handle handed out and not deleted
  counts,     \* row_counts: record read and delta of this transaction
  backfill,   \* row_count_backfill: where the counting walk stands
  dropping,   \* dropping: the collection being dropped, 0 when none
  user,       \* user_writes_pending
  failed,     \* failed: only rollback and reopen are left
  used        \* ids that were ever in a published tree

ids  == <<sequence, blocks, pending, allocated>>
rest == <<counts, backfill, dropping>>
vars == <<db, disk, ids, rest, user, failed, used>>

Colls == 1..MaxColl
Ids   == 1..MaxId

(* The phases of a drop in their order; "live" before, "none" after. *)
DropPhase == <<"indexes", "sidecars", "rows", "mappings", "descriptor">>
Phases    == Range(DropPhase)
PhasesAfter(p) ==
  {DropPhase[n] : n \in {m \in DOMAIN DropPhase : \E l \in 1..m - 1 : DropPhase[l] = p}}
NextPhase(p) == DropPhase[(CHOOSE n \in DOMAIN DropPhase : DropPhase[n] = p) + 1]

Nothing  == [x \in {} |-> 0]
Drop(f, x) == Restrict(f, DOMAIN f \ {x})
Set(f, x, v) == [y \in DOMAIN f \cup {x} |-> IF y = x THEN v ELSE f[y]]

NoSequence == [c |-> 0, next |-> 0, reserved |-> 0, dirty |-> FALSE]
NoBackfill == [c |-> 0, after |-> 0, counted |-> 0]

(* A file written before row counts existed: `n` empty collections without  *)
(* a record, each with one scalar index or none.                            *)
OldFile(n, indexed) ==
  [next    |-> n + 1,
   phase   |-> [c \in Colls |-> IF c <= n THEN "live" ELSE "none"],
   seq     |-> [c \in 1..n |-> 1],
   counted |-> FALSE,
   count   |-> Nothing,
   index   |-> [c \in Colls |-> IF c <= n /\ indexed THEN "ready" ELSE "none"],
   posts   |-> [c \in Colls |-> {}],
   cells   |-> [c \in Colls |-> {}],
   rows    |-> [c \in Colls |-> Nothing],
   maps    |-> [c \in Colls |-> Nothing]]

Init ==
  /\ \E n \in 0..MaxColl, indexed \in BOOLEAN : db = OldFile(n, indexed)
  /\ disk = db
  /\ sequence = NoSequence /\ blocks = Nothing /\ pending = Nothing /\ allocated = Nothing
  /\ counts = Nothing /\ backfill = NoBackfill /\ dropping = 0
  /\ user = FALSE /\ failed = FALSE
  /\ used = [c \in Colls |-> {}]

Live(c) == db.phase[c] = "live"
----------------------------------------------------------------------------
(* Row ids. *)

MutSequenceWritten(tree) ==
  IF sequence = NoSequence \/ ~sequence.dirty THEN tree
  ELSE [tree EXCEPT !.seq = Set(tree.seq, sequence.c,
          IF Register THEN sequence.reserved ELSE sequence.next)]

(* flush_sequence: the tree and row_id_pending once the open accumulator is *)
(* written.  A Register file writes only a bound this transaction raised.   *)
SequenceWritten(tree) ==
  IF sequence = NoSequence \/ (Register /\ ~sequence.dirty) THEN tree
  ELSE [tree EXCEPT !.seq = Set(tree.seq, sequence.c,
          IF Register THEN sequence.reserved ELSE sequence.next)]

PendingAfterFlush ==
  IF sequence = NoSequence \/ ~Register THEN pending
  ELSE Set(pending, sequence.c, [next |-> sequence.next, reserved |-> sequence.reserved])

(* The block `allocate` opens: this transaction's, else the last commit's,  *)
(* else what the file says.                                                 *)
BlockOf(c) ==
  IF c \in DOMAIN pending THEN pending[c]
  ELSE IF c \in DOMAIN blocks THEN blocks[c]
  ELSE [next |-> db.seq[c], reserved |-> db.seq[c]]

OpenSequence(c) ==
  IF sequence.c = c THEN sequence
  ELSE [c |-> c, next |-> BlockOf(c).next, reserved |-> BlockOf(c).reserved, dirty |-> FALSE]

Reserve(s) ==
  IF Register /\ s.next >= s.reserved
  THEN [s EXCEPT !.reserved = s.next + Block, !.dirty = TRUE]
  ELSE s

NextId(c) == OpenSequence(c).next

(* collection_span: a query sizes its bitmaps by it. *)
CollectionSpan(c) ==
  IF sequence.c = c THEN sequence.next ELSE BlockOf(c).next

NoteAllocated(a, c, id) ==
  LET e == IF c \in DOMAIN a THEN a[c] ELSE [from |-> id, next |-> id, deleted |-> {}]
  IN Set(a, c, [e EXCEPT !.next = IF id + 1 > e.next THEN id + 1 ELSE e.next])

MutLiveFromAfter(gone) == Max(gone)
LiveFromAfter(gone) == Max(gone) + 1

NoteDeleted(a, c, id) ==
  IF c \notin DOMAIN a \/ id \notin a[c].from..a[c].next - 1 THEN a
  ELSE LET gone == a[c].deleted \cup {id}
       IN Set(a, c, IF Cardinality(gone) > DeletedIdentities
                    THEN [a[c] EXCEPT !.from = LiveFromAfter(gone), !.deleted = {}]
                    ELSE [a[c] EXCEPT !.deleted = gone])

EndpointKnownLive(c, id) ==
  /\ c \in DOMAIN allocated
  /\ id \in allocated[c].from..allocated[c].next - 1
  /\ id \notin allocated[c].deleted
----------------------------------------------------------------------------
(* Row counts. *)

(* touch_row_count: only a collection with a record has its count kept. *)
Counted(c) ==
  \/ c \in DOMAIN counts
  \/ db.counted /\ dropping # c /\ c \in DOMAIN db.count

Note(c, n) ==
  IF ~Counted(c) THEN counts
  ELSE LET old == IF c \in DOMAIN counts THEN counts[c] ELSE [base |-> db.count[c], delta |-> 0]
       IN Set(counts, c, [old EXCEPT !.delta = @ + n])

MutBackfillAfterRemoval(c, id) == backfill

(* A row the counting walk has passed is taken back out of its total. *)
BackfillAfterRemoval(c, id) ==
  IF backfill.c = c /\ id <= backfill.after /\ backfill.counted > 0
  THEN [backfill EXCEPT !.counted = @ - 1]
  ELSE backfill

(* flush_row_counts *)
CountsWritten(tree) ==
  LET moved == {c \in DOMAIN counts : counts[c].delta # 0}
  IN [tree EXCEPT !.count =
       [c \in DOMAIN tree.count \cup moved |->
          IF c \in moved THEN counts[c].base + counts[c].delta ELSE tree.count[c]]]

(* row_count: what an unfiltered count answers without a walk. *)
RowCount(c) ==
  IF c \in DOMAIN counts THEN counts[c].base + counts[c].delta ELSE db.count[c]
HasRowCount(c) == c \in DOMAIN counts \/ (db.counted /\ c \in DOMAIN db.count)
----------------------------------------------------------------------------
(* Writes of the caller: each sets user_writes_pending on entry. *)

CreateCollection ==
  /\ ~failed /\ db.next \in Colls
  /\ db' = [db EXCEPT !.next = @ + 1, !.phase[db.next] = "live",
                      !.seq = Set(@, db.next, 1),
                      !.counted = TRUE, !.count = Set(@, db.next, 0)]
  /\ counts' = Drop(counts, db.next)
  /\ user' = TRUE
  /\ UNCHANGED <<disk, ids, backfill, dropping, failed, used>>

(* put / insert of a key that has no row: write_entity with no old entity. *)
PutNew(c, k) ==
  /\ ~failed /\ Live(c) /\ k \notin DOMAIN db.maps[c]
  /\ NextId(c) \in Ids
  /\ LET s    == Reserve(OpenSequence(c))
         id   == s.next
         tree == IF sequence.c = c THEN db ELSE SequenceWritten(db)
     IN /\ sequence' = [s EXCEPT !.next = id + 1]
        /\ pending' = IF sequence.c = c THEN pending ELSE PendingAfterFlush
        /\ allocated' = NoteAllocated(allocated, c, id)
        /\ db' = [tree EXCEPT !.posts[c] = IF db.index[c] = "ready" THEN @ \cup {id} ELSE @,
                              !.cells[c] = @ \cup {id},
                              !.rows[c] = Set(@, id, k),
                              !.maps[c] = Set(@, k, id)]
        /\ counts' = Note(c, 1)
  /\ user' = TRUE
  /\ UNCHANGED <<disk, blocks, backfill, dropping, failed, used>>

(* load_entity: the mapping's row is there and carries the key. *)
Loads(c, k) ==
  /\ k \in DOMAIN db.maps[c]
  /\ db.maps[c][k] \in DOMAIN db.rows[c] /\ db.rows[c][db.maps[c][k]] = k

(* put / update of a key that has a row keeps its id and changes no count. *)
Replace(c, k) ==
  /\ ~failed /\ Live(c) /\ Loads(c, k)
  /\ user' = TRUE
  /\ UNCHANGED <<db, disk, ids, rest, failed, used>>

Delete(c, k) ==
  /\ ~failed /\ Live(c) /\ Loads(c, k)
  /\ LET id == db.maps[c][k]
     IN /\ db' = [db EXCEPT !.posts[c] = IF db.index[c] = "ready" THEN @ \ {id} ELSE @,
                            !.cells[c] = @ \ {id},
                            !.rows[c] = Drop(@, id),
                            !.maps[c] = Drop(@, k)]
        /\ allocated' = NoteDeleted(allocated, c, id)
        /\ backfill' = BackfillAfterRemoval(c, id)
        /\ counts' = Note(c, -1)
  /\ user' = TRUE
  /\ UNCHANGED <<disk, sequence, blocks, pending, dropping, failed, used>>
----------------------------------------------------------------------------
(* The transaction's end. *)

(* What a commit hands to the store. *)
Flushed == CountsWritten(SequenceWritten(db))
MutMerged == [c \in DOMAIN blocks \cup DOMAIN PendingAfterFlush |->
                IF c \in DOMAIN blocks THEN blocks[c] ELSE PendingAfterFlush[c]]
Merged  == [c \in DOMAIN blocks \cup DOMAIN PendingAfterFlush |->
              IF c \in DOMAIN PendingAfterFlush THEN PendingAfterFlush[c] ELSE blocks[c]]

Publish(tree) ==
  /\ disk' = tree
  /\ used' = [c \in Colls |-> used[c] \cup DOMAIN tree.rows[c]]

(* The accumulators are written into the transaction and emptied whatever   *)
(* the store then answers; row_id_blocks follows only a success.            *)
Commit ==
  /\ ~failed
  /\ db' = Flushed /\ sequence' = NoSequence /\ counts' = Nothing /\ user' = FALSE
  /\ UNCHANGED <<allocated, backfill, dropping>>
  /\ \/ /\ "ok" \in Outcomes
        /\ Publish(Flushed) /\ blocks' = Merged /\ pending' = Nothing
        /\ UNCHANGED failed
     \/ /\ "lost" \in Outcomes
        /\ pending' = PendingAfterFlush /\ failed' = TRUE
        /\ UNCHANGED <<disk, blocks, used>>
     \/ /\ "published" \in Outcomes
        /\ Publish(Flushed) /\ pending' = PendingAfterFlush /\ failed' = TRUE
        /\ UNCHANGED blocks

(* An operation on the tree fails part way: nothing of it is read again. *)
IoError ==
  /\ ~failed /\ Outcomes # {"ok"}
  /\ failed' = TRUE
  /\ UNCHANGED <<db, disk, ids, rest, user, used>>

Dropping(tree) == {c \in Colls : tree.phase[c] \in Phases}
ScanDropping(tree) == IF Dropping(tree) = {} THEN 0 ELSE Min(Dropping(tree))

(* rollback: everything learned in the transaction goes; row_id_blocks stays. *)
Rollback ==
  /\ db' = disk
  /\ sequence' = NoSequence /\ pending' = Nothing /\ allocated' = Nothing
  /\ counts' = Nothing /\ backfill' = NoBackfill
  /\ dropping' = ScanDropping(disk)
  /\ user' = FALSE /\ failed' = FALSE
  /\ UNCHANGED <<disk, blocks, used>>

(* The process ends, or closes the handle, and the file is opened again. *)
Reopen ==
  /\ db' = disk
  /\ sequence' = NoSequence /\ pending' = Nothing /\ blocks' = Nothing /\ allocated' = Nothing
  /\ counts' = Nothing /\ backfill' = NoBackfill
  /\ dropping' = ScanDropping(disk)
  /\ user' = FALSE /\ failed' = FALSE
  /\ UNCHANGED <<disk, used>>
----------------------------------------------------------------------------
(* Counting an old file's rows. *)

Uncounted == {c \in Colls : Live(c) /\ ~(db.counted /\ c \in DOMAIN db.count)}

(* One collection's share of a backfill_row_counts call.  A call that goes  *)
(* on to the next collection does what a second call with the rest of its   *)
(* budget would do.                                                         *)
Backfill(budget) ==
  /\ ~failed /\ "backfill" \in Maintenance
  /\ backfill # NoBackfill \/ Uncounted # {}
  /\ LET at     == IF backfill # NoBackfill THEN backfill
                   ELSE [NoBackfill EXCEPT !.c = Min(Uncounted)]
         ahead  == {id \in DOMAIN db.rows[at.c] : id > at.after}
         walked == {id \in ahead : Cardinality({x \in ahead : x <= id}) <= budget}
         total  == at.counted + Cardinality(walked)
     IN IF Cardinality(walked) < budget
        THEN /\ db' = [db EXCEPT !.counted = TRUE, !.count = Set(@, at.c, total)]
             /\ counts' = Drop(counts, at.c)
             /\ backfill' = NoBackfill
        ELSE /\ backfill' = [c |-> at.c, after |-> Max(walked), counted |-> total]
             /\ UNCHANGED <<db, counts>>
  /\ UNCHANGED <<disk, ids, dropping, user, failed, used>>
----------------------------------------------------------------------------
(* Dropping a collection. *)

MarkDropping(tree, c) == [tree EXCEPT !.phase[c] = "indexes"]

MutDropAdmitted(c) == ~failed /\ Live(c) /\ dropping = 0

(* begin_drop_collection_mode: refused with the caller's writes pending and *)
(* while another drop runs.  What the engine itself left uncommitted is     *)
(* committed first, then the mark; each of the two commits may fail.        *)
DropAdmitted(c) == ~failed /\ ~user /\ Live(c) /\ dropping = 0

BeginDrop(c) ==
  /\ "drop" \in Maintenance /\ DropAdmitted(c)
  /\ sequence' = NoSequence /\ counts' = Nothing /\ pending' = Nothing
  /\ db' = MarkDropping(Flushed, c) /\ dropping' = c
  /\ \/ /\ "ok" \in Outcomes
        /\ Publish(MarkDropping(Flushed, c)) /\ blocks' = Merged
        /\ UNCHANGED failed
     \/ /\ "lost" \in Outcomes
        /\ \/ Publish(Flushed) /\ blocks' = Merged
           \/ UNCHANGED <<disk, used, blocks>>
        /\ failed' = TRUE
     \/ /\ "published" \in Outcomes
        /\ \/ Publish(MarkDropping(Flushed, c)) /\ blocks' = Merged
           \/ Publish(Flushed) /\ UNCHANGED blocks
        /\ failed' = TRUE
  /\ UNCHANGED <<allocated, backfill, user>>

(* One step takes the first `budget` entries of its keyspace, fewer when    *)
(* the WAL allowance is half spent.                                         *)
FirstEntries(S, budget) ==
  {T \in SUBSET S : Cardinality(T) = Min({budget, Cardinality(S)})}
SpentEntries(S, budget) ==
  {T \in SUBSET S : Cardinality(T) < Min({budget, Cardinality(S)}) /\ T # {}}

MutPhaseEnds(S, budget) == S # {} \/ Cardinality(S) < budget

(* A prefix phase ends when the step found fewer entries than its budget. *)
PhaseEnds(S, budget) == Cardinality(S) < budget

(* Remove entries of keyspace S: gone \in what goes, and whether the phase ends. *)
Removals(S, budget) ==
  {[gone |-> T, ends |-> PhaseEnds(S, budget)] : T \in FirstEntries(S, budget)}
    \cup {[gone |-> T, ends |-> FALSE] : T \in SpentEntries(S, budget)}

PhaseAfter(p, ends) == IF ends THEN NextPhase(p) ELSE p

DropIndexes(c, budget) ==
  /\ db.phase[c] = "indexes"
  /\ IF db.index[c] = "none"
     THEN db' = [db EXCEPT !.phase[c] = NextPhase("indexes")]
     ELSE \E T \in FirstEntries(db.posts[c], budget) \cup SpentEntries(db.posts[c], budget) :
            db' = [db EXCEPT !.posts[c] = @ \ T,
                             !.index[c] = IF T = db.posts[c] THEN "none" ELSE "dropping"]
  /\ UNCHANGED allocated

DropSidecars(c, budget) ==
  /\ db.phase[c] = "sidecars"
  /\ \E r \in Removals(db.cells[c], budget) :
       db' = [db EXCEPT !.cells[c] = @ \ r.gone, !.phase[c] = PhaseAfter("sidecars", r.ends)]
  /\ UNCHANGED allocated

DropRows(c, budget) ==
  /\ db.phase[c] = "rows"
  /\ \E r \in Removals(DOMAIN db.rows[c], budget) :
       /\ db' = [db EXCEPT !.rows[c] = Restrict(@, DOMAIN @ \ r.gone),
                           !.phase[c] = PhaseAfter("rows", r.ends)]
       /\ allocated' = FoldSet(LAMBDA id, a : NoteDeleted(a, c, id), allocated, r.gone)

DropMappings(c, budget) ==
  /\ db.phase[c] = "mappings"
  /\ \E r \in Removals(DOMAIN db.maps[c], budget) :
       db' = [db EXCEPT !.maps[c] = Restrict(@, DOMAIN @ \ r.gone),
                        !.phase[c] = PhaseAfter("mappings", r.ends)]
  /\ UNCHANGED allocated

(* drop_collection_step in every phase but the last; the caller commits. *)
DropStep(c, budget) ==
  /\ ~failed
  /\ \/ DropIndexes(c, budget) \/ DropSidecars(c, budget)
     \/ DropRows(c, budget) \/ DropMappings(c, budget)
  /\ UNCHANGED <<disk, sequence, blocks, pending, rest, user, failed, used>>

(* The range probes of the last step. *)
KeyspacesEmpty(tree, c) ==
  /\ tree.index[c] = "none" /\ tree.posts[c] = {} /\ tree.cells[c] = {}
  /\ DOMAIN tree.rows[c] = {} /\ DOMAIN tree.maps[c] = {}

DropDescriptor(c) ==
  /\ ~failed /\ db.phase[c] = "descriptor"
  /\ IF KeyspacesEmpty(db, c)
     THEN /\ db' = [db EXCEPT !.phase[c] = "none", !.seq = Drop(@, c), !.count = Drop(@, c)]
          /\ sequence' = IF sequence.c = c THEN NoSequence ELSE sequence
          /\ blocks' = Drop(blocks, c) /\ pending' = Drop(pending, c)
          /\ allocated' = Drop(allocated, c)
          /\ counts' = Drop(counts, c)
          /\ backfill' = IF backfill.c = c THEN NoBackfill ELSE backfill
          /\ dropping' = 0
          /\ UNCHANGED failed
     ELSE failed' = TRUE /\ UNCHANGED <<db, ids, rest>>
  /\ UNCHANGED <<disk, user, used>>

Next ==
  \/ CreateCollection
  \/ \E c \in Colls, k \in Keys : PutNew(c, k) \/ Replace(c, k) \/ Delete(c, k)
  \/ Commit \/ IoError \/ Rollback \/ Reopen
  \/ \E b \in 1..Batch : Backfill(b)
  \/ \E c \in Colls : BeginDrop(c) \/ DropDescriptor(c)
  \/ \E c \in Colls, b \in 1..Batch : DropStep(c, b)

Spec == Init /\ [][Next]_vars
----------------------------------------------------------------------------
(* The state has its types: in particular no count ever leaves the u64 domain. *)
TypeOK ==
  /\ \A t \in {db, disk} :
       /\ t.next \in 1..MaxColl + 1
       /\ t.phase \in [Colls -> {"live", "none"} \cup Phases]
       /\ DOMAIN t.seq \subseteq Colls /\ \A c \in DOMAIN t.seq : t.seq[c] \in Nat \ {0}
       /\ DOMAIN t.count \subseteq Colls /\ \A c \in DOMAIN t.count : t.count[c] \in Nat
       /\ t.index \in [Colls -> {"none", "ready", "dropping"}]
       /\ \A c \in Colls :
            /\ t.posts[c] \subseteq Ids /\ t.cells[c] \subseteq Ids
            /\ DOMAIN t.rows[c] \subseteq Ids /\ Range(t.rows[c]) \subseteq Keys
            /\ DOMAIN t.maps[c] \subseteq Keys /\ Range(t.maps[c]) \subseteq Ids
  /\ \A c \in DOMAIN counts : counts[c].base + counts[c].delta \in Nat
  /\ backfill.counted \in Nat

(* "An id is still never handed out twice": the id the next insert would    *)
(* take is that of no row, and of no row any published state ever held.     *)
IdsNeverReused ==
  ~failed => \A c \in Colls : Live(c) => NextId(c) \notin used[c] \cup DOMAIN db.rows[c]

(* collection_span lies above every row a query of this handle can meet,    *)
(* and the counter in the file above every row a snapshot can meet: both    *)
(* size per-sequence bitmaps before a row is read.                          *)
SpanCovers ==
  /\ ~failed => \A c \in Colls : Live(c) =>
       \A id \in DOMAIN db.rows[c] : id < CollectionSpan(c)
  /\ \A c \in Colls : disk.phase[c] = "live" =>
       \A id \in DOMAIN disk.rows[c] : id < disk.seq[c]

(* External keys and rows point at each other, so load_entity never meets   *)
(* a missing row or another row's key; a published tree is as consistent    *)
(* as the working one, an index holds exactly the rows, and every row is    *)
(* below the span its readers size their bitmaps by.                        *)
RowsConsistent ==
  /\ TypeOK /\ SpanCovers
  /\ \A t \in {disk} \cup (IF failed THEN {} ELSE {db}) : \A c \in Colls :
       t.phase[c] = "live" =>
         /\ \A k \in DOMAIN t.maps[c] :
              t.maps[c][k] \in DOMAIN t.rows[c] /\ t.rows[c][t.maps[c][k]] = k
         /\ \A id \in DOMAIN t.rows[c] :
              t.rows[c][id] \in DOMAIN t.maps[c] /\ t.maps[c][t.rows[c][id]] = id
         /\ t.cells[c] = DOMAIN t.rows[c]
         /\ t.posts[c] = IF t.index[c] = "ready" THEN DOMAIN t.rows[c] ELSE {}

(* The count answered without a walk is the number of rows, in the open     *)
(* transaction and in every published tree a crash may fall back to.        *)
CountExact ==
  /\ ~failed => \A c \in Colls : Live(c) /\ HasRowCount(c) =>
       RowCount(c) = Cardinality(DOMAIN db.rows[c])
  /\ \A c \in Colls : disk.phase[c] = "live" /\ c \in DOMAIN disk.count =>
       disk.count[c] = Cardinality(DOMAIN disk.rows[c])

(* An endpoint this handle takes for live without reading it has its row. *)
KnownLiveIsThere ==
  ~failed => \A c \in Colls, id \in Ids :
    EndpointKnownLive(c, id) => id \in DOMAIN db.rows[c]

(* A published drop has emptied every keyspace of the phases behind it and  *)
(* a collection without a descriptor has left nothing: a crash between any  *)
(* two steps resumes from the phase alone.  "At most one drop in flight",   *)
(* whatever is rolled back or reopened.                                     *)
DropResumable ==
  /\ Cardinality(Dropping(disk)) <= 1
  /\ \A c \in Colls :
       LET at(p) == disk.phase[c] \in {"none"} \cup PhasesAfter(p)
       IN /\ at("indexes") => disk.index[c] = "none" /\ disk.posts[c] = {}
          /\ at("sidecars") => disk.cells[c] = {}
          /\ at("rows") => DOMAIN disk.rows[c] = {}
          /\ at("mappings") => DOMAIN disk.maps[c] = {}
          /\ disk.phase[c] = "none" => c \notin DOMAIN disk.seq \cup DOMAIN disk.count

(* Law 3: the commit that publishes the DROPPING mark removes nothing;      *)
(* after it the published phase only moves forward and no row comes back.   *)
DropFreezes ==
  [][\A c \in Colls :
       /\ disk.phase[c] = "live" /\ disk'.phase[c] # "live" =>
            /\ disk'.phase[c] = "indexes"
            /\ disk'.posts[c] = disk.posts[c] /\ disk'.cells[c] = disk.cells[c]
            /\ disk'.rows[c] = disk.rows[c] /\ disk'.maps[c] = disk.maps[c]
       /\ disk.phase[c] \in Phases =>
            /\ disk'.phase[c] \in {disk.phase[c], "none"} \cup PhasesAfter(disk.phase[c])
            /\ DOMAIN disk'.rows[c] \subseteq DOMAIN disk.rows[c]]_vars
====
