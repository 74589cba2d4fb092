---------------------------- MODULE IndexBuild ----------------------------
(***************************************************************************)
(* The scalar indexes of one collection (core/engine/src/collections/      *)
(* catalog.rs): created BUILDING and empty, filled either by bounded steps *)
(* the caller commits or by one sorted build that commits its own runs,    *)
(* kept up by every row write meanwhile, published READY, replaced by      *)
(* REINDEX (lang/src/compile/plan.rs) and dropped in steps.  Queries       *)
(* refuse an index that is not READY.  Row writes read the descriptors     *)
(* through a list the handle caches, index_list_cache.                     *)
(***************************************************************************)
EXTENDS Integers, FiniteSets, Functions

CONSTANTS
  MaxSeq,      \* bound: no row id past this one is handed out
  MaxVal,      \* values of the indexed column are 1..MaxVal, and Null
  MaxIndex,    \* bound: indexes ever created
  UserNames,   \* the names a caller gives indexes
  Batch,       \* the largest batch a build or drop step is given
  Calls,       \* bound: the index calls made, out of IndexCalls
  Outcomes     \* what a commit may do, out of CommitOutcomes

IndexCalls     == {"step", "sorted", "reindex", "drop"}
CommitOutcomes == {"ok", "lost", "published"}

ASSUME IndexBuildAssumption ==
  /\ MaxSeq \in Nat /\ MaxVal \in Nat /\ MaxIndex \in Nat /\ Batch \in Nat \ {0}
  /\ Calls \subseteq IndexCalls /\ Outcomes \subseteq CommitOutcomes

VARIABLES
  db,       \* the working tree
  disk,     \* the tree of the last published commit
  cache,    \* index_list_cache: whether there is one, descriptors by index
  sorting,  \* the sorted build under way: its index and what it has put
  reindex,  \* the REINDEX under way: the index it rebuilds and where it is
  user,     \* user_writes_pending
  failed    \* failed: only rollback and reopen are left

vars == <<db, disk, cache, sorting, reindex, user, failed>>

Seqs    == 1..MaxSeq
Indexes == 1..MaxIndex

(* scalar_key encodes null as the byte 0, below every value. *)
Null  == 0
Vals  == 0..MaxVal
NoRow == -1

Entry == Vals \X Seqs   \* a key of an index: the encoded value, then the row id

(* The names of indexes: a caller's, REINDEX's temporary and retired ones. *)
Named(n)     == <<"user", n>>
Temporary(i) == <<"__reindex", i>>
Retired(i)   == <<"__reindex_retired", i>>
NoName       == <<"none", 0>>
Names == {Named(n) : n \in UserNames}
           \cup {Temporary(i) : i \in Indexes} \cup {Retired(i) : i \in Indexes}

NoIndex == [state |-> "none", after |-> 0, root |-> 0, unique |-> FALSE, name |-> NoName]
NoList  == [valid |-> FALSE, list |-> [i \in {} |-> NoIndex]]
NoSort  == [id |-> 0, put |-> {}]
NoStmt  == [old |-> 0, at |-> "none"]

(* IndexInfo; its tree's root page is kept only as there being a tree. *)
IndexInfo == [state: {"none", "building", "ready", "dropping"}, after: Nat,
              root: {0, 1}, unique: BOOLEAN, name: Names \cup {NoName}]

EmptyFile ==
  [rows  |-> [s \in Seqs |-> NoRow], next |-> 1, ids |-> 1,
   ix    |-> [i \in Indexes |-> NoIndex], posts |-> [i \in Indexes |-> {}],
   names |-> [n \in Names |-> 0]]

Init ==
  /\ db = EmptyFile /\ disk = EmptyFile
  /\ cache = NoList /\ sorting = NoSort /\ reindex = NoStmt
  /\ user = FALSE /\ failed = FALSE

Idle == ~failed /\ sorting = NoSort /\ reindex = NoStmt

Rows(tree)  == {s \in Seqs : tree.rows[s] # NoRow}
Exact(tree) == {<<tree.rows[s], s>> : s \in Rows(tree)}

(* list_indexes: the descriptors of the collection. *)
Listed(tree) == {i \in DOMAIN tree.ix : tree.ix[i].state # "none"}
ListIndexes(tree) == Restrict(tree.ix, Listed(tree))

(* check_unique: another row's entry has this value, null excepted. *)
Clashes(posts, e) == e[1] # Null /\ \E o \in posts : o[1] = e[1] /\ o[2] # e[2]
----------------------------------------------------------------------------
(* The commit at the end of a call's transaction, with its three outcomes. *)
Publish(tree) ==
  \/ "ok" \in Outcomes /\ disk' = tree /\ failed' = FALSE
  \/ "lost" \in Outcomes /\ disk' = disk /\ failed' = TRUE
  \/ "published" \in Outcomes /\ disk' = tree /\ failed' = TRUE

Commit ==
  /\ Idle
  /\ Publish(db) /\ user' = FALSE
  /\ UNCHANGED <<db, cache, sorting, reindex>>

(* A call fails part way; the statement it belongs to is over. *)
IoError ==
  /\ ~failed /\ Outcomes # {"ok"}
  /\ failed' = TRUE /\ sorting' = NoSort /\ reindex' = NoStmt
  /\ UNCHANGED <<db, disk, cache, user>>

(* rollback, or a crash followed by a reopen. *)
Rollback ==
  /\ db' = disk /\ cache' = NoList /\ sorting' = NoSort /\ reindex' = NoStmt
  /\ user' = FALSE /\ failed' = FALSE
  /\ UNCHANGED disk
----------------------------------------------------------------------------
(* Row writes. *)

(* take_index_list: the cached list while no descriptor changed, or a read. *)
TakeIndexList == IF cache.valid THEN cache.list ELSE ListIndexes(db)

(* The entry of row s with value v, none for a row that is not there. *)
EntryOf(s, v) == IF v = NoRow THEN {} ELSE {<<v, s>>}

(* The indexes of the list whose entry for the row changes. *)
Maintained(list, old, new) ==
  {i \in DOMAIN list : list[i].state # "dropping" /\ old # new}

(* index_put into a list's descriptor: without a root a tree is created,    *)
(* whatever the index held.                                                 *)
PostsPut(i, desc, gone, new) ==
  IF new = {} THEN db.posts[i] \ gone
  ELSE IF desc.root = 0 THEN new ELSE (db.posts[i] \ gone) \cup new

(* The indexes whose descriptor index_put rewrites: their root moved. *)
Rooted(list, ids, new) == {i \in ids : new # {} /\ list[i].root = 0}

(* maintain_indexes and the row's own put or delete.  A unique violation    *)
(* fails the handle.  save_index writes the list's copy of a descriptor and *)
(* announces it, so the list is not given back to the cache.                *)
WriteRow(s, new) ==
  LET old    == db.rows[s]
      list   == TakeIndexList
      ids    == Maintained(list, old, new)
      gone   == EntryOf(s, old)
      put    == EntryOf(s, new)
      moved  == Rooted(list, ids, put)
      clash  == \E i \in ids : list[i].unique /\ \E e \in put : Clashes(db.posts[i], e)
  IN IF clash
     THEN failed' = TRUE /\ UNCHANGED <<db, cache>>
     ELSE /\ db' = [db EXCEPT
               !.rows[s] = new,
               !.next = IF s = db.next THEN s + 1 ELSE @,
               !.ix = [i \in Indexes |-> IF i \in moved THEN [list[i] EXCEPT !.root = 1] ELSE @[i]],
               !.posts = [i \in Indexes |->
                            IF i \in ids THEN PostsPut(i, list[i], gone, put) ELSE @[i]]]
          /\ cache' = IF moved = {} THEN [valid |-> TRUE, list |-> list] ELSE NoList
          /\ UNCHANGED failed

Insert(v) ==
  /\ Idle /\ db.next \in Seqs
  /\ WriteRow(db.next, v) /\ user' = TRUE
  /\ UNCHANGED <<disk, sorting, reindex>>

Update(s, v) ==
  /\ Idle /\ s \in Rows(db)
  /\ WriteRow(s, v) /\ user' = TRUE
  /\ UNCHANGED <<disk, sorting, reindex>>

Delete(s) ==
  /\ Idle /\ s \in Rows(db)
  /\ WriteRow(s, NoRow) /\ user' = TRUE
  /\ UNCHANGED <<disk, sorting, reindex>>
----------------------------------------------------------------------------
(* Creating, and building in steps. *)

(* create_index_full *)
Created(tree, name, unique) ==
  [tree EXCEPT !.ids = @ + 1,
               !.ix[tree.ids] = [state |-> "building", after |-> 0, root |-> 0,
                                 unique |-> unique, name |-> name],
               !.names[name] = tree.ids]

(* save_index calls index_descriptors_changed: the cached list is dropped. *)
CacheAfterCreate == NoList

CreateIndex(name, unique) ==
  /\ Idle /\ db.names[name] = 0 /\ db.ids \in Indexes
  /\ db' = Created(db, name, unique) /\ cache' = CacheAfterCreate
  /\ UNCHANGED <<disk, sorting, reindex, user, failed>>

MutAhead(i) == {s \in Rows(db) : s > db.ix[i].after + 1}

(* The rows a build step may read: those past its cursor. *)
Ahead(i) == {s \in Rows(db) : s > db.ix[i].after}

MutStepClashes(i, new) ==
  db.ix[i].unique /\ \E e \in new : Clashes(new, e)

StepClashes(i, new) ==
  db.ix[i].unique /\ \E e \in new : Clashes(db.posts[i] \cup new, e)

(* build_index_step with the cursor ending at row `last`: READY when the    *)
(* rows ended within the batch.                                             *)
BuildStep(i, b, last) ==
  /\ "step" \in Calls /\ Idle /\ db.ix[i].state = "building"
  /\ LET chunk == {s \in Ahead(i) : s <= last}
         new   == {<<db.rows[s], s>> : s \in chunk}
         end   == chunk = Ahead(i)
     IN /\ IF end THEN Cardinality(chunk) <= b /\ last = MaxSeq
           ELSE Cardinality(chunk) = b /\ last \in chunk
        /\ IF StepClashes(i, new)
           THEN failed' = TRUE /\ UNCHANGED <<db, cache>>
           ELSE /\ db' = [db EXCEPT
                     !.posts[i] = @ \cup new,
                     !.ix[i] = [@ EXCEPT !.root = IF chunk = {} THEN db.ix[i].root ELSE 1,
                                         !.state = IF end THEN "ready" ELSE "building",
                                         !.after = IF end THEN 0 ELSE last]]
                /\ cache' = NoList
                /\ UNCHANGED failed
  /\ UNCHANGED <<disk, sorting, reindex, user>>
----------------------------------------------------------------------------
(* The sorted build, build_index_to_ready.  No other call runs meanwhile.   *)

(* Refused while the caller has writes pending; what the engine itself left *)
(* is committed first.                                                      *)
SortedBegin(i) ==
  /\ "sorted" \in Calls /\ Idle /\ ~user /\ db.ix[i].state = "building"
  /\ Publish(db)
  /\ sorting' = IF failed' THEN NoSort ELSE [id |-> i, put |-> {}]
  /\ UNCHANGED <<db, cache, reindex, user>>

Below(e, f) == e[1] < f[1] \/ (e[1] = f[1] /\ e[2] < f[2])

(* What the build has put once its stream has passed entry e. *)
Upto(e) == {f \in Exact(db) : f = e \/ Below(f, e)}

(* Two entries of one value are next to each other in the stream, and the   *)
(* value before the group is carried over the seam.                         *)
Duplicate(put, group) == \E e \in group : Clashes(put \cup group, e)

Put(tree, i, group) ==
  [tree EXCEPT !.posts[i] = @ \cup group,
               !.ix[i] = [@ EXCEPT !.root = IF group = {} THEN tree.ix[i].root ELSE 1]]

(* One run of the stream, up to entry e, committed while BUILDING. *)
SortedRun(e) ==
  /\ ~failed /\ sorting # NoSort
  /\ e \in Exact(db) \ sorting.put
  /\ LET i == sorting.id IN
       /\ Upto(e) # Exact(db)
       /\ ~(db.ix[i].unique /\ Duplicate(sorting.put, Upto(e) \ sorting.put))
       /\ db' = Put(db, i, Upto(e))
       /\ Publish(Put(db, i, Upto(e)))
       /\ sorting' = IF failed' THEN NoSort ELSE [sorting EXCEPT !.put = Upto(e)]
       /\ reindex' = IF failed' THEN NoStmt ELSE reindex
  /\ cache' = NoList
  /\ UNCHANGED user

(* The page-WAL refused the run: roll back and sort again with half of it. *)
SortedRefused ==
  /\ ~failed /\ sorting # NoSort /\ sorting.put # {}
  /\ db' = disk /\ cache' = NoList /\ sorting' = [sorting EXCEPT !.put = {}]
  /\ UNCHANGED <<disk, reindex, user, failed>>

Finished(tree, i) == [tree EXCEPT !.ix[i] = [@ EXCEPT !.state = "ready", !.after = 0]]

(* The last run, and READY, in one commit. *)
SortedEnd ==
  /\ ~failed /\ sorting # NoSort
  /\ LET i == sorting.id IN
       /\ ~(db.ix[i].unique /\ Duplicate(sorting.put, Exact(db) \ sorting.put))
       /\ db' = Finished(Put(db, i, Exact(db)), i)
       /\ Publish(Finished(Put(db, i, Exact(db)), i))
  /\ sorting' = NoSort
  /\ reindex' = IF failed' THEN NoStmt ELSE reindex
  /\ cache' = NoList
  /\ UNCHANGED user

(* The duplicate is met: what was put since the last run stays uncommitted, *)
(* nothing when the run was being packed.  CREATE INDEX rolls back and      *)
(* drops the index; a caller of the engine may go on.                       *)
SortedDuplicate ==
  /\ ~failed /\ sorting # NoSort
  /\ LET i == sorting.id IN
       /\ db.ix[i].unique /\ Duplicate(sorting.put, Exact(db) \ sorting.put)
       /\ \/ UNCHANGED db
          \/ \E e \in Exact(db) \ sorting.put :
               /\ ~Duplicate(sorting.put, Upto(e) \ sorting.put)
               /\ db' = Put(db, i, Upto(e))
  /\ sorting' = NoSort /\ reindex' = NoStmt /\ cache' = NoList
  /\ UNCHANGED <<disk, user, failed>>
----------------------------------------------------------------------------
(* Dropping. *)

(* begin_drop_index: a BUILDING index is cancelled, a READY one retired. *)
BeginDrop(i) ==
  /\ "drop" \in Calls /\ Idle /\ db.ix[i].state # "none"
  /\ db' = [db EXCEPT !.ix[i] = [@ EXCEPT !.state = "dropping", !.after = 0]]
  /\ cache' = NoList
  /\ UNCHANGED <<disk, sorting, reindex, user, failed>>

MutForgotten(tree, i) ==
  [tree EXCEPT !.posts[i] = {}, !.ix[i] = NoIndex,
               !.names = [n \in Names |-> IF n[1] = "user" THEN 0 ELSE @[n]]]

(* The descriptor and the name go with the last entry. *)
Forgotten(tree, i) ==
  [tree EXCEPT !.posts[i] = {}, !.ix[i] = NoIndex, !.names[tree.ix[i].name] = 0]

(* drop_index_step: a batch of entries, fewer when the allowance is half    *)
(* spent; the last one takes the index with it.                             *)
DropStep(i, b) ==
  /\ "drop" \in Calls /\ Idle /\ db.ix[i].state = "dropping"
  /\ \E gone \in SUBSET db.posts[i] :
       /\ Cardinality(gone) <= b /\ (gone = {} => db.posts[i] = {})
       /\ IF gone = db.posts[i]
          THEN db' = Forgotten(db, i) /\ cache' = NoList
          ELSE db' = [db EXCEPT !.posts[i] = @ \ gone] /\ UNCHANGED cache
  /\ UNCHANGED <<disk, sorting, reindex, user, failed>>
----------------------------------------------------------------------------
(* REINDEX.  Each of its steps ends in a commit. *)

At(step) == ~failed /\ sorting = NoSort /\ reindex.at = step

Step(tree, next) ==
  /\ db' = tree /\ cache' = NoList
  /\ Publish(tree)
  /\ reindex' = IF failed' THEN NoStmt ELSE next
  /\ user' = FALSE

Reindex(o) ==
  /\ "reindex" \in Calls /\ Idle /\ db.ix[o].state = "ready"
  /\ Step(db, [old |-> o, at |-> "clean"])
  /\ UNCHANGED sorting

(* What an interrupted drop or REINDEX left is dropped first. *)
Stale == {i \in Indexes : \/ db.ix[i].state = "dropping"
                          \/ db.ix[i].state # "none" /\ db.ix[i].name = Temporary(reindex.old)}

ReindexClean ==
  /\ At("clean")
  /\ \E i \in Stale : Step(Forgotten(db, i), reindex)
  /\ UNCHANGED sorting

ReindexCreate ==
  /\ At("clean") /\ Stale = {} /\ db.ids \in Indexes
  /\ Step(Created(db, Temporary(reindex.old), db.ix[reindex.old].unique),
          [reindex EXCEPT !.at = "swap"])
  /\ sorting' = IF failed' THEN NoSort ELSE [id |-> db.ids, put |-> {}]

MutSwapped(tree, o, n) ==
  [tree EXCEPT !.ix[o].state = "dropping", !.ix[o].name = Retired(o), !.ix[n].name = tree.ix[o].name,
               !.names[tree.ix[n].name] = 0, !.names[Retired(o)] = o]

(* swap_index_names *)
Swapped(tree, o, n) ==
  [tree EXCEPT !.ix[o] = [@ EXCEPT !.state = "dropping", !.name = Retired(o)],
               !.ix[n] = [@ EXCEPT !.name = tree.ix[o].name],
               !.names[tree.ix[n].name] = 0, !.names[tree.ix[o].name] = n, !.names[Retired(o)] = o]

ReindexSwap ==
  /\ At("swap")
  /\ LET new == db.names[Temporary(reindex.old)] IN
       /\ db.ix[reindex.old].state = "ready" /\ db.ix[new].state = "ready"
       /\ Step(Swapped(db, reindex.old, new), [reindex EXCEPT !.at = "drop"])
  /\ UNCHANGED sorting

ReindexDrop ==
  /\ At("drop")
  /\ Step(Forgotten(db, reindex.old), NoStmt)
  /\ UNCHANGED sorting

Next ==
  \/ Commit \/ IoError \/ Rollback
  \/ \E v \in Vals : Insert(v)
  \/ \E s \in Seqs, v \in Vals : Update(s, v)
  \/ \E s \in Seqs : Delete(s)
  \/ \E n \in UserNames, u \in BOOLEAN : CreateIndex(Named(n), u)
  \/ \E i \in Indexes, b \in 1..Batch, last \in Seqs : BuildStep(i, b, last)
  \/ \E i \in Indexes : SortedBegin(i) \/ BeginDrop(i) \/ Reindex(i)
  \/ \E e \in Entry : SortedRun(e)
  \/ SortedRefused \/ SortedEnd \/ SortedDuplicate
  \/ \E i \in Indexes, b \in 1..Batch : DropStep(i, b)
  \/ ReindexClean \/ ReindexCreate \/ ReindexSwap \/ ReindexDrop

Spec == Init /\ [][Next]_vars
----------------------------------------------------------------------------
(* The trees a query may read: every published one, and this handle's own.  *)
Readable == {disk} \cup (IF failed THEN {} ELSE {db})

(* The state has its types; entries are only in a tree whose root the       *)
(* descriptor names.                                                        *)
TypeOK ==
  /\ \A t \in {db, disk} :
       /\ t.rows \in [Seqs -> Vals \cup {NoRow}] /\ t.next \in Nat /\ t.ids \in Nat
       /\ DOMAIN t.ix \subseteq Indexes /\ DOMAIN t.posts = DOMAIN t.ix
       /\ \A i \in DOMAIN t.ix :
            t.ix[i] \in IndexInfo /\ t.posts[i] \subseteq Entry /\ (t.posts[i] # {} => t.ix[i].root = 1)
       /\ \A n \in DOMAIN t.names : n \in Names /\ t.names[n] \in {0} \cup DOMAIN t.ix
  /\ sorting.id \in {0} \cup Indexes /\ sorting.put \subseteq Entry
  /\ reindex.old \in {0} \cup Indexes
  /\ user \in BOOLEAN /\ failed \in BOOLEAN

(* query_scalar answers from a READY index alone: it holds exactly one      *)
(* entry for every row, with the row's value, however the index was built   *)
(* and whatever was written, rolled back or lost meanwhile.  If it is       *)
(* unique, no two rows share a value but null, including rows written while *)
(* it was BUILDING and not all of its entries were there for check_unique   *)
(* to find.                                                                 *)
ReadyIsExact ==
  \A t \in Readable : \A i \in DOMAIN t.ix : t.ix[i].state = "ready" =>
    /\ t.posts[i] = Exact(t)
    /\ t.ix[i].unique =>
         \A r, s \in Rows(t) : t.rows[r] = t.rows[s] /\ t.rows[r] # Null => r = s

(* A BUILDING index never holds an entry of a row that is gone or changed,  *)
(* and its committed cursor has every row up to it: a resumed build need    *)
(* not look behind it.                                                      *)
BuildingIsResumable ==
  \A t \in Readable : \A i \in DOMAIN t.ix :
    t.ix[i].state = "building" =>
      /\ t.posts[i] \subseteq Exact(t)
      /\ {e \in Exact(t) : e[2] <= t.ix[i].after} \subseteq t.posts[i]

(* "the write-path index list cache is stale: a descriptor writer did not   *)
(* announce itself": the cached list is always what a read would return.    *)
CacheIsCurrent == ~failed /\ cache.valid => cache.list = ListIndexes(db)

(* Names and descriptors agree: "the old one's last drop step removes only  *)
(* its retired name, never the name the new index now holds"; an index that *)
(* is gone left no entry.                                                   *)
NamesAgree ==
  \A t \in Readable :
    /\ \A i \in DOMAIN t.ix : IF t.ix[i].state = "none" THEN t.posts[i] = {}
                              ELSE t.names[t.ix[i].name] = i
    /\ \A n \in DOMAIN t.names :
         t.names[n] # 0 => t.ix[t.names[n]].state # "none" /\ t.ix[t.names[n]].name = n

(* The catalogue is one: the index list the write path caches, the names    *)
(* and the descriptors say the same, and what an operation reads of them is *)
(* what one wrote.                                                          *)
CatalogueAgrees == TypeOK /\ CacheIsCurrent /\ NamesAgree

(* A name that is answered by a READY index is so in the next published     *)
(* state.                                                                   *)
NameKept ==
  \A n \in {Named(u) : u \in UserNames} :
     disk.names[n] # 0 /\ disk.ix[disk.names[n]].state = "ready" =>
       disk'.names[n] # 0 /\ disk'.ix[disk'.names[n]].state = "ready"
============================================================================
