------------------------------- MODULE Graph -------------------------------
(***************************************************************************)
(* The edges of one writable handle (core/engine/src/index/graph): each    *)
(* edge is a primary key and a reverse one, the ends of all edges of a     *)
(* label are filed in endpoint sets, parallel edges carry an id no other   *)
(* edge ever had, an edge table owns a label and keeps a key over its      *)
(* edges, and deleting a row or dropping a collection takes the edges of   *)
(* its rows.  A label stands for a (context, edge type) pair.              *)
(***************************************************************************)
EXTENDS Integers, Sequences, SequencesExt, FiniteSetsExt, Functions

CONSTANTS
  Rows,        \* entity ids, numbered in key order
  Home,        \* Home[r]: the collection of row r
  Labels,      \* labels, numbered in key order
  Tuples,      \* <<source, label, destination>>: the edges callers write
  Bags,        \* property bags
  OldRows,     \* the rows the file holds at first
  OldEdges,    \* its edges: those of a release older than the endpoint sets
  TableLabels, \* labels not registered yet: those an edge table may be bound to
  TableEnds,   \* the collections the two ends of the edge table reference
  TableKeys,   \* primary keys the edge table may declare; none: no edge table
  Register,    \* whether the file's catalogue is the Register
  IdBlock,     \* ROW_ID_BLOCK: edge ids reserved at a time in a Register file
  MaxId,       \* bound: no edge id past this one is handed out
  MemoSize,    \* ENDPOINT_MEMO
  MaxCascade,  \* MAX_CASCADE: edges a row's removal may take
  Batch,       \* the largest batch a drop or backfill step is given
  Calls,       \* bound: the calls made, out of GraphCalls
  Outcomes     \* what a commit may do, out of CommitOutcomes

GraphCalls     == {"rows", "put", "create", "link", "many", "remove", "update", "table", "drop", "backfill"}
CommitOutcomes == {"ok", "lost", "published"}

Table == "edges"   \* the collection that is the edge table
Colls == Range(Home) \cup {Table}

ASSUME GraphAssumption ==
  /\ Rows \subseteq Nat \ {0} /\ DOMAIN Home = Rows /\ Labels \subseteq Nat \ {0}
  /\ \A q, r, s \in Rows : q < r /\ r < s /\ Home[q] = Home[s] => Home[r] = Home[q]
  /\ Tuples \subseteq Rows \X Labels \X Rows /\ OldEdges \subseteq Tuples /\ OldRows \subseteq Rows
  /\ \A t \in OldEdges : {t[1], t[3]} \subseteq OldRows
  /\ TableLabels \subseteq Labels /\ OldEdges \cap (Rows \X TableLabels \X Rows) = {}
  /\ \A key \in TableKeys : key = {} \/ key \cap {"source", "destination"} # {}
  /\ Bags \subseteq Nat /\ {IdBlock, MaxId, MaxCascade, Batch} \subseteq Nat \ {0} /\ MemoSize \in Nat
  /\ Calls \subseteq GraphCalls /\ Outcomes \subseteq CommitOutcomes

VARIABLES
  db,      \* the working tree
  disk,    \* the tree of the last published commit
  mem,     \* what the handle remembers
  failed,  \* failed: only rollback and reopen are left
  work,    \* history: the transaction holds writes of the caller
  given    \* history: the edge ids a published tree ever held

vars == <<db, disk, mem, failed, work, given>>

(* An edge <<source, label, destination, id>>; the id of a tuple's own edge *)
(* is 0 and is not written.                                                 *)
Of(k)     == <<k[1], k[2], k[3]>>
Edge(t, i) == <<t[1], t[2], t[3], i>>
Before(j, k) == \E n \in DOMAIN j : j[n] < k[n] /\ \A m \in 1..n - 1 : j[m] = k[m]
InOrder(ks) == SetToSortSeq(ks, Before)

(* The two endpoint keys of an edge, and all those a set of edges files. *)
Out == 0
In  == 1
OutEnd(k) == <<k[2], Out, k[1]>>
InEnd(k)  == <<k[2], In, k[3]>>
Ends(ks)  == UNION {{OutEnd(k), InEnd(k)} : k \in ks}

NoKey  == <<0, 0, 0, 0>>
NoDrop == [of |-> "none", cascade |-> FALSE, last |-> FALSE]
Unread == -1   \* bound_edge_types before it is read; 0 when no label is bound

(* A file before the first write: no edges, or those of an older release. *)
OldFile ==
  LET ks == {Edge(t, 0) : t \in OldEdges} IN
  [rows  |-> OldRows, born |-> OldRows,
   edges |-> [k \in ks |-> Min(Bags)], back |-> ks, ends |-> {}, bit |-> FALSE,
   idbit |-> FALSE, next |-> 0,
   types |-> Labels \ TableLabels, declared |-> FALSE, key |-> {}, bound |-> 0,
   drop  |-> NoDrop, gone |-> {},
   missed |-> {}]   \* history: see Tracked

(* A handle just opened or rolled back. *)
Fresh ==
  [next |-> 0, block |-> <<>>, dirty |-> FALSE,
   state |-> "unknown", at |-> NoKey, memo |-> {}, live |-> {},
   bound |-> Unread, dropAt |-> NoKey, user |-> FALSE]

Init ==
  /\ db = OldFile /\ disk = db /\ mem = Fresh
  /\ failed = FALSE /\ work = FALSE /\ given = {}
----------------------------------------------------------------------------
(* Every operation maps a tree and the handle's memory to new ones. *)

Both(t, m) == [t |-> t, m |-> m]

(* endpoint_maintenance: a file without edges starts a set that is complete. *)
Maintained(t, m) ==
  IF t.bit \/ m.state # "unknown" THEN [t |-> t, m |-> m, on |-> t.bit \/ m.state = "yes"]
  ELSE IF DOMAIN t.edges = {} /\ t.back = {}
  THEN [t |-> [t EXCEPT !.bit = TRUE], m |-> [m EXCEPT !.state = "yes"], on |-> TRUE]
  ELSE [t |-> t, m |-> [m EXCEPT !.state = "no"], on |-> FALSE]

(* insert_endpoint_keys: a key this transaction has put is not put again. *)
Filed(t, m, ends) ==
  Both([t EXCEPT !.ends = @ \cup (Range(ends) \ m.memo)],
       [m EXCEPT !.memo = FoldLeft(LAMBDA memo, e : IF Cardinality(memo) < MemoSize THEN memo \cup {e} ELSE memo,
                                   @, ends)])

Remains(t, e) ==
  IF e[2] = Out THEN \E k \in DOMAIN t.edges : OutEnd(k) = e ELSE \E k \in t.back : InEnd(k) = e

MutUnfiled(t, m, ks) ==
  LET last == {e \in Ends(ks) : t.bit /\ ~Remains(t, e)}
  IN Both([t EXCEPT !.ends = @ \ last], m)

(* remove_endpoint_keys_for: an end leaves its set with its last edge. *)
Unfiled(t, m, ks) ==
  LET last == {e \in Ends(ks) : t.bit /\ ~Remains(t, e)}
  IN Both([t EXCEPT !.ends = @ \ last], [m EXCEPT !.memo = @ \ last])

(* write_edge_pair *)
Paired(t, k, b) == [t EXCEPT !.edges = (k :> b) @@ @, !.back = @ \cup {k}]
Unpaired(t, ks) == [t EXCEPT !.edges = Restrict(@, DOMAIN @ \ ks), !.back = @ \ ks]
Removed(t, m, ks) == Unfiled(Unpaired(t, ks), m, ks)

(* preflight_unless_provably_absent *)
Existed(t, m, k) == {k[1], k[3]} \cap m.live = {} /\ k \in DOMAIN t.edges

(* put_edge_inner *)
Put(t, m, k, b) ==
  LET on == Maintained(t, m)
      w  == Paired(on.t, k, b)
  IN IF on.on /\ ~Existed(t, m, k) THEN Filed(w, on.m, <<OutEnd(k), InEnd(k)>>) ELSE Both(w, on.m)

(* link_many: every probe before any write, the distinct ends of the new    *)
(* edges filed last, in key order; the last of two equal tuples wins.       *)
PutMany(t, m, batch) ==
  LET on  == Maintained(t, m)
      new == {Edge(batch[i].tuple, 0) : i \in DOMAIN batch} \ {k \in DOMAIN t.edges : Existed(t, m, k)}
      w   == FoldLeft(LAMBDA acc, e : Paired(acc, Edge(e.tuple, 0), e.bag), on.t, batch)
  IN IF on.on THEN Filed(w, on.m, InOrder(Ends(new))) ELSE Both(w, on.m)
----------------------------------------------------------------------------
(* Edge ids. *)

(* allocate_edge_id: where the next id comes from, <<next, reserved>>. *)
IdFrom(t, m) ==
  IF Register /\ m.block # <<>> THEN IF m.next # 0 THEN <<m.next, m.block[2]>> ELSE m.block
  ELSE IF m.next # 0 THEN <<m.next, m.next>>
  ELSE IF t.idbit THEN <<t.next, t.next>>
  ELSE <<1, 1>>
NextId(t, m) == IdFrom(t, m)[1]

Allocated(t, m) ==
  LET next  == IdFrom(t, m)[1]
      spent == Register /\ next >= IdFrom(t, m)[2]
  IN [m EXCEPT !.next = next + 1,
               !.block = IF ~Register THEN @
                         ELSE <<next + 1, IF spent THEN next + IdBlock ELSE IdFrom(t, m)[2]>>,
               !.dirty = @ \/ ~Register \/ spent]

MutFlushed(t, m) ==
  IF m.dirty THEN [t EXCEPT !.next = IF Register THEN m.block[1] ELSE m.next] ELSE t

(* flush_edge_id_allocator: the tree a commit writes the allocator into. *)
Flushed(t, m) ==
  IF m.dirty THEN [t EXCEPT !.next = IF Register THEN m.block[2] ELSE m.next] ELSE t

(* create_edge_inner *)
Created(t, m, tuple, b) ==
  LET k  == Edge(tuple, NextId(t, m))
      on == Maintained([t EXCEPT !.idbit = TRUE], Allocated(t, m))
      w  == Paired(on.t, k, b)
  IN IF on.on THEN Filed(w, on.m, <<OutEnd(k), InEnd(k)>>) ELSE Both(w, on.m)
----------------------------------------------------------------------------
(* Edge tables. *)

(* bound_types: read through a cache.  It cannot be read while a collection *)
(* is DROPPING, whose catalogue record answers an error.                    *)
BoundRead(t, m) == IF t.declared /\ m.bound = Unread THEN [m EXCEPT !.bound = t.bound] ELSE m
BoundKnown(t, m) == t.declared => (m.bound # Unread \/ t.drop = NoDrop)

(* refuse_bound_edge_type: may an untyped call write label l *)
Untyped(t, m, l) == BoundKnown(t, m) /\ (t.declared => BoundRead(t, m).bound # l)

PairKey(t) == t.key = {"source", "destination"}

MutConflicts(t, tuple, b) ==
  IF t.key = {} THEN {}
  ELSE {k \in DOMAIN t.edges : Of(k) = tuple /\ k[4] = 0}

(* conflict: the edges that hold the key a new one would take.  For the     *)
(* pair the tuple's own edge is looked up; else one end's edges are walked. *)
Conflicts(t, tuple, b) ==
  IF t.key = {} THEN {}
  ELSE IF PairKey(t) THEN {k \in DOMAIN t.edges : k = Edge(tuple, 0)}
  ELSE {k \in DOMAIN t.edges :
          /\ k[2] = tuple[2]
          /\ "source" \in t.key => k[1] = tuple[1]
          /\ "destination" \in t.key => k[3] = tuple[3]
          /\ "bag" \in t.key => t.edges[k] = b}

(* write_new_edge *)
Inserted(t, m, tuple, b) ==
  IF PairKey(t) THEN Put(t, m, Edge(tuple, 0), b) ELSE Created(t, m, tuple, b)

(* edge_table_is_empty: through edge_endpoints, which answers from the set  *)
(* of a file that carries one.                                              *)
HasEdges(t, l, c) ==
  IF t.bit THEN \E e \in t.ends : e[1] = l /\ e[2] = Out /\ Home[e[3]] = c
  ELSE \E k \in DOMAIN t.edges : k[2] = l /\ Home[k[1]] = c
----------------------------------------------------------------------------
(* The calls.  One that refuses before it writes changes nothing, and is    *)
(* left out; one that fails after it may have written poisons the handle.   *)

Ready(call) == ~failed /\ call \in Calls

Alive(c)     == c \notin db.gone /\ db.drop.of # c
Endpoint(r)  == db.drop.of # Home[r] /\ (r \in mem.live \/ r \in db.rows)

(* History: the ends of the edges that came or went behind the edge a       *)
(* backfill stands at, while its bit is clear and nothing files or unfiles  *)
(* them.  Once it is set, a new edge files its ends whatever was missed.    *)
Tracked(t) ==
  LET came   == DOMAIN t.edges \ DOMAIN db.edges
      went   == DOMAIN db.edges \ DOMAIN t.edges
      behind == {k \in came \cup went : mem.at # NoKey /\ ~Before(mem.at, k)}
  IN [t EXCEPT !.missed = IF t.bit THEN @ \ Ends(came) ELSE @ \cup Ends(behind)]

(* The caller's transaction goes on with tree and memory r; `user` is what  *)
(* the call leaves in user_writes_pending.                                  *)
Written(r, user) ==
  /\ db' = Tracked(r.t) /\ mem' = [r.m EXCEPT !.user = user]
  /\ work' = TRUE
  /\ UNCHANGED <<disk, failed, given>>

Poisoned ==
  /\ failed' = TRUE
  /\ UNCHANGED <<db, disk, mem, work, given>>

PutRow(r) ==
  /\ Ready("rows") /\ Alive(Home[r]) /\ r \notin db.born
  /\ \A q \in Rows : Home[q] = Home[r] /\ q < r => q \in db.born
  /\ Written(Both([db EXCEPT !.rows = @ \cup {r}, !.born = @ \cup {r}],
                  [mem EXCEPT !.live = @ \cup {r}]), TRUE)

Incident(t, r) == {k \in DOMAIN t.edges : k[1] = r \/ k[3] = r}

(* cascade_graph_delete, and then the row itself. *)
RowRemoved(t, m, r) ==
  LET c == Removed(t, m, Incident(t, r))
  IN Both([c.t EXCEPT !.rows = @ \ {r}], [c.m EXCEPT !.live = @ \ {r}])

DeleteRow(r) ==
  /\ Ready("rows") /\ Alive(Home[r]) /\ r \in db.rows
  /\ IF Cardinality(Incident(db, r)) > MaxCascade THEN Poisoned
     ELSE Written(RowRemoved(db, mem, r), TRUE)

PutEdge(t, b) ==
  /\ Ready("put") /\ t[2] \in db.types /\ Untyped(db, mem, t[2]) /\ Endpoint(t[1]) /\ Endpoint(t[3])
  /\ Written(Put(db, BoundRead(db, mem), Edge(t, 0), b), mem.user)

(* create_edge_type *)
CreateEdgeType(l) ==
  /\ Ready("link") /\ l \notin db.types
  /\ Written(Both([db EXCEPT !.types = @ \cup {l}], mem), TRUE)

(* link names its label, and registers it if it is new. *)
Link(t, b) ==
  /\ Ready("link") /\ Untyped(db, mem, t[2]) /\ Endpoint(t[1]) /\ Endpoint(t[3])
  /\ Written(Put([db EXCEPT !.types = @ \cup {t[2]}], BoundRead(db, mem), Edge(t, 0), b), TRUE)

LinkMany(batch) ==
  /\ Ready("many") /\ \A i \in DOMAIN batch : batch[i].tuple[2] = batch[1].tuple[2]
  /\ batch[1].tuple[2] \in db.types /\ Untyped(db, mem, batch[1].tuple[2])
  /\ IF \A i \in DOMAIN batch : Endpoint(batch[i].tuple[1]) /\ Endpoint(batch[i].tuple[3])
     THEN Written(PutMany(db, BoundRead(db, mem), batch), mem.user)
     ELSE Poisoned

CreateEdge(t, b) ==
  /\ Ready("create") /\ NextId(db, mem) <= MaxId
  /\ t[2] \in db.types /\ Untyped(db, mem, t[2]) /\ Endpoint(t[1]) /\ Endpoint(t[3])
  /\ IF Edge(t, NextId(db, mem)) \in DOMAIN db.edges THEN Poisoned
     ELSE Written(Created(db, BoundRead(db, mem), t, b), TRUE)

(* delete_edge (unlink resolves names and calls it): every edge of a tuple. *)
DeleteEdge(t) ==
  LET ks == {k \in DOMAIN db.edges : Of(k) = t} IN
  /\ Ready("remove") /\ ks # {}
  /\ Written(Removed(db, mem, ks), TRUE)

DeleteEdgeById(k) ==
  /\ Ready("remove") /\ k \in DOMAIN db.edges
  /\ Written(Removed(db, mem, {k}), TRUE)

UpdateEdgeProperties(k, b) ==
  /\ Ready("update") /\ Untyped(db, mem, k[2]) /\ k \in DOMAIN db.edges
  /\ Written(Both([db EXCEPT !.edges[k] = b], BoundRead(db, mem)), TRUE)
----------------------------------------------------------------------------
(* Edge table statements.  Written through the table, an edge has rows of   *)
(* the referenced collections at its ends.                                  *)

TableReady == Ready("table") /\ Alive(Table)
BoundReady == TableReady /\ db.bound # 0

DeclareEdgeTable(key) ==
  /\ TableReady /\ ~db.declared /\ \A c \in Range(TableEnds) : Alive(c)
  /\ Written(Both([db EXCEPT !.declared = TRUE, !.key = key], mem), TRUE)

(* A binding takes a new label, so no edge is there that it does not own. *)
BindEdgeTable(l) ==
  /\ TableReady /\ db.declared /\ db.bound = 0 /\ l \in TableLabels \ db.types
  /\ Written(Both([db EXCEPT !.bound = l, !.types = @ \cup {l}], [mem EXCEPT !.bound = Unread]), TRUE)

UnbindEdgeTable ==
  /\ BoundReady /\ ~HasEdges(db, db.bound, TableEnds[1])
  /\ Written(Both([db EXCEPT !.bound = 0], [mem EXCEPT !.bound = Unread]), TRUE)

(* edge_of_row *)
Typed(t) ==
  /\ t[2] = db.bound /\ {t[1], t[3]} \subseteq db.rows
  /\ <<Home[t[1]], Home[t[3]]>> = TableEnds

(* insert_edge_row, and upsert_edge_row where no edge holds the key. *)
InsertEdgeRow(t, b) ==
  /\ BoundReady /\ Typed(t) /\ NextId(db, mem) <= MaxId
  /\ Conflicts(db, t, b) = {}
  /\ Written(Inserted(db, mem, t, b), TRUE)

(* upsert_edge_row, ON CONFLICT DO UPDATE SET bag *)
UpsertEdgeRow(t, b) ==
  /\ BoundReady /\ Typed(t) /\ "bag" \notin db.key
  /\ \E k \in Conflicts(db, t, b) : Written(Both([db EXCEPT !.edges[k] = b], mem), TRUE)

(* matching: a filter names a row at one end or at both, and may name a bag. *)
Unnamed == -1
Matching(t, f) ==
  {k \in DOMAIN t.edges :
     k[2] = t.bound /\ f.source \in {Unnamed, k[1]} /\ f.destination \in {Unnamed, k[3]} /\ f.bag \in {Unnamed, t.edges[k]}}

Filters ==
  {f \in [source : Rows \cup {Unnamed}, destination : Rows \cup {Unnamed}, bag : Bags \cup {Unnamed}] :
     f.source # Unnamed \/ f.destination # Unnamed}

UpdateEdgeRows(f, b) ==
  /\ BoundReady /\ "bag" \notin db.key /\ Matching(db, f) # {}
  /\ Written(Both([db EXCEPT !.edges = [k \in DOMAIN @ |-> IF k \in Matching(db, f) THEN b ELSE @[k]]], mem), TRUE)

DeleteEdgeRows(f) ==
  /\ BoundReady /\ Matching(db, f) # {}
  /\ Written(Removed(db, mem, Matching(db, f)), TRUE)
----------------------------------------------------------------------------
(* backfill_endpoint_sets: one step over at most n edges. *)

First(seq, n) == SubSeq(seq, 1, IF Len(seq) < n THEN Len(seq) ELSE n)

Backfill(n) ==
  LET batch == Range(First(InOrder({k \in DOMAIN db.edges : Before(mem.at, k)}), n))
      done  == Cardinality(batch) < n
  IN /\ Ready("backfill") /\ ~db.bit
     /\ db' = [db EXCEPT !.ends = @ \cup Ends(batch), !.bit = done]
     /\ mem' = IF done THEN [mem EXCEPT !.state = "yes", !.at = NoKey]
               ELSE [mem EXCEPT !.at = InOrder(batch)[n]]
     /\ UNCHANGED <<disk, failed, work, given>>
----------------------------------------------------------------------------
(* Commit and rollback. *)

Ids(t) == {k[4] : k \in DOMAIN t.edges} \ {0}
Committed(m) == [m EXCEPT !.user = FALSE, !.memo = {}, !.next = 0, !.dirty = FALSE]

Publish(t) == disk' = t /\ given' = given \cup Ids(t)

Commit(outcome) ==
  /\ ~failed
  /\ db' = Flushed(db, mem) /\ mem' = Committed(mem) /\ work' = FALSE
  /\ IF outcome = "lost" THEN UNCHANGED <<disk, given>> ELSE Publish(db')
  /\ failed' = (outcome # "ok")

(* validate_features: what an open refuses as corrupt. *)
Opens(t) == (t.ends # {} => t.bit) /\ (t.idbit <=> t.next # 0)

(* rollback, and likewise the open after the process is gone. *)
Rollback ==
  /\ db' = disk /\ mem' = Fresh /\ failed' = ~Opens(disk) /\ work' = FALSE
  /\ UNCHANGED <<disk, given>>
----------------------------------------------------------------------------
(* The drop of a collection, as far as it meets edges (Collections has the  *)
(* rest): the mark is published first, steps the caller commits remove rows *)
(* or the edges of an edge table, the last one the descriptor.              *)

RowsOf(t, c) == {r \in t.rows : Home[r] = c}
Touching(t, c) == {k \in DOMAIN t.edges : Home[k[1]] = c} \cup {k \in t.back : Home[k[3]] = c}
Referenced(t, c) == t.declared /\ c \in Range(TableEnds)

MutAdmitted(t, c, cascade) == ~Referenced(t, c) /\ (c = Table /\ t.bound # 0 => Register)

Admitted(t, c, cascade) ==
  /\ ~Referenced(t, c) /\ (c = Table /\ t.bound # 0 => Register)
  /\ cascade \/ Touching(t, c) = {}

(* The pending transaction is committed, then the mark; either may fail. *)
BeginDrop(c, cascade) ==
  LET first  == Flushed(db, mem)
      marked == [first EXCEPT !.drop = [of |-> c, cascade |-> cascade, last |-> FALSE]]
  IN /\ Ready("drop") /\ ~mem.user /\ Alive(c) /\ db.drop = NoDrop
     /\ Admitted(db, c, cascade)
     /\ db' = marked /\ mem' = Committed(mem) /\ work' = FALSE
     /\ \/ Publish(marked) /\ UNCHANGED failed
        \/ /\ \E t \in (IF "lost" \in Outcomes THEN {disk, first} ELSE {})
                    \cup (IF "published" \in Outcomes THEN {first, marked} ELSE {}) : Publish(t)
           /\ failed' = TRUE

(* One step over n rows, of a budget of n or of a larger one whose log      *)
(* allowance was spent (wal_step_spent); CASCADE takes the edges of each.   *)
DropRows(n) ==
  LET c   == db.drop.of
      all == SetToSortSeq(RowsOf(db, c), <)
      rs  == First(all, n)
      out == FoldLeft(LAMBDA acc, r : IF db.drop.cascade THEN RowRemoved(acc.t, acc.m, r)
                                      ELSE Both([acc.t EXCEPT !.rows = @ \ {r}], [acc.m EXCEPT !.live = @ \ {r}]),
                      Both(db, mem), rs)
  IN /\ Ready("drop") /\ c # "none" /\ ~db.drop.last /\ ~(c = Table /\ db.bound # 0)
     /\ IF db.drop.cascade /\ \E i \in DOMAIN rs :
             Cardinality(Incident(db, rs[i]) \ UNION {Incident(db, rs[j]) : j \in 1..i - 1}) > MaxCascade
        THEN Poisoned
        ELSE /\ db' = Tracked([out.t EXCEPT !.drop.last = Len(all) < n])
             /\ mem' = out.m
             /\ UNCHANGED <<disk, failed, work, given>>

MutTableEdges(t, from) == {k \in DOMAIN t.edges : k[2] = t.bound /\ Home[k[1]] = TableEnds[1] /\ Before(from, k) /\ k[4] = 0}

(* drop_step_edges: the edges of the bound label, from where the last step  *)
(* stopped; the last step frees the label's name.                           *)
TableEdges(t, from) ==
  {k \in DOMAIN t.edges : k[2] = t.bound /\ Home[k[1]] = TableEnds[1] /\ (k = from \/ Before(from, k))}

DropEdges(n) ==
  LET found == First(InOrder(TableEdges(db, mem.dropAt)), n)
      more  == Len(found) = n
      out   == Removed(db, mem, Range(found))
  IN /\ Ready("drop") /\ db.drop.of = Table /\ ~db.drop.last /\ db.bound # 0
     /\ db' = Tracked([out.t EXCEPT !.drop.last = ~more, !.types = IF more THEN @ ELSE @ \ {db.bound}])
     /\ mem' = [out.m EXCEPT !.dropAt = IF more THEN found[n] ELSE NoKey,
                             !.bound = IF more THEN @ ELSE Unread,
                             !.user = @ \/ found # <<>>]
     /\ UNCHANGED <<disk, failed, work, given>>

(* drop_step_descriptor: every keyspace of the collection is probed first. *)
DropDescriptor ==
  LET c == db.drop.of IN
  /\ Ready("drop") /\ db.drop.last
  /\ IF RowsOf(db, c) # {} \/ Touching(db, c) # {} \/ (db.bit /\ \E e \in db.ends : Home[e[3]] = c)
     THEN Poisoned
     ELSE /\ db' = [db EXCEPT !.drop = NoDrop, !.gone = @ \cup {c},
                              !.declared = @ /\ c # Table, !.bound = IF c = Table THEN 0 ELSE @,
                              !.key = IF c = Table THEN {} ELSE @]
          /\ UNCHANGED <<disk, mem, failed, work, given>>
----------------------------------------------------------------------------
Batches == {<<[tuple |-> t, bag |-> b], [tuple |-> u, bag |-> Max(Bags)]>> : t, u \in Tuples, b \in Bags}

Next ==
  \/ \E r \in Rows : PutRow(r) \/ DeleteRow(r)
  \/ \E t \in Tuples, b \in Bags : PutEdge(t, b) \/ Link(t, b) \/ CreateEdge(t, b)
                                 \/ InsertEdgeRow(t, b) \/ UpsertEdgeRow(t, b)
  \/ \E batch \in Batches : LinkMany(batch)
  \/ \E t \in Tuples : DeleteEdge(t)
  \/ \E k \in DOMAIN db.edges : DeleteEdgeById(k) \/ \E b \in Bags : UpdateEdgeProperties(k, b)
  \/ \E key \in TableKeys : DeclareEdgeTable(key)
  \/ \E l \in TableLabels : CreateEdgeType(l) \/ BindEdgeTable(l)
  \/ UnbindEdgeTable
  \/ \E f \in Filters : DeleteEdgeRows(f) \/ \E b \in Bags : UpdateEdgeRows(f, b)
  \/ \E n \in 1..Batch : Backfill(n) \/ DropRows(n) \/ DropEdges(n)
  \/ \E c \in Colls, cascade \in BOOLEAN : BeginDrop(c, cascade)
  \/ DropDescriptor
  \/ \E outcome \in Outcomes : Commit(outcome)
  \/ Rollback

Spec == Init /\ [][Next]_vars
----------------------------------------------------------------------------
(* The trees a reader may be given: every published one, and this handle's. *)
Readable == {disk} \cup (IF failed THEN {} ELSE {db})

(* Every edge is there both ways and joins two rows that are there:         *)
(* whatever deletes, cascades, drops, failed commits and rollbacks did, no  *)
(* read meets half an edge or one without its row.                          *)
EdgesSound ==
  \A t \in Readable :
    /\ DOMAIN t.edges = t.back
    /\ \A k \in DOMAIN t.edges : {k[1], k[3]} \subseteq t.rows

(* A file that says it carries endpoint sets carries the ends of its edges  *)
(* and no others, so that a read may answer from them alone, whatever was   *)
(* written, removed, committed, lost or rolled back, also between two steps *)
(* of a backfill.  The one exception: ends of an edge that came or went     *)
(* behind a backfill that had not set the bit yet.  It is wrong about no    *)
(* others, and never again about one of these once an edge of it is put.    *)
EndpointSetExact ==
  \A t \in Readable : t.bit => SymDiff(t.ends, Ends(DOMAIN t.edges)) \subseteq t.missed

(* "The id is never handed out twice": the next edge id is past every one a *)
(* published tree ever held, after deletes, failed commits and reopens.     *)
EdgeIdsNeverReused ==
  \A i \in given : i < IF failed THEN NextId(disk, Fresh) ELSE NextId(db, mem)

(* The edges of a bound label are the table's: between its two collections  *)
(* and no two with the same primary key.                                    *)
TableKeyHolds ==
  \A t \in Readable : t.bound # 0 =>
    LET mine == {k \in DOMAIN t.edges : k[2] = t.bound} IN
    /\ \A k \in mine : <<Home[k[1]], Home[k[3]]>> = TableEnds
    /\ \A j, k \in mine :
         (/\ t.key # {}
          /\ "source" \in t.key => j[1] = k[1]
          /\ "destination" \in t.key => j[3] = k[3]
          /\ "bag" \in t.key => t.edges[j] = t.edges[k]) => j = k

(* A table that is dropped or loses its label leaves none of its edges      *)
(* behind, where nothing could read or delete them.                         *)
NoEdgeOrphaned ==
  [][db.bound # 0 /\ db'.bound = 0 /\ db' # disk => \A k \in DOMAIN db'.edges : k[2] # db.bound]_vars

(* "A crash before that commit leaves a file whose bit is clear and whose   *)
(* partial keys are invisible to every reader: the next open takes the      *)
(* walk, and the next backfill writes them again": whatever is published    *)
(* can be opened, also half-way through a backfill committed step by step.  *)
Reopenable == Opens(disk)
============================================================================
