----------------------------- MODULE GraphReads -----------------------------
(***************************************************************************)
(* The reads of a graph (core/engine/src/index/graph): neighbour reads,    *)
(* the entities at the ends of a label, and the breadth-first traversal    *)
(* that statements and path filters share.  Every one is complete or an    *)
(* error.  An edge is <<source, label, destination, id>>; `edges` maps     *)
(* each to its property bag, and the reverse postings mirror it.           *)
(***************************************************************************)
EXTENDS Integers, Sequences, SequencesExt, FiniteSets, FiniteSetsExt, Functions

AnyLabel == 0
AnyBag   == -1

(* Complete-or-error: the answer, or which bound or check refused it. *)
Ok(a)    == [err |-> "none", answer |-> a]
Err(why) == [err |-> why, answer |-> <<>>]

Directions(d) == IF d = "both" THEN <<"out", "in">> ELSE <<d>>
Near(k, dir) == IF dir = "out" THEN k[1] ELSE k[3]
Far(k, dir)  == IF dir = "out" THEN k[3] ELSE k[1]
Less(a, b)   == \E n \in DOMAIN a : a[n] < b[n] /\ \A m \in 1..n - 1 : a[m] = b[m]
Ascending(S) == SetToSortSeq(S, <)

(* AdjacencyCursor: the postings of one node in one direction, in key order. *)
Postings(edges, near, dir, label) ==
  SetToSortSeq({k \in DOMAIN edges : Near(k, dir) = near /\ label \in {AnyLabel, k[2]}},
               LAMBDA j, k : Less(<<j[2], Far(j, dir), j[4]>>, <<k[2], Far(k, dir), k[4]>>))

OkUnless(a) == IF a.err # "none" THEN Err(a.err) ELSE Ok(a.out)

(* A fold that stops at the first error. *)
Walk(op(_, _), from, seq) == FoldLeft(LAMBDA a, x : IF a.err = "none" THEN op(a, x) ELSE a, from, seq)
-----------------------------------------------------------------------------
(* neighbors: whole edges, the walk stopping once they are over the limit.  *)
CollectDirection(edges, q, dir, keys) ==
  FoldLeft(LAMBDA out, k : IF Cardinality(out) > q.limit THEN out ELSE out \cup {k},
           keys, Postings(edges, q.entity, dir, q.label))

NeighborsOf(edges, rows, q, keys) ==
  IF keys = {} /\ q.entity \notin rows THEN Err("missing")
  ELSE IF Cardinality(keys) > q.limit THEN Err("limit")
  ELSE Ok([k \in keys |-> edges[k]])

Neighbors(edges, rows, q) ==
  NeighborsOf(edges, rows, q,
    FoldLeft(LAMBDA keys, dir : IF Cardinality(keys) <= q.limit THEN CollectDirection(edges, q, dir, keys) ELSE keys,
             {}, Directions(q.dir)))

(* neighbor_ids: parallel edges repeat an entity; only the distinct ones    *)
(* count, and they are told apart when the list outgrows the limit.         *)
OverLimit(found, limit) == Cardinality(Range(found)) > limit

CollectAdjacent(edges, q, dir, found) ==
  FoldLeft(LAMBDA a, k :
             LET f == IF a.stop THEN a.found ELSE Append(a.found, Far(k, dir))
             IN IF a.stop \/ Len(f) <= q.limit THEN [a EXCEPT !.found = f]
                ELSE [found |-> Ascending(Range(f)), stop |-> OverLimit(f, q.limit)],
           [found |-> found, stop |-> FALSE], Postings(edges, q.entity, dir, q.label)).found

DistinctIds(rows, q, found) ==
  IF found = <<>> /\ q.entity \notin rows THEN Err("missing")
  ELSE IF Cardinality(Range(found)) > q.limit THEN Err("limit")
  ELSE Ok(Ascending(Range(found)))

NeighborIds(edges, rows, q) ==
  DistinctIds(rows, q, FoldLeft(LAMBDA f, dir : CollectAdjacent(edges, q, dir, f), <<>>, Directions(q.dir)))

(* edge_endpoints without an endpoint set: one pass over the postings of    *)
(* all nodes; a node that matched is passed over by one seek.               *)
EdgeEndpoints(edges, nodes, q) ==
  LET all == FoldLeft(LAMBDA s, n : s \o Postings(edges, n, q.dir, AnyLabel), <<>>, Ascending(nodes))
      step(a, k) ==
        IF Near(k, q.dir) \in Range(a.out) THEN a
        ELSE IF a.scanned + 1 > q.edges THEN [a EXCEPT !.err = "edges"]
        ELSE IF k[2] # q.label THEN [a EXCEPT !.scanned = @ + 1]
        ELSE IF Len(a.out) + 1 > q.limit THEN [a EXCEPT !.err = "limit"]
        ELSE [a EXCEPT !.scanned = @ + 1, !.out = Append(@, Near(k, q.dir))]
  IN OkUnless(Walk(step, [out |-> <<>>, scanned |-> 0, err |-> "none"], all))
-----------------------------------------------------------------------------
(* The traversal.  A level is collected in a Frontier with room for so many *)
(* nodes, sorted and freed of repeats only when it is full.                 *)

Frontier(scanned) == [items |-> <<>>, sorted |-> TRUE, scanned |-> scanned, deferred |-> <<>>, err |-> "none"]

SortedBy(items, kept) ==
  LET is == SetToSortSeq(kept, LAMBDA i, j : items[i].node < items[j].node) IN [n \in DOMAIN is |-> items[is[n]]]

MutNormalized(items) ==
  SortedBy(items, {i \in DOMAIN items : \A j \in DOMAIN items : items[j].node = items[i].node => j <= i})

(* normalize: ascending, and of the offers of one node the first. *)
Normalized(items) ==
  SortedBy(items, {i \in DOMAIN items : \A j \in DOMAIN items : items[j].node = items[i].node => i <= j})

Full(f, room, items) ==
  [f EXCEPT !.items = items, !.sorted = TRUE, !.err = IF Len(items) > room THEN "visited" ELSE @]

(* offer *)
Offer(f, room, node, via) ==
  LET grown == Append(f.items, [node |-> node, via |-> via])
      known == \E i \in DOMAIN f.items : f.items[i].node = node
  IN IF f.sorted /\ Len(f.items) = room
     THEN IF known THEN f ELSE [f EXCEPT !.err = "visited"]
     ELSE IF Len(grown) <= room THEN [f EXCEPT !.items = grown, !.sorted = FALSE]
     ELSE Full(f, room, Normalized(grown))

(* Hop::count: an edge read is within max_edges or the walk is refused. *)
Count(f, q) == [f EXCEPT !.scanned = @ + 1, !.err = IF f.scanned + 1 > q.edges THEN "edges" ELSE @]

Matches(edges, q, k) == q.where \in {AnyBag, edges[k]}
ReadsBags(q) == q.via \/ q.where # AnyBag
Via(q, k) == IF q.via THEN <<k>> ELSE <<>>

(* Hop::walk: an incoming posting carries no bag, so where bags are needed  *)
(* its primary posting is read after the walk.                              *)
Follow(edges, q, dir, room, f, k) ==
  IF Matches(edges, q, k) /\ Far(k, dir) \notin q.refused THEN Offer(f, room, Far(k, dir), Via(q, k)) ELSE f

Turn(edges, q, dir, seen, room, f, k) ==
  IF f.err # "none" \/ Far(k, dir) \in seen THEN f
  ELSE IF ReadsBags(q) /\ dir = "in" THEN [f EXCEPT !.deferred = Append(@, k)]
  ELSE Follow(edges, q, dir, room, f, k)

Reread(edges, q, dir, room, level) ==
  Walk(LAMBDA f, k : LET c == Count(f, q) IN IF c.err # "none" THEN c ELSE Follow(edges, q, dir, room, c, k),
       level, level.deferred)

Hop(edges, q, near, dir, seen, room, level) ==
  Reread(edges, q, dir, room,
    Walk(LAMBDA f, k : Turn(edges, q, dir, seen, room, Count(f, q), k),
         [level EXCEPT !.deferred = <<>>], Postings(edges, near, dir, q.label)))

(* One depth of traverse_bfs_inner: the hops of every node of the frontier, *)
(* and the next frontier.                                                   *)
Reached(q, s, out, next) ==
  LET ids   == [i \in DOMAIN next |-> next[i].node]
      depth == s.depth + 1
      found == IF depth < q.min THEN s.nodes
               ELSE s.nodes \o [i \in DOMAIN next |-> [node |-> ids[i], depth |-> depth, via |-> next[i].via]]
  IN [s EXCEPT !.depth = depth, !.scanned = out.scanned, !.seen = @ \cup Range(ids), !.frontier = ids, !.nodes = found,
               !.err = IF out.err # "none" THEN out.err
                       ELSE IF depth >= q.min /\ Len(found) > q.results THEN "results" ELSE @,
               !.done = ids = <<>>]

Advance(q, s, out) == Reached(q, s, out, Normalized(out.items))

Level(edges, q, s) ==
  LET hops == FlattenSeq([i \in DOMAIN s.frontier |->
                [d \in DOMAIN Directions(q.dir) |-> [near |-> s.frontier[i], dir |-> Directions(q.dir)[d]]]])
  IN Advance(q, s, Walk(LAMBDA f, h : Hop(edges, q, h.near, h.dir, s.seen, q.visited - Cardinality(s.seen), f),
                        Frontier(s.scanned), hops))

Traversal(rows, q, s) ==
  IF s.err = "none" /\ s.scanned = 0 /\ q.entity \notin rows THEN Err("missing")
  ELSE OkUnless([err |-> s.err, out |-> s.nodes])

TraverseBfs(edges, rows, q) ==
  LET seed  == IF q.seeded /\ q.min = 0 THEN <<[node |-> q.entity, depth |-> 0, via |-> <<>>]>> ELSE <<>>
      start == [depth |-> 0, scanned |-> 0, seen |-> {q.entity}, frontier |-> <<q.entity>>, nodes |-> seed,
                done |-> FALSE, err |-> IF Len(seed) > q.results THEN "results" ELSE "none"]
  IN Traversal(rows, q, Walk(LAMBDA s, n : IF s.done THEN s ELSE Level(edges, q, s), start, [n \in 1..q.max |-> n]))
=============================================================================
