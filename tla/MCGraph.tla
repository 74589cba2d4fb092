------------------------------ MODULE MCGraph ------------------------------
(* Instances of Graph and GraphReads for TLC, side by side in one run. *)
EXTENDS Graph, TLC

Reads == INSTANCE GraphReads

VARIABLES
  scenario,
  request    \* "read": the read asked of the tree

OneHome == [r \in Rows |-> "people"]
TwoHomes == [r \in Rows |-> IF r = 1 THEN "people" ELSE "places"]
Ring   == {<<1, 1, 2>>, <<1, 1, 3>>, <<2, 1, 3>>, <<3, 1, 1>>}
Cycle  == {<<1, 1, 2>>, <<2, 1, 3>>, <<3, 1, 1>>}
Loop   == {<<1, 1, 2>>, <<2, 1, 1>>}
Fan    == {<<1, 1, 2>>, <<1, 1, 3>>, <<2, 1, 3>>}
NoEnds == <<"none", "none">>
TypedTuples == {<<1, 2, 2>>, <<1, 2, 3>>, <<1, 1, 2>>}
PeoplePlaces == <<"people", "places">>
NoTuples == {}
SomeKeys == {{"source", "destination"}, {"destination", "bag"}}

(* "table", the constants of the run: an edge table declared, bound, written *)
(* through and dropped, beside edges of another label.                      *)
(* "ids": parallel edges and the ids they take in a Register file.          *)
(* "many": batches, and ids in a file without the Register.                 *)
(* "old": a file of an older release, backfilled.                           *)
(* "drop": two collections with edges between them, one of them dropped.    *)
(* "read": a tree and one read of it.                                       *)
AllOutcomes == {"ok", "lost", "published"}

Ids2 == INSTANCE Graph WITH
  Rows <- {1, 2}, Home <- [r \in {1, 2} |-> "people"], Labels <- {1}, Tuples <- Loop, Bags <- {0}, OldRows <- {1},
  TableLabels <- {}, TableEnds <- NoEnds, TableKeys <- {}, MaxId <- 3, MaxCascade <- 3,
  Calls <- {"rows", "create", "put", "remove"}, Outcomes <- AllOutcomes
Many == INSTANCE Graph WITH
  Home <- OneHome, Labels <- {1}, Tuples <- Fan, Bags <- {0}, OldRows <- {1, 2},
  TableLabels <- {}, TableEnds <- NoEnds, TableKeys <- {}, Register <- FALSE, MaxId <- 1, MaxCascade <- 3,
  Calls <- {"rows", "many", "link", "create", "remove"}, Outcomes <- AllOutcomes
Old == INSTANCE Graph WITH
  Home <- OneHome, Labels <- {1}, Tuples <- Fan, OldEdges <- Fan, Bags <- {0},
  TableLabels <- {}, TableEnds <- NoEnds, TableKeys <- {}, MaxCascade <- 3,
  Calls <- {"rows", "put", "remove", "backfill"}, Outcomes <- AllOutcomes
Drop == INSTANCE Graph WITH
  Labels <- {1}, Tuples <- Cycle, TableLabels <- {}, TableEnds <- NoEnds, TableKeys <- {}, MaxCascade <- 1,
  Calls <- {"put", "update", "drop", "rows"}, Outcomes <- AllOutcomes

Reachable == <<scenario, request, IF failed THEN <<disk, given>> ELSE <<db, disk, mem, work, given>>>>
-----------------------------------------------------------------------------
(* What the reads must answer, from the edges alone. *)

Ways(q) == Range(Reads!Directions(q.dir))

(* An edge, and the way it is crossed from n. *)
Crossings(edges, q, n) ==
  {c \in (DOMAIN edges) \X Ways(q) : Reads!Near(c[1], c[2]) = n /\ q.label \in {0, c[1][2]}}

AdjacentEdges(edges, q) == {c[1] : c \in Crossings(edges, q, q.entity)}
AdjacentNodes(edges, q) == {Reads!Far(c[1], c[2]) : c \in Crossings(edges, q, q.entity)}

Passable(edges, q, n) ==
  {c \in Crossings(edges, q, n) :
     q.where \in {-1, edges[c[1]]} /\ Reads!Far(c[1], c[2]) \notin q.refused}

(* The nodes at each distance from the seed of a traversal. *)
Distance(edges, q) ==
  LET at[d \in 0..q.max] ==
        IF d = 0 THEN {q.entity}
        ELSE UNION {{Reads!Far(c[1], c[2]) : c \in Passable(edges, q, n)} : n \in at[d - 1]}
               \ UNION {at[e] : e \in 0..d - 1}
  IN at

(* The edge reads a traversal makes: every crossing of every node it        *)
(* expands, and the primary posting of an incoming edge to a new node.      *)
EdgeReads(edges, q, at) ==
  LET seen(d) == UNION {at[e] : e \in 0..d}
      bags(n, d) == {c \in Crossings(edges, q, n) :
                       Reads!ReadsBags(q) /\ c[2] = "in" /\ Reads!Far(c[1], c[2]) \notin seen(d)}
      of(d) == MapThenSumSet(LAMBDA n : Cardinality(Crossings(edges, q, n)) + Cardinality(bags(n, d)), at[d])
  IN MapThenSumSet(of, 0..q.max - 1)

Depths(q) == {d \in q.min..q.max : d = 0 => q.seeded}

(* The first crossing that reaches n from the nodes one step nearer. *)
Reaching(edges, q, at, n, d) ==
  LET cs == {c \in UNION {Passable(edges, q, m) : m \in at[d - 1]} : Reads!Far(c[1], c[2]) = n}
      rank(c) == <<Reads!Near(c[1], c[2]), IF c[2] = "out" THEN 0 ELSE 1, c[1][2], c[1][4]>>
  IN (CHOOSE c \in cs : \A b \in cs : b = c \/ Reads!Less(rank(c), rank(b)))[1]

Traversed(edges, q, at) ==
  FlattenSeq([i \in 1..Cardinality(Depths(q)) |->
    LET d == Reads!Ascending(Depths(q))[i]
        ns == Reads!Ascending(at[d])
    IN [j \in DOMAIN ns |->
          [node |-> ns[j], depth |-> d,
           via |-> IF q.via /\ d > 0 THEN <<Reaching(edges, q, at, ns[j], d)>> ELSE <<>>]]])

(* Without a set the postings of a node are read up to the first that       *)
(* matches, or all of them.                                                 *)
PostingsRead(edges, q) ==
  LET of(n) == {k \in DOMAIN edges : Reads!Near(k, q.dir) = n}
      hit(n) == \E k \in of(n) : k[2] = q.label
  IN MapThenSumSet(LAMBDA n : IF hit(n) THEN 1 + Cardinality({k \in of(n) : k[2] < q.label}) ELSE Cardinality(of(n)), Rows)

EndNodes(edges, q) == {Reads!Near(k, q.dir) : k \in {j \in DOMAIN edges : j[2] = q.label}}

(* The whole answer to a request, and the bounds that refuse it. *)
Whole(edges, q, at) ==
  CASE q.kind = "neighbors" -> [k \in AdjacentEdges(edges, q) |-> edges[k]]
    [] q.kind = "ids"       -> Reads!Ascending(AdjacentNodes(edges, q))
    [] q.kind = "ends"      -> Reads!Ascending(EndNodes(edges, q))
    [] q.kind = "bfs"       -> Traversed(edges, q, at)

If(p, x) == IF p THEN {x} ELSE {}

BfsRefusals(rows, q, at, reads, results) ==
  If(reads = 0 /\ q.entity \notin rows, "missing") \cup If(reads > q.edges, "edges")
    \cup If(Cardinality(UNION Range(at)) > q.visited, "visited") \cup If(results > q.results, "results")

Refusals(edges, rows, q, at) ==
  CASE q.kind = "neighbors" ->
         If(AdjacentEdges(edges, q) = {} /\ q.entity \notin rows, "missing")
           \cup If(Cardinality(AdjacentEdges(edges, q)) > q.limit, "limit")
    [] q.kind = "ids" ->
         If(AdjacentEdges(edges, q) = {} /\ q.entity \notin rows, "missing")
           \cup If(Cardinality(AdjacentNodes(edges, q)) > q.limit, "limit")
    [] q.kind = "ends" ->
         If(PostingsRead(edges, q) > q.edges, "edges")
           \cup If(Cardinality(EndNodes(edges, q)) > q.limit, "limit")
    [] q.kind = "bfs" ->
         BfsRefusals(rows, q, at, EdgeReads(edges, q, at), Len(Traversed(edges, q, at)))

Answer(edges, rows, q) ==
  CASE q.kind = "neighbors" -> Reads!Neighbors(edges, rows, q)
    [] q.kind = "ids"       -> Reads!NeighborIds(edges, rows, q)
    [] q.kind = "ends"      -> Reads!EdgeEndpoints(edges, Rows, q)
    [] q.kind = "bfs"       -> Reads!TraverseBfs(edges, rows, q)
-----------------------------------------------------------------------------
(* Requests: each bound tight or loose. *)
NoRequest == [kind |-> "none"]

NeighborRequests ==
  [kind : {"neighbors", "ids"}, entity : Rows, dir : {"out", "in", "both"}, label : {0, 1}, limit : 0..3]

EndRequests == [kind : {"ends"}, dir : {"out", "in"}, label : {1, 2}, limit : 1..3, edges : 0..4]

Budgets ==
  [visited : 1..3, edges : {99}, results : {99}] \cup [visited : {99}, edges : 1..5, results : {99}]
    \cup [visited : {99}, edges : {99}, results : 0..3]

BfsRequests ==
  {[kind |-> "bfs", entity |-> 1, dir |-> d, label |-> l, min |-> m, max |-> x, seeded |-> s, where |-> w,
    refused |-> f, via |-> v, visited |-> b.visited, edges |-> b.edges, results |-> b.results] :
     d \in {"out", "in", "both"}, l \in {0}, m \in {0, 2}, x \in {2, 3}, s \in {TRUE}, w \in {-1, 1},
     f \in {{}, {3}}, v \in BOOLEAN, b \in Budgets}
-----------------------------------------------------------------------------
(* "read": any request of any graph over these edges and their bags. *)
Candidates ==
  (<<1, 1, 2, 0>> :> 0) @@ (<<1, 1, 2, 1>> :> 1) @@ (<<2, 1, 3, 0>> :> 1) @@ (<<3, 1, 1, 0>> :> 0)
    @@ (<<1, 2, 3, 0>> :> 1) @@ (<<2, 1, 2, 0>> :> 0)

ReadInit ==
  /\ \E ks \in SUBSET DOMAIN Candidates :
       db = [OldFile EXCEPT !.edges = Restrict(Candidates, ks), !.back = ks, !.ends = Ends(ks), !.bit = TRUE,
                            !.rows = {k[1] : k \in ks} \cup {k[3] : k \in ks}, !.idbit = TRUE, !.next = 2]
  /\ disk = db /\ mem = Fresh /\ failed = FALSE /\ work = FALSE /\ given = Ids(db)

Ask ==
  /\ request = NoRequest
  /\ request' \in NeighborRequests \cup EndRequests \cup BfsRequests
  /\ UNCHANGED vars

Exact(read, refusals, whole) ==
  IF read.err = "none" THEN refusals = {} /\ read.answer = whole ELSE read.err \in refusals

ExactAt(edges, rows, q, at) == Exact(Answer(edges, rows, q), Refusals(edges, rows, q, at), Whole(edges, q, at))

(* A read is the whole answer, or it is refused and a bound it was given is *)
(* really too small: no bound cuts an answer short, none that suffices      *)
(* refuses one, and a node reached twice reports its first edge.            *)
ReadsExact ==
  request # NoRequest =>
    ExactAt(db.edges, db.rows, request, IF request.kind = "bfs" THEN Distance(db.edges, request) ELSE <<>>)

ScenarioInit ==
  /\ request = NoRequest
  /\ \/ scenario = "table" /\ Init
     \/ scenario = "ids" /\ Ids2!Init
     \/ scenario = "many" /\ Many!Init
     \/ scenario = "old" /\ Old!Init
     \/ scenario = "drop" /\ Drop!Init
     \/ scenario = "read" /\ ReadInit

ScenarioNext ==
  \/ /\ \/ scenario = "table" /\ Next
        \/ scenario = "ids" /\ Ids2!Next
        \/ scenario = "many" /\ Many!Next
        \/ scenario = "old" /\ Old!Next
        \/ scenario = "drop" /\ Drop!Next
     /\ UNCHANGED <<scenario, request>>
  \/ scenario = "read" /\ Ask /\ UNCHANGED scenario

(* One scenario, that of the constants of the run. *)
SingleSpec ==
  /\ scenario = "single" /\ request = NoRequest /\ Init
  /\ [][Next /\ UNCHANGED <<scenario, request>>]_<<vars, scenario, request>>

ScenarioSpec == ScenarioInit /\ [][ScenarioNext]_<<vars, scenario, request>>
=============================================================================
