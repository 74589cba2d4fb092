-------------------------- MODULE IndexBuildProofs --------------------------
(***************************************************************************)
(* IndexBuild, for every number of rows, values, indexes and names, every  *)
(* batch size and every outcome of a commit.  The invariant is stated for  *)
(* one tree, by index, and holds of the working tree and of the published  *)
(* one; the sorted build and REINDEX add what they rely on between their   *)
(* own steps.                                                              *)
(***************************************************************************)
EXTENDS IndexBuild, TLAPS

USE SMTT(30)

Tree == [rows : [Seqs -> Vals \cup {NoRow}], next : Nat, ids : Nat,
         ix : [Indexes -> IndexInfo], posts : [Indexes -> SUBSET Entry],
         names : [Names -> {0} \cup Indexes]]

Clash(e, f)    == e[1] # Null /\ e[1] = f[1] /\ e[2] # f[2]
Distinct(posts) == \A e, f \in posts : ~Clash(e, f)

(* What one index promises.  A BUILDING unique index may hold two entries   *)
(* of one value as long as the build has both still ahead of it.            *)
IndexOK(d, posts, exact) ==
  /\ posts # {} => d.root = 1
  /\ d.state = "none" => posts = {}
  /\ d.state = "ready" => posts = exact /\ (d.unique => Distinct(posts))
  /\ d.state = "building" =>
       /\ posts \subseteq exact
       /\ \A e \in exact : e[2] <= d.after => e \in posts
       /\ d.unique => \A e, f \in posts : e[2] <= d.after => ~Clash(e, f)

(* Names: a temporary one is of an index created later than the one it      *)
(* rebuilds, a retired one is of an index being dropped.                    *)
NamesOK(t) ==
  /\ \A i \in Indexes : t.ix[i].state # "none" =>
       /\ t.ix[i].name \in Names /\ t.names[t.ix[i].name] = i
       /\ i < t.ids
       /\ \A x \in Indexes : /\ t.ix[i].name = Temporary(x) => x < i
                             /\ t.ix[i].name = Retired(x) => x = i /\ t.ix[i].state = "dropping"
  /\ \A n \in Names : t.names[n] # 0 =>
       t.ix[t.names[n]].state # "none" /\ t.ix[t.names[n]].name = n

Sound(t) ==
  /\ t \in Tree /\ t.ids >= 1
  /\ \A i \in Indexes : IndexOK(t.ix[i], t.posts[i], Exact(t))
  /\ NamesOK(t)

(* The stream of the sorted build: what it has put is in the index, and no  *)
(* two entries of it clash.                                                 *)
SortIn(s, t) ==
  /\ s.id \in Indexes /\ s.put \subseteq Exact(t)
  /\ t.ix[s.id].state = "building"
  /\ s.put \subseteq t.posts[s.id]
  /\ t.ix[s.id].unique => Distinct(s.put)

(* Between the steps of REINDEX no other call runs. *)
StmtIn(r, t) ==
  /\ r \in [old : {0} \cup Indexes, at : {"none", "clean", "swap", "drop"}]
  /\ r.old = 0 <=> r.at = "none"
  /\ r.at \in {"clean", "swap"} => t.ix[r.old].state = "ready"
  /\ r.at = "swap" => t.names[Temporary(r.old)] # 0
  /\ r.at = "drop" => t.ix[r.old].state = "dropping"

SortOK == sorting # NoSort => disk = db /\ SortIn(sorting, db)
StmtOK == StmtIn(reindex, db)

Inv ==
  /\ Sound(db) /\ Sound(disk) /\ SortOK /\ StmtOK /\ CacheIsCurrent
  /\ sorting \in [id : {0} \cup Indexes, put : SUBSET Entry]
  /\ user \in BOOLEAN /\ failed \in BOOLEAN
  /\ failed => sorting = NoSort /\ reindex = NoStmt
  /\ cache.valid \in BOOLEAN
-----------------------------------------------------------------------------
(* One index at a time. *)

LEMMA ExactIs ==
  ASSUME NEW t \in Tree
  PROVE  /\ Exact(t) \subseteq Entry
         /\ \A s \in Seqs : t.rows[s] # NoRow => <<t.rows[s], s>> \in Exact(t)
         /\ \A e \in Exact(t) : e[2] \in Seqs /\ e = <<t.rows[e[2]], e[2]>> /\ t.rows[e[2]] # NoRow
<1>1. t.rows \in [Seqs -> Vals \cup {NoRow}]
  BY Zenon DEF Tree
<1>2. \A e \in Exact(t) : \E s \in Seqs : e = <<t.rows[s], s>> /\ t.rows[s] # NoRow
  BY Zenon DEF Exact, Rows
<1>3. \A e \in Exact(t) : e[2] \in Seqs /\ e = <<t.rows[e[2]], e[2]>> /\ t.rows[e[2]] # NoRow
  BY <1>2
<1>4. Exact(t) \subseteq Entry
  BY <1>1, <1>2 DEF Entry
<1> QED
  BY <1>3, <1>4, Zenon DEF Exact, Rows

(* A row write: the entry of the row goes, and the new one comes if it      *)
(* clashes with none that is there.                                         *)
LEMMA ExactWritten ==
  ASSUME NEW t \in Tree, NEW u \in Tree, NEW s \in Seqs, NEW v \in Vals \cup {NoRow},
         u.rows = [t.rows EXCEPT ![s] = v]
  PROVE  Exact(u) = (Exact(t) \ EntryOf(s, t.rows[s])) \cup EntryOf(s, v)
<1> DEFINE after == (Exact(t) \ EntryOf(s, t.rows[s])) \cup EntryOf(s, v)
<1>1. t.rows \in [Seqs -> Vals \cup {NoRow}] /\ u.rows[s] = v /\ \A r \in Seqs \ {s} : u.rows[r] = t.rows[r]
  BY Zenon DEF Tree
<1>2. ASSUME NEW e \in Exact(u) PROVE e \in after
  <2>1. e[2] \in Seqs /\ e = <<u.rows[e[2]], e[2]>> /\ u.rows[e[2]] # NoRow
    BY ExactIs, Zenon
  <2>2. CASE e[2] = s
    BY <1>1, <2>1, <2>2, Zenon DEF EntryOf
  <2>3. CASE e[2] # s
    <3>1. e \in Exact(t)
      BY <1>1, <2>1, <2>3, ExactIs
    <3>2. e \notin EntryOf(s, t.rows[s])
      BY <2>1, <2>3 DEF EntryOf
    <3> QED
      BY <3>1, <3>2, Zenon
  <2> QED
    BY <2>2, <2>3, Zenon
<1>3. ASSUME NEW e \in after PROVE e \in Exact(u)
  <2>1. CASE e \in EntryOf(s, v)
    BY <1>1, <2>1, ExactIs DEF EntryOf
  <2>2. CASE e \in Exact(t) /\ e \notin EntryOf(s, t.rows[s])
    <3>1. e[2] \in Seqs /\ e = <<t.rows[e[2]], e[2]>> /\ t.rows[e[2]] # NoRow
      BY <2>2, ExactIs, Zenon
    <3>2. e[2] # s
      BY <2>2, <3>1, Zenon DEF EntryOf
    <3> QED
      BY <1>1, <3>1, <3>2, ExactIs
  <2> QED
    BY <2>1, <2>2, Zenon
<1> QED
  BY <1>2, <1>3, Zenon

LEMMA WrittenOK ==
  ASSUME NEW t \in Tree, NEW u \in Tree, NEW s \in Seqs, NEW v \in Vals \cup {NoRow},
         u.rows = [t.rows EXCEPT ![s] = v],
         NEW i \in Indexes, IndexOK(t.ix[i], t.posts[i], Exact(t)),
         t.ix[i].state \in {"building", "ready"},
         u.ix[i].state = t.ix[i].state, u.ix[i].unique = t.ix[i].unique, u.ix[i].after = t.ix[i].after,
         u.posts[i] = (t.posts[i] \ EntryOf(s, t.rows[s])) \cup EntryOf(s, v),
         u.posts[i] # {} => u.ix[i].root = 1,
         t.ix[i].unique => \A e \in EntryOf(s, v) : ~Clashes(t.posts[i], e)
  PROVE  IndexOK(u.ix[i], u.posts[i], Exact(u))
<1> DEFINE X == Exact(t)
           P == t.posts[i]
           gone == EntryOf(s, t.rows[s])
           put == EntryOf(s, v)
<1>1. Exact(u) = (X \ gone) \cup put
  BY ExactWritten
<1>2. P \subseteq X
  BY Zenon DEF IndexOK
<1>3. \A e \in put : e = <<v, s>>
  BY Zenon DEF EntryOf
<1>4. \A e \in X \ gone : e[2] # s
  BY ExactIs DEF EntryOf
<1>5. t.ix[i].unique => \A e \in put, f \in P \ gone : ~Clash(e, f) /\ ~Clash(f, e)
  BY Zenon DEF Clashes, Clash
<1>6. \A e, f \in put : ~Clash(e, f)
  BY <1>3, Zenon DEF Clash
<1> HIDE DEF X, P, gone, put
<1>7. CASE t.ix[i].state = "ready"
  <2>1. P = X /\ (t.ix[i].unique => Distinct(P))
    BY <1>7, Zenon DEF IndexOK, P, X
  <2>2. u.posts[i] = Exact(u)
    BY <1>1, <2>1, Zenon DEF P, X, gone, put
  <2>3. t.ix[i].unique => Distinct(u.posts[i])
    BY <1>5, <1>6, <2>1, Zenon DEF Distinct, P, gone, put
  <2> QED
    BY <1>7, <2>2, <2>3, Zenon DEF IndexOK
<1>8. CASE t.ix[i].state = "building"
  <2>1. /\ \A e \in X : e[2] <= t.ix[i].after => e \in P
        /\ t.ix[i].unique => \A e, f \in P : e[2] <= t.ix[i].after => ~Clash(e, f)
    BY <1>8, Zenon DEF IndexOK, P, X
  <2>2. u.posts[i] \subseteq Exact(u)
    BY <1>1, <1>2, Zenon DEF P, gone, put
  <2>3. \A e \in Exact(u) : e[2] <= t.ix[i].after => e \in u.posts[i]
    BY <1>1, <2>1, Zenon DEF P, gone, put
  <2>4. t.ix[i].unique => \A e, f \in u.posts[i] : e[2] <= t.ix[i].after => ~Clash(e, f)
    BY <1>5, <1>6, <2>1, Zenon DEF P, gone, put
  <2> QED
    BY <1>8, <2>2, <2>3, <2>4, Zenon DEF IndexOK
<1> QED
  BY <1>7, <1>8, Zenon

(* A build step: the rows of the chunk are looked at against everything     *)
(* there is, so none behind the new cursor clashes.                         *)
LEMMA SteppedOK ==
  ASSUME NEW t \in Tree, NEW i \in Indexes, IndexOK(t.ix[i], t.posts[i], Exact(t)),
         t.ix[i].state = "building", NEW last \in Seqs, NEW chunk, NEW new,
         chunk = {s \in Rows(t) : s > t.ix[i].after /\ s <= last},
         new = {<<t.rows[s], s>> : s \in chunk},
         ~(t.ix[i].unique /\ \E e \in new : Clashes(t.posts[i] \cup new, e)),
         NEW d \in IndexInfo, d.unique = t.ix[i].unique,
         d.root = IF chunk = {} THEN t.ix[i].root ELSE 1,
         \/ d.state = "building" /\ d.after = last
         \/ d.state = "ready" /\ chunk = {s \in Rows(t) : s > t.ix[i].after}
  PROVE  IndexOK(d, t.posts[i] \cup new, Exact(t)) /\ new \subseteq Entry
<1> DEFINE P == t.posts[i]
           X == Exact(t)
           a == t.ix[i].after
<1>1. /\ P \subseteq X /\ (P # {} => t.ix[i].root = 1)
      /\ \A e \in X : e[2] <= a => e \in P
      /\ t.ix[i].unique => \A e, f \in P : e[2] <= a => ~Clash(e, f)
  BY Zenon DEF IndexOK
<1>2. \A e \in X : e[2] \in Seqs /\ e = <<t.rows[e[2]], e[2]>> /\ e[2] \in Rows(t)
  BY ExactIs, Zenon DEF Rows
<1>3. new \subseteq X
  BY Zenon DEF Exact
<1>4. a \in Nat /\ last \in Nat /\ Seqs \subseteq Nat
  BY DEF Tree, IndexInfo, Seqs
<1>12. \A e \in X : e[2] <= a \/ e[2] > a
  <2>1. \A e \in X : e[2] \in Nat
    BY <1>2, <1>4, Zenon
  <2> QED
    BY <1>4, <2>1
<1>5. \A e \in X : e[2] > a /\ e[2] <= last => e \in new
  BY <1>2, Zenon
<1>6. \A e \in X : e[2] <= last => e \in P \cup new
  BY <1>1, <1>5, <1>12, Zenon
<1>7. t.ix[i].unique => \A e \in new, f \in P \cup new : ~Clash(e, f) /\ ~Clash(f, e)
  BY DEF Clashes, Clash
<1>8. P \cup new # {} => d.root = 1
  BY <1>1, Zenon
<1>9. new \subseteq Entry
  BY <1>3, ExactIs, Zenon
<1> HIDE DEF P, X, a
<1>10. CASE d.state = "building" /\ d.after = last
  <2>1. t.ix[i].unique => \A e, f \in P \cup new : e[2] <= last => ~Clash(e, f)
    <3>1. \A e \in P : e \in X /\ (e[2] <= a \/ e[2] > a)
      BY <1>1, <1>12, Zenon
    <3> QED
      BY <1>1, <1>5, <1>7, <3>1, Zenon
  <2>2. IndexOK(d, P \cup new, X)
    BY <1>1, <1>3, <1>6, <1>8, <1>10, <2>1, Zenon DEF IndexOK
  <2> QED
    BY <1>9, <2>2, Zenon DEF P, X
<1>11. CASE d.state = "ready" /\ chunk = {s \in Rows(t) : s > a}
  <2>1. \A e \in X : e[2] > a => e \in new
    BY <1>2, <1>11, Zenon
  <2>2. P \cup new = X
    BY <1>1, <1>3, <1>12, <2>1, Zenon
  <2>3. t.ix[i].unique => Distinct(P \cup new)
    <3>1. \A e \in P : e \in X /\ (e[2] <= a \/ e[2] > a)
      BY <1>1, <1>12, Zenon
    <3> QED
      BY <1>1, <1>7, <2>1, <3>1, Zenon DEF Distinct
  <2>4. IndexOK(d, P \cup new, X)
    BY <1>8, <1>11, <2>2, <2>3, Zenon DEF IndexOK
  <2> QED
    BY <1>9, <2>4, Zenon DEF P, X
<1> QED
  BY <1>10, <1>11, Zenon DEF a

(* A run of the sorted build: a prefix of the stream is put, and a row      *)
(* ahead of the cursor that clashes with one behind it comes after that one *)
(* in the stream, where the build meets the two together.                   *)
LEMMA PutOK ==
  ASSUME NEW t \in Tree, NEW i \in Indexes, IndexOK(t.ix[i], t.posts[i], Exact(t)),
         t.ix[i].state = "building", NEW put, put \subseteq t.posts[i],
         t.ix[i].unique => Distinct(put),
         NEW e \in Exact(t), NEW group, group = {f \in Exact(t) : f = e \/ Below(f, e)},
         t.ix[i].unique => ~Duplicate(put, group \ put),
         NEW d \in IndexInfo, d.unique = t.ix[i].unique, d.state = "building", d.after = t.ix[i].after,
         d.root = 1
  PROVE  IndexOK(d, t.posts[i] \cup group, Exact(t)) /\ (d.unique => Distinct(group))
<1> DEFINE P == t.posts[i]
           X == Exact(t)
           a == t.ix[i].after
<1>1. /\ P \subseteq X
      /\ \A f \in X : f[2] <= a => f \in P
      /\ t.ix[i].unique => \A f, g \in P : f[2] <= a => ~Clash(f, g)
  BY Zenon DEF IndexOK
<1>2. t.ix[i].unique => Distinct(group)
  BY DEF Duplicate, Clashes, Clash, Distinct
<1>3. a \in Nat /\ \A f \in X : f[1] \in Int /\ f[2] \in Nat
  <2>1. \A f \in X : f \in Entry
    BY ExactIs, Zenon
  <2> QED
    BY <2>1 DEF Tree, IndexInfo, Entry, Vals, Seqs
<1>4. \A f, g \in X : g \in group /\ f[1] = g[1] /\ f[2] < g[2] => f \in group
  BY <1>3 DEF Below
<1> HIDE DEF P, X, a
<1>5. ASSUME t.ix[i].unique, NEW f \in P \cup group, NEW g \in P \cup group, f[2] <= a
      PROVE  ~Clash(f, g)
  <2>1. f \in P /\ f \in X /\ g \in X
    BY <1>1, <1>5, Zenon DEF X
  <2>2. CASE g \in P
    BY <1>1, <1>5, <2>1, <2>2, Zenon
  <2>3. CASE g \in group /\ g \notin P
    <3>1. a < g[2] /\ f[2] < g[2]
      BY <1>1, <1>3, <1>5, <2>1, <2>3
    <3>2. Clash(f, g) => f \in group
      BY <1>4, <2>1, <2>3, <3>1, Zenon DEF Clash
    <3> QED
      BY <1>2, <1>5, <2>3, <3>2, Zenon DEF Distinct
  <2> QED
    BY <2>2, <2>3, Zenon
<1>6. IndexOK(d, P \cup group, X)
  BY <1>1, <1>5, Zenon DEF IndexOK, X, a
<1> QED
  BY <1>2, <1>6, Zenon DEF P, X

LEMMA EndOK ==
  ASSUME NEW t \in Tree, NEW i \in Indexes, IndexOK(t.ix[i], t.posts[i], Exact(t)),
         t.ix[i].state = "building", NEW put, put \subseteq t.posts[i],
         t.ix[i].unique => Distinct(put),
         t.ix[i].unique => ~Duplicate(put, Exact(t) \ put),
         NEW d \in IndexInfo, d.unique = t.ix[i].unique, d.state = "ready",
         d.root = IF Exact(t) = {} THEN t.ix[i].root ELSE 1
  PROVE  IndexOK(d, t.posts[i] \cup Exact(t), Exact(t))
<1>1. t.posts[i] \cup Exact(t) = Exact(t)
  BY Zenon DEF IndexOK
<1>2. t.ix[i].unique => Distinct(Exact(t))
  BY Zenon DEF Duplicate, Clashes, Clash, Distinct
<1> QED
  BY <1>1, <1>2, Zenon DEF IndexOK
-----------------------------------------------------------------------------
(* One tree at a time: what each operation makes of a sound tree is sound. *)

LEMMA NamesDiffer ==
  /\ \A n, m : Named(n) = Named(m) => n = m
  /\ \A x, y : Temporary(x) = Temporary(y) => x = y
  /\ \A x, y : Retired(x) = Retired(y) => x = y
  /\ \A n, x : Named(n) # Temporary(x) /\ Named(n) # Retired(x)
  /\ \A x, y : Temporary(x) # Retired(y)
BY Zenon DEF Named, Temporary, Retired

LEMMA NumberedFromOne == Indexes \subseteq Nat /\ 0 \notin Indexes
BY DEF Indexes

LEMMA NamesOfKind ==
  /\ \A i \in Indexes : Temporary(i) \in Names /\ Retired(i) \in Names
  /\ \A n \in UserNames : Named(n) \in Names
BY Zenon DEF Names

LEMMA NamesSame ==
  ASSUME NEW t, NamesOK(t), NEW u, u.names = t.names, u.ids = t.ids,
         \A i \in Indexes : /\ u.ix[i].name = t.ix[i].name
                            /\ u.ix[i].state = "none" <=> t.ix[i].state = "none"
                            /\ t.ix[i].state = "dropping" => u.ix[i].state = "dropping",
         u.names \in [Names -> {0} \cup Indexes]
  PROVE  NamesOK(u)
<1>1. ASSUME NEW i \in Indexes, u.ix[i].state # "none"
      PROVE  /\ u.ix[i].name \in Names /\ u.names[u.ix[i].name] = i /\ i < u.ids
             /\ \A x \in Indexes : /\ u.ix[i].name = Temporary(x) => x < i
                                   /\ u.ix[i].name = Retired(x) => x = i /\ u.ix[i].state = "dropping"
  BY <1>1 DEF NamesOK
<1>2. ASSUME NEW n \in Names, u.names[n] # 0
      PROVE  u.ix[u.names[n]].state # "none" /\ u.ix[u.names[n]].name = n
  BY <1>2 DEF NamesOK
<1> QED
  BY <1>1, <1>2, Zenon DEF NamesOK

(* The tree u is t with another descriptor and other entries of index i. *)
Replaced(t, u, i, d, p) ==
  /\ u \in Tree /\ u.rows = t.rows /\ u.names = t.names /\ u.ids = t.ids
  /\ u.ix[i] = d /\ u.posts[i] = p
  /\ \A j \in Indexes \ {i} : u.ix[j] = t.ix[j] /\ u.posts[j] = t.posts[j]

LEMMA ReplacedIs ==
  ASSUME NEW t \in Tree, NEW i \in Indexes, NEW d \in IndexInfo, NEW p \in SUBSET Entry
  PROVE  Replaced(t, [t EXCEPT !.posts[i] = p, !.ix[i] = d], i, d, p)
<1> DEFINE u == [t EXCEPT !.posts[i] = p, !.ix[i] = d]
<1>1. t.ix \in [Indexes -> IndexInfo] /\ t.posts \in [Indexes -> SUBSET Entry]
  BY Zenon DEF Tree
<1>2. /\ u.ix = [t.ix EXCEPT ![i] = d] /\ u.posts = [t.posts EXCEPT ![i] = p]
      /\ u.rows = t.rows /\ u.names = t.names /\ u.ids = t.ids /\ u.next = t.next
  BY Zenon DEF Tree
<1>3. [t.ix EXCEPT ![i] = d] \in [Indexes -> IndexInfo] /\ [t.posts EXCEPT ![i] = p] \in [Indexes -> SUBSET Entry]
  BY <1>1, Zenon
<1>4. u \in Tree
  BY <1>3, Zenon DEF Tree
<1> QED
  BY <1>1, <1>2, <1>4 DEF Replaced

LEMMA OneIndex ==
  ASSUME NEW t, Sound(t), NEW u, NEW i \in Indexes, NEW d, NEW p, Replaced(t, u, i, d, p),
         d.name = t.ix[i].name, t.ix[i].state # "none", d.state # "none",
         t.ix[i].state = "dropping" => d.state = "dropping",
         IndexOK(d, p, Exact(t))
  PROVE  Sound(u) /\ Exact(u) = Exact(t)
<1>1. Exact(u) = Exact(t)
  BY DEF Exact, Rows, Replaced
<1>2. \A j \in Indexes : IndexOK(u.ix[j], u.posts[j], Exact(u))
  <2>1. ASSUME NEW j \in Indexes, j # i PROVE IndexOK(u.ix[j], u.posts[j], Exact(u))
    BY <1>1, <2>1, Zenon DEF Sound, Replaced
  <2>2. IndexOK(u.ix[i], u.posts[i], Exact(u))
    BY <1>1, Zenon DEF Replaced
  <2> QED
    BY <2>1, <2>2, Zenon
<1>3. NamesOK(u)
  <2>1. \A j \in Indexes : /\ u.ix[j].name = t.ix[j].name
                           /\ u.ix[j].state = "none" <=> t.ix[j].state = "none"
                           /\ t.ix[j].state = "dropping" => u.ix[j].state = "dropping"
    BY Zenon DEF Replaced
  <2>2. u.names \in [Names -> {0} \cup Indexes] /\ NamesOK(t) /\ u.names = t.names /\ u.ids = t.ids
    BY Zenon DEF Tree, Sound, Replaced
  <2> QED
    BY <2>1, <2>2, NamesSame, Zenon
<1>4. u \in Tree /\ u.ids >= 1
  BY Zenon DEF Replaced, Sound
<1> QED
  BY <1>1, <1>2, <1>3, <1>4, Zenon DEF Sound

(* The descriptor of an index, with its root, state and cursor replaced. *)
Redone(d, root, state, after) == [d EXCEPT !.root = root, !.state = state, !.after = after]

(* What an operation does to the one index it works on. *)
Stepping(t, i, last, chunk, new, d) ==
  /\ t.ix[i].state = "building"
  /\ chunk = {s \in Rows(t) : s > t.ix[i].after /\ s <= last}
  /\ new = {<<t.rows[s], s>> : s \in chunk}
  /\ ~(t.ix[i].unique /\ \E e \in new : Clashes(t.posts[i] \cup new, e))
  /\ d \in IndexInfo /\ d.unique = t.ix[i].unique /\ d.name = t.ix[i].name
  /\ d.root = IF chunk = {} THEN t.ix[i].root ELSE 1
  /\ \/ d.state = "building" /\ d.after = last
     \/ d.state = "ready" /\ chunk = {s \in Rows(t) : s > t.ix[i].after}

Putting(t, i, put, e, group, d) ==
  /\ t.ix[i].state = "building" /\ put \subseteq t.posts[i]
  /\ t.ix[i].unique => Distinct(put)
  /\ e \in Exact(t) /\ group = {f \in Exact(t) : f = e \/ Below(f, e)}
  /\ t.ix[i].unique => ~Duplicate(put, group \ put)
  /\ d \in IndexInfo /\ d.unique = t.ix[i].unique /\ d.name = t.ix[i].name
  /\ d.root = 1 /\ d.state = "building" /\ d.after = t.ix[i].after

Ending(t, i, put, d) ==
  /\ t.ix[i].state = "building" /\ put \subseteq t.posts[i]
  /\ t.ix[i].unique => Distinct(put)
  /\ t.ix[i].unique => ~Duplicate(put, Exact(t) \ put)
  /\ d \in IndexInfo /\ d.unique = t.ix[i].unique /\ d.name = t.ix[i].name
  /\ d.state = "ready" /\ d.root = IF Exact(t) = {} THEN t.ix[i].root ELSE 1

LEMMA SteppedTree ==
  ASSUME NEW t, Sound(t), NEW i \in Indexes, NEW last \in Seqs, NEW chunk, NEW new, NEW d,
         Stepping(t, i, last, chunk, new, d),
         NEW u, Replaced(t, u, i, d, t.posts[i] \cup new)
  PROVE  Sound(u)
<1>1. t \in Tree /\ IndexOK(t.ix[i], t.posts[i], Exact(t))
  BY Zenon DEF Sound
<1>2. IndexOK(d, t.posts[i] \cup new, Exact(t))
  BY <1>1, SteppedOK, Zenon DEF Stepping
<1>3. /\ d.state # "none" /\ t.ix[i].state # "none" /\ t.ix[i].state # "dropping"
      /\ d.name = t.ix[i].name
  BY Zenon DEF Stepping
<1> QED
  BY <1>2, <1>3, OneIndex, Zenon

(* A run, and the end of a sorted build. *)
LEMMA PutTree ==
  ASSUME NEW t, Sound(t), NEW i \in Indexes, NEW put, NEW e, NEW group, NEW d,
         Putting(t, i, put, e, group, d),
         NEW u, Replaced(t, u, i, d, t.posts[i] \cup group)
  PROVE  Sound(u) /\ Exact(u) = Exact(t) /\ (t.ix[i].unique => Distinct(group))
<1>1. t \in Tree /\ IndexOK(t.ix[i], t.posts[i], Exact(t))
  BY Zenon DEF Sound
<1>2. IndexOK(d, t.posts[i] \cup group, Exact(t)) /\ (d.unique => Distinct(group))
  BY <1>1, PutOK, Zenon DEF Putting
<1>3. /\ d.state # "none" /\ t.ix[i].state # "none" /\ t.ix[i].state # "dropping"
      /\ d.name = t.ix[i].name /\ d.unique = t.ix[i].unique
  BY Zenon DEF Putting
<1> QED
  BY <1>2, <1>3, OneIndex, Zenon

LEMMA EndTree ==
  ASSUME NEW t, Sound(t), NEW i \in Indexes, NEW put, NEW d, Ending(t, i, put, d),
         NEW u, Replaced(t, u, i, d, t.posts[i] \cup Exact(t))
  PROVE  Sound(u)
<1>1. t \in Tree /\ IndexOK(t.ix[i], t.posts[i], Exact(t))
  BY Zenon DEF Sound
<1>2. IndexOK(d, t.posts[i] \cup Exact(t), Exact(t))
  BY <1>1, EndOK, Zenon DEF Ending
<1>3. /\ d.state # "none" /\ t.ix[i].state # "none" /\ t.ix[i].state # "dropping"
      /\ d.name = t.ix[i].name
  BY Zenon DEF Ending
<1> QED
  BY <1>2, <1>3, OneIndex, Zenon

(* A drop begins, and a step of it that leaves entries behind. *)
LEMMA DroppingTree ==
  ASSUME NEW t, Sound(t), NEW i \in Indexes, t.ix[i].state # "none",
         NEW d \in IndexInfo, NEW p, p \subseteq t.posts[i], NEW u, Replaced(t, u, i, d, p),
         d.name = t.ix[i].name, d.root = t.ix[i].root, d.state = "dropping"
  PROVE  Sound(u)
<1>1. IndexOK(t.ix[i], t.posts[i], Exact(t))
  BY Zenon DEF Sound
<1>2. IndexOK(d, p, Exact(t))
  BY <1>1, Zenon DEF IndexOK
<1>3. d.state # "none"
  BY Zenon
<1> QED
  BY <1>2, <1>3, OneIndex, Zenon

(* create_index_full: the new index is empty and its cursor at the start. *)
LEMMA CreatedFields ==
  ASSUME NEW t \in Tree, t.ids \in Indexes, NEW name \in Names, NEW unique \in BOOLEAN
  PROVE  LET u == Created(t, name, unique)
             d == [state |-> "building", after |-> 0, root |-> 0, unique |-> unique, name |-> name]
         IN  /\ u \in Tree /\ u.rows = t.rows /\ u.posts = t.posts /\ u.ids = t.ids + 1
             /\ u.ix = [t.ix EXCEPT ![t.ids] = d] /\ u.names = [t.names EXCEPT ![name] = t.ids]
<1> DEFINE u == Created(t, name, unique)
           d == [state |-> "building", after |-> 0, root |-> 0, unique |-> unique, name |-> name]
<1>1. t.ix \in [Indexes -> IndexInfo] /\ t.names \in [Names -> {0} \cup Indexes] /\ t.ids + 1 \in Nat
  BY DEF Tree
<1>2. d \in IndexInfo
  BY Zenon DEF IndexInfo
<1>3. /\ u.rows = t.rows /\ u.posts = t.posts /\ u.ids = t.ids + 1 /\ u.next = t.next
      /\ u.ix = [t.ix EXCEPT ![t.ids] = d] /\ u.names = [t.names EXCEPT ![name] = t.ids]
  BY Zenon DEF Created, Tree
<1> HIDE DEF d
<1>4. [t.ix EXCEPT ![t.ids] = d] \in [Indexes -> IndexInfo] /\ [t.names EXCEPT ![name] = t.ids] \in [Names -> {0} \cup Indexes]
  BY <1>1, <1>2, Zenon
<1>5. u \in Tree
  BY <1>1, <1>4, Zenon DEF Tree, Created, d
<1> QED
  BY <1>3, <1>5, Zenon DEF d

LEMMA CreatedTree ==
  ASSUME NEW t, Sound(t), t.ids \in Indexes, NEW name \in Names, NEW unique \in BOOLEAN,
         t.names[name] = 0,
         \A x \in Indexes : (name = Temporary(x) => x < t.ids) /\ name # Retired(x)
  PROVE  Sound(Created(t, name, unique)) /\ Exact(Created(t, name, unique)) = Exact(t)
<1> DEFINE u == Created(t, name, unique)
           d == [state |-> "building", after |-> 0, root |-> 0, unique |-> unique, name |-> name]
           c == t.ids
<1>1. /\ t \in Tree /\ t.ix \in [Indexes -> IndexInfo] /\ t.names \in [Names -> {0} \cup Indexes]
      /\ NamesOK(t) /\ \A i \in Indexes : IndexOK(t.ix[i], t.posts[i], Exact(t))
  BY Zenon DEF Sound, Tree
<1>2. /\ u \in Tree /\ u.rows = t.rows /\ u.posts = t.posts /\ u.ids = c + 1
      /\ u.ix = [t.ix EXCEPT ![c] = d] /\ u.names = [t.names EXCEPT ![name] = c]
  BY <1>1, CreatedFields
<1>3. d.state = "building" /\ d.after = 0 /\ d.name = name
  BY Zenon
<1> HIDE DEF u, d
<1>4. c \in Nat /\ c # 0 /\ Indexes \subseteq Nat /\ 0 \notin Indexes
  BY DEF Indexes
<1>5. t.ix[c].state = "none" /\ t.posts[c] = {}
  BY <1>1, <1>4 DEF NamesOK, IndexOK
<1>6. Exact(u) = Exact(t)
  BY <1>2, Zenon DEF Exact, Rows
<1>7. ASSUME NEW i \in Indexes PROVE IndexOK(u.ix[i], u.posts[i], Exact(u))
  <2>1. CASE i # c
    BY <1>1, <1>2, <1>6, <2>1, Zenon
  <2>2. CASE i = c
    <3>1. \A e \in Exact(t) : ~(e[2] <= 0)
      BY <1>1, ExactIs DEF Seqs
    <3> QED
      BY <1>1, <1>2, <1>3, <1>5, <1>6, <2>2, <3>1 DEF IndexOK
  <2> QED
    BY <2>1, <2>2, Zenon
<1>8. NamesOK(u)
  <2>1. ASSUME NEW i \in Indexes, u.ix[i].state # "none"
        PROVE  /\ u.ix[i].name \in Names /\ u.names[u.ix[i].name] = i /\ i < u.ids
               /\ \A x \in Indexes : /\ u.ix[i].name = Temporary(x) => x < i
                                     /\ u.ix[i].name = Retired(x) => x = i /\ u.ix[i].state = "dropping"
    <3>1. CASE i = c
      BY <1>1, <1>2, <1>3, <1>4, <3>1
    <3>2. CASE i # c
      <4>1. u.ix[i] = t.ix[i] /\ t.names[t.ix[i].name] = i /\ t.ix[i].name \in Names /\ i < c
        BY <1>1, <1>2, <2>1, <3>2 DEF NamesOK
      <4>2. t.ix[i].name # name
        BY <1>4, <4>1, Zenon
      <4>3. i < c + 1
        BY <1>4, <4>1
      <4> QED
        BY <1>1, <1>2, <2>1, <4>1, <4>2, <4>3 DEF NamesOK
    <3> QED
      BY <3>1, <3>2, Zenon
  <2>2. ASSUME NEW n \in Names, u.names[n] # 0
        PROVE  u.ix[u.names[n]].state # "none" /\ u.ix[u.names[n]].name = n
    <3>1. CASE n = name
      BY <1>1, <1>2, <1>3, <3>1, Zenon
    <3>2. CASE n # name
      <4>1. u.names[n] = t.names[n] /\ t.names[n] \in Indexes
        BY <1>1, <1>2, <2>2, <3>2, Zenon
      <4>2. t.ix[t.names[n]].state # "none" /\ t.ix[t.names[n]].name = n
        BY <1>1, <4>1, <1>4, Zenon DEF NamesOK
      <4> QED
        BY <1>1, <1>2, <1>5, <4>1, <4>2
    <3> QED
      BY <3>1, <3>2, Zenon
  <2> QED
    BY <2>1, <2>2, Zenon DEF NamesOK
<1>9. u.ids >= 1
  BY <1>2, <1>4
<1> QED
  BY <1>2, <1>6, <1>7, <1>8, <1>9, Zenon DEF Sound, u

(* The last step of a drop: the descriptor, the name and the entries go. *)
LEMMA ForgottenFields ==
  ASSUME NEW t \in Tree, NEW i \in Indexes, t.ix[i].name \in Names
  PROVE  LET u == Forgotten(t, i)
         IN  /\ u \in Tree /\ u.rows = t.rows /\ u.posts = [t.posts EXCEPT ![i] = {}] /\ u.ids = t.ids
             /\ u.ix = [t.ix EXCEPT ![i] = NoIndex] /\ u.names = [t.names EXCEPT ![t.ix[i].name] = 0]
<1> DEFINE u == Forgotten(t, i)
<1>1. /\ t.ix \in [Indexes -> IndexInfo] /\ t.names \in [Names -> {0} \cup Indexes]
      /\ t.posts \in [Indexes -> SUBSET Entry]
  BY Zenon DEF Tree
<1>2. NoIndex \in IndexInfo
  BY Zenon DEF IndexInfo, NoIndex
<1>3. /\ u.rows = t.rows /\ u.posts = [t.posts EXCEPT ![i] = {}] /\ u.ids = t.ids /\ u.next = t.next
      /\ u.ix = [t.ix EXCEPT ![i] = NoIndex] /\ u.names = [t.names EXCEPT ![t.ix[i].name] = 0]
  BY Zenon DEF Forgotten, Tree
<1>4. /\ [t.ix EXCEPT ![i] = NoIndex] \in [Indexes -> IndexInfo]
      /\ [t.names EXCEPT ![t.ix[i].name] = 0] \in [Names -> {0} \cup Indexes]
      /\ [t.posts EXCEPT ![i] = {}] \in [Indexes -> SUBSET Entry]
  BY <1>1, <1>2, Zenon
<1>5. u \in Tree
  BY <1>1, <1>4, Zenon DEF Tree, Forgotten
<1> QED
  BY <1>3, <1>5, Zenon

LEMMA ForgottenTree ==
  ASSUME NEW t, Sound(t), NEW i \in Indexes, t.ix[i].state # "none"
  PROVE  Sound(Forgotten(t, i))
<1> DEFINE u == Forgotten(t, i)
           m == t.ix[i].name
<1>1. /\ t \in Tree /\ t.ix \in [Indexes -> IndexInfo] /\ t.names \in [Names -> {0} \cup Indexes]
      /\ t.posts \in [Indexes -> SUBSET Entry] /\ t.ids \in Nat /\ t.ids >= 1
      /\ NamesOK(t) /\ \A j \in Indexes : IndexOK(t.ix[j], t.posts[j], Exact(t))
  BY Zenon DEF Sound, Tree
<1>2. m \in Names /\ t.names[m] = i
  BY <1>1, Zenon DEF NamesOK
<1>3. /\ u \in Tree /\ u.rows = t.rows /\ u.posts = [t.posts EXCEPT ![i] = {}] /\ u.ids = t.ids
      /\ u.ix = [t.ix EXCEPT ![i] = NoIndex] /\ u.names = [t.names EXCEPT ![m] = 0]
  BY <1>1, <1>2, ForgottenFields, Zenon
<1>4. NoIndex.state = "none"
  BY Zenon DEF NoIndex
<1> HIDE DEF u, m
<1>5. Exact(u) = Exact(t)
  BY <1>3 DEF Exact, Rows
<1>6. ASSUME NEW j \in Indexes PROVE IndexOK(u.ix[j], u.posts[j], Exact(u))
  <2>1. CASE j # i
    BY <1>1, <1>3, <1>5, <2>1, Zenon
  <2>2. CASE j = i
    BY <1>1, <1>3, <1>4, <2>2 DEF IndexOK
  <2> QED
    BY <2>1, <2>2, Zenon
<1>7. NamesOK(u)
  <2>1. ASSUME NEW j \in Indexes, u.ix[j].state # "none"
        PROVE  /\ u.ix[j].name \in Names /\ u.names[u.ix[j].name] = j /\ j < u.ids
               /\ \A x \in Indexes : /\ u.ix[j].name = Temporary(x) => x < j
                                     /\ u.ix[j].name = Retired(x) => x = j /\ u.ix[j].state = "dropping"
    <3>1. j # i /\ u.ix[j] = t.ix[j]
      BY <1>1, <1>3, <1>4, <2>1, Zenon
    <3>2. t.ix[j].name \in Names /\ t.names[t.ix[j].name] = j
      BY <1>1, <2>1, <3>1, Zenon DEF NamesOK
    <3>3. u.names[t.ix[j].name] = j
      BY <1>1, <1>2, <1>3, <3>1, <3>2, Zenon
    <3> QED
      BY <1>1, <1>3, <2>1, <3>1, <3>3 DEF NamesOK
  <2>2. ASSUME NEW n \in Names, u.names[n] # 0
        PROVE  u.ix[u.names[n]].state # "none" /\ u.ix[u.names[n]].name = n
    <3>1. n # m /\ u.names[n] = t.names[n] /\ t.names[n] \in Indexes
      BY <1>1, <1>2, <1>3, <2>2
    <3>2. t.ix[t.names[n]].state # "none" /\ t.ix[t.names[n]].name = n
      BY <1>1, <2>2, <3>1, Zenon DEF NamesOK
    <3>3. t.names[n] # i
      BY <3>1, <3>2, Zenon DEF m
    <3> QED
      BY <1>1, <1>3, <3>1, <3>2, <3>3
  <2> QED
    BY <2>1, <2>2, Zenon DEF NamesOK
<1> QED
  BY <1>1, <1>3, <1>6, <1>7, Zenon DEF Sound, u

(* swap_index_names: the new index, created later than the old one, takes   *)
(* its name; the old one is dropping under its retired name.                *)
LEMMA SwappedFields ==
  ASSUME NEW t \in Tree, NEW o \in Indexes, NEW n \in Indexes, o # n,
         t.ix[o].name \in Names, t.ix[n].name \in Names
  PROVE  LET u == Swapped(t, o, n)
         IN  /\ u \in Tree /\ u.rows = t.rows /\ u.posts = t.posts /\ u.ids = t.ids
             /\ u.names = [[[t.names EXCEPT ![t.ix[n].name] = 0] EXCEPT ![t.ix[o].name] = n] EXCEPT ![Retired(o)] = o]
             /\ u.ix[o].state = "dropping" /\ u.ix[o].name = Retired(o) /\ u.ix[o].root = t.ix[o].root
             /\ u.ix[n].name = t.ix[o].name
             /\ \A p, x : IndexOK(t.ix[n], p, x) => IndexOK(u.ix[n], p, x)
             /\ u.ix[n].state = t.ix[n].state
             /\ \A j \in Indexes \ {o, n} : u.ix[j] = t.ix[j]
<1> DEFINE u == Swapped(t, o, n)
           a == [t.ix[o] EXCEPT !.state = "dropping", !.name = Retired(o)]
           b == [t.ix[n] EXCEPT !.name = t.ix[o].name]
           ix == [[t.ix EXCEPT ![o] = a] EXCEPT ![n] = b]
           nm == [[[t.names EXCEPT ![t.ix[n].name] = 0] EXCEPT ![t.ix[o].name] = n] EXCEPT ![Retired(o)] = o]
<1>1. /\ t.ix \in [Indexes -> IndexInfo] /\ t.names \in [Names -> {0} \cup Indexes]
      /\ Retired(o) \in Names /\ t.ix[o] \in IndexInfo /\ t.ix[n] \in IndexInfo
  BY Zenon DEF Tree, Names
<1>2. a \in IndexInfo /\ a.state = "dropping" /\ a.name = Retired(o) /\ a.root = t.ix[o].root
  BY <1>1, Zenon DEF IndexInfo
<1>3. /\ b \in IndexInfo /\ b.name = t.ix[o].name /\ b.state = t.ix[n].state /\ b.root = t.ix[n].root
      /\ b.after = t.ix[n].after /\ b.unique = t.ix[n].unique
  BY <1>1, Zenon DEF IndexInfo
<1>4. \A p, x : IndexOK(t.ix[n], p, x) => IndexOK(b, p, x)
  BY <1>3, ZenonT(30) DEF IndexOK
<1>5. /\ u.rows = t.rows /\ u.posts = t.posts /\ u.ids = t.ids /\ u.next = t.next
      /\ u.ix = ix /\ u.names = nm
  BY <1>1, Zenon DEF Swapped, Tree
<1> HIDE DEF a, b
<1>6. ix \in [Indexes -> IndexInfo] /\ ix[o] = a /\ ix[n] = b /\ \A j \in Indexes \ {o, n} : ix[j] = t.ix[j]
  BY <1>1, <1>2, <1>3, Zenon
<1>7. nm \in [Names -> {0} \cup Indexes]
  BY <1>1, Zenon
<1> HIDE DEF ix, nm
<1>8. u = [t EXCEPT !.ix = ix, !.names = nm]
  BY <1>1, Zenon DEF Swapped, Tree, ix, nm, a, b
<1>9. u \in Tree
  BY <1>6, <1>7, <1>8, Zenon DEF Tree
<1> HIDE DEF u
<1>10. \A p, x : IndexOK(t.ix[n], p, x) => IndexOK(u.ix[n], p, x)
  BY <1>4, <1>5, <1>6, Zenon
<1> QED
  BY <1>2, <1>3, <1>5, <1>6, <1>9, <1>10, Zenon DEF u, nm

LEMMA SwappedTree ==
  ASSUME NEW t, Sound(t), NEW o \in Indexes, NEW n \in Indexes,
         t.ix[o].state = "ready", t.ix[n].state # "none", t.ix[n].name = Temporary(o)
  PROVE  /\ Sound(Swapped(t, o, n)) /\ Swapped(t, o, n).ix[o].state = "dropping" /\ o # n
         /\ t.ix[o].name \in Names /\ t.ix[n].name \in Names
<1> DEFINE u == Swapped(t, o, n)
           a == t.ix[o].name
           b == t.ix[n].name
           r == Retired(o)
<1>1. /\ t \in Tree /\ t.ix \in [Indexes -> IndexInfo] /\ t.names \in [Names -> {0} \cup Indexes]
      /\ t.ids \in Nat /\ t.ids >= 1 /\ Indexes \subseteq Nat
      /\ NamesOK(t) /\ \A j \in Indexes : IndexOK(t.ix[j], t.posts[j], Exact(t))
  BY DEF Sound, Tree, Indexes
<1>2. /\ a \in Names /\ t.names[a] = o /\ o < t.ids /\ b \in Names /\ t.names[b] = n /\ n < t.ids
      /\ r \in Names /\ 0 \notin Indexes /\ o < n
      /\ \A x \in Indexes : /\ a = Temporary(x) => x < o
                            /\ a # Retired(x)
  <2>1. /\ a \in Names /\ t.names[a] = o /\ o < t.ids
        /\ \A x \in Indexes : (a = Temporary(x) => x < o) /\ a # Retired(x)
    BY <1>1, SMT DEF NamesOK
  <2>2. b \in Names /\ t.names[b] = n /\ n < t.ids /\ o < n
    BY <1>1, SMT DEF NamesOK
  <2>3. 0 \notin Indexes
    BY NumberedFromOne, Zenon
  <2>4. r \in Names
    BY NamesOfKind, Zenon
  <2> QED
    BY <2>1, <2>2, <2>3, <2>4, Zenon
<1>3. o # n
  BY <1>1, <1>2
<1>4. a # b /\ r # a /\ r # b
  BY <1>2, <1>3, NamesDiffer, Zenon
<1>5. t.names[r] = 0
  <2>1. SUFFICES ASSUME t.names[r] # 0 PROVE FALSE
    BY Zenon
  <2>2. t.names[r] \in Indexes
    BY <1>1, <1>2, <2>1, Zenon
  <2>3. t.ix[t.names[r]].state # "none" /\ t.ix[t.names[r]].name = r
    BY <1>1, <1>2, <2>1, Zenon DEF NamesOK
  <2>4. \A j, x \in Indexes : t.ix[j].state # "none" /\ t.ix[j].name = Retired(x) => x = j /\ t.ix[j].state = "dropping"
    BY <1>1, Zenon DEF NamesOK
  <2>5. t.names[r] = o /\ t.ix[t.names[r]].state = "dropping"
    BY <2>2, <2>3, <2>4, Zenon
  <2> QED
    BY <2>5, Zenon
<1>6. /\ u \in Tree /\ u.rows = t.rows /\ u.posts = t.posts /\ u.ids = t.ids
      /\ u.names = [[[t.names EXCEPT ![b] = 0] EXCEPT ![a] = n] EXCEPT ![r] = o]
      /\ u.ix[o].state = "dropping" /\ u.ix[o].name = r /\ u.ix[o].root = t.ix[o].root
      /\ u.ix[n].name = a
      /\ \A p, x : IndexOK(t.ix[n], p, x) => IndexOK(u.ix[n], p, x)
      /\ u.ix[n].state = t.ix[n].state
      /\ \A j \in Indexes \ {o, n} : u.ix[j] = t.ix[j]
  BY <1>1, <1>2, <1>3, SwappedFields, ZenonT(30)
<1> HIDE DEF u, a, b, r
<1>7. /\ u.names[a] = n /\ u.names[b] = 0 /\ u.names[r] = o
      /\ \A m \in Names \ {a, b, r} : u.names[m] = t.names[m]
  BY <1>1, <1>2, <1>4, <1>6
<1>8. Exact(u) = Exact(t)
  BY <1>6 DEF Exact, Rows
<1>9. ASSUME NEW j \in Indexes PROVE IndexOK(u.ix[j], u.posts[j], Exact(u))
  <2>1. CASE j \notin {o, n}
    BY <1>1, <1>6, <1>8, <2>1, Zenon
  <2>2. CASE j = n
    BY <1>1, <1>6, <1>8, <2>2, Zenon
  <2>3. CASE j = o
    <3>1. t.posts[o] # {} => t.ix[o].root = 1
      BY <1>1, Zenon DEF IndexOK
    <3> QED
      BY <1>6, <2>3, <3>1, Zenon DEF IndexOK
  <2> QED
    BY <2>1, <2>2, <2>3, Zenon
<1>10. ASSUME NEW j \in Indexes, u.ix[j].state # "none"
       PROVE  /\ u.ix[j].name \in Names /\ u.names[u.ix[j].name] = j /\ j < u.ids
              /\ \A x \in Indexes : /\ u.ix[j].name = Temporary(x) => x < j
                                    /\ u.ix[j].name = Retired(x) => x = j /\ u.ix[j].state = "dropping"
  <2>1. CASE j \notin {o, n}
    <3>1. /\ u.ix[j] = t.ix[j] /\ t.ix[j].name \in Names /\ t.names[t.ix[j].name] = j /\ j < t.ids
          /\ \A x \in Indexes : /\ t.ix[j].name = Temporary(x) => x < j
                                /\ t.ix[j].name = Retired(x) => x = j /\ t.ix[j].state = "dropping"
      BY <1>1, <1>6, <1>10, <2>1 DEF NamesOK
    <3>2. t.ix[j].name \notin {a, b, r}
      BY <1>2, <1>5, <2>1, <3>1, Zenon
    <3> QED
      BY <1>6, <1>7, <3>1, <3>2
  <2>2. CASE j = n
    <3>1. \A x \in Indexes : x < o => x < n
      BY <1>1, <1>2, SMTT(30)
    <3> QED
      BY <1>2, <1>6, <1>7, <2>2, <3>1, Zenon
  <2>3. CASE j = o
    BY <1>2, <1>6, <1>7, <2>3, NamesDiffer DEF r
  <2> QED
    BY <2>1, <2>2, <2>3, Zenon
<1>11. ASSUME NEW m \in Names, u.names[m] # 0
       PROVE  u.ix[u.names[m]].state # "none" /\ u.ix[u.names[m]].name = m
  <2>1. CASE m \notin {a, b, r}
    <3>1. u.names[m] = t.names[m] /\ t.names[m] \in Indexes
      BY <1>1, <1>7, <1>11, <2>1, Zenon
    <3>2. t.ix[t.names[m]].state # "none" /\ t.ix[t.names[m]].name = m
      BY <1>1, <1>2, <3>1 DEF NamesOK
    <3>3. t.names[m] \notin {o, n}
      BY <2>1, <3>2, Zenon DEF a, b
    <3> QED
      BY <1>6, <3>1, <3>2, <3>3
  <2>2. CASE m = a
    BY <1>6, <1>7, <2>2, Zenon
  <2>3. CASE m = r
    BY <1>6, <1>7, <2>3, Zenon
  <2> QED
    BY <1>7, <1>11, <2>1, <2>2, <2>3, Zenon
<1>12. NamesOK(u)
  BY <1>10, <1>11, Zenon DEF NamesOK
<1>13. Sound(u)
  BY <1>1, <1>6, <1>9, <1>12, Zenon DEF Sound
<1> QED
  BY <1>2, <1>3, <1>6, <1>13, Zenon DEF u, a, b

(* A row write under a current list of the descriptors: every index that is *)
(* building or ready is maintained, and none clashes.                       *)
Maint(t, s, new) ==
  {i \in Indexes : t.ix[i].state \in {"building", "ready"} /\ t.rows[s] # new}

LEMMA WrittenTree ==
  ASSUME NEW t, Sound(t), NEW s \in Seqs, NEW v \in Vals \cup {NoRow},
         NEW u \in Tree, u.rows = [t.rows EXCEPT ![s] = v], u.names = t.names, u.ids = t.ids,
         \A i \in Indexes : /\ u.ix[i].state = t.ix[i].state /\ u.ix[i].unique = t.ix[i].unique
                            /\ u.ix[i].after = t.ix[i].after /\ u.ix[i].name = t.ix[i].name
                            /\ t.ix[i].root = 1 => u.ix[i].root = 1,
         \A i \in Indexes \ Maint(t, s, v) : u.posts[i] = t.posts[i],
         \A i \in Maint(t, s, v) :
           /\ u.posts[i] = (t.posts[i] \ EntryOf(s, t.rows[s])) \cup EntryOf(s, v)
           /\ EntryOf(s, v) # {} => u.ix[i].root = 1
           /\ t.ix[i].unique => \A e \in EntryOf(s, v) : ~Clashes(t.posts[i], e)
  PROVE  Sound(u)
<1>1. /\ t \in Tree /\ t.ids >= 1 /\ NamesOK(t) /\ t.rows \in [Seqs -> Vals \cup {NoRow}]
      /\ u.names \in [Names -> {0} \cup Indexes] /\ t.ix \in [Indexes -> IndexInfo]
  BY Zenon DEF Sound, Tree
<1>2. ASSUME NEW i \in Indexes PROVE IndexOK(u.ix[i], u.posts[i], Exact(u))
  <2>1. IndexOK(t.ix[i], t.posts[i], Exact(t)) /\ (t.posts[i] # {} => t.ix[i].root = 1)
    BY Zenon DEF Sound, IndexOK
  <2>2. CASE i \in Maint(t, s, v)
    <3>1. /\ t.ix[i].state \in {"building", "ready"}
          /\ u.posts[i] = (t.posts[i] \ EntryOf(s, t.rows[s])) \cup EntryOf(s, v)
          /\ EntryOf(s, v) # {} => u.ix[i].root = 1
          /\ t.ix[i].unique => \A e \in EntryOf(s, v) : ~Clashes(t.posts[i], e)
      BY <2>2, Zenon DEF Maint
    <3>2. u.posts[i] # {} => u.ix[i].root = 1
      BY <2>1, <3>1, Zenon
    <3> QED
      BY <1>1, <2>1, <3>1, <3>2, WrittenOK, Zenon
  <2>3. CASE i \notin Maint(t, s, v) /\ t.ix[i].state \in {"building", "ready"}
    <3>1. t.rows[s] = v
      BY <2>3, Zenon DEF Maint
    <3>2. u.rows = t.rows
      BY <1>1, <3>1, Zenon
    <3>3. Exact(u) = Exact(t)
      BY <3>2 DEF Exact, Rows
    <3>4. u.posts[i] = t.posts[i]
      BY <2>3, Zenon
    <3> QED
      BY <2>1, <3>3, <3>4, Zenon DEF IndexOK
  <2>4. CASE t.ix[i].state \notin {"building", "ready"}
    <3>1. u.posts[i] = t.posts[i]
      BY <2>4, Zenon DEF Maint
    <3> QED
      BY <2>1, <2>4, <3>1, Zenon DEF IndexOK
  <2> QED
    BY <2>2, <2>3, <2>4, Zenon
<1>3. NamesOK(u)
  <2>1. \A i \in Indexes : /\ u.ix[i].name = t.ix[i].name
                           /\ u.ix[i].state = "none" <=> t.ix[i].state = "none"
                           /\ t.ix[i].state = "dropping" => u.ix[i].state = "dropping"
    BY Zenon
  <2> QED
    BY <1>1, <2>1, NamesSame, Zenon
<1> QED
  BY <1>1, <1>2, <1>3, Zenon DEF Sound

(* The names answered in t by a READY index are answered so in u. *)
Answered(t, n) == t.names[n] # 0 /\ t.ix[t.names[n]].state = "ready"
Kept(t, u) == \A n \in UserNames : Answered(t, Named(n)) => Answered(u, Named(n))

LEMMA KeptSame ==
  ASSUME NEW t, Sound(t), NEW u, u.names = t.names,
         \A i \in Indexes : t.ix[i].state = "ready" => u.ix[i].state = "ready"
  PROVE  Kept(t, u)
<1>1. t.names \in [Names -> {0} \cup Indexes]
  BY Zenon DEF Sound, Tree
<1>2. \A n \in UserNames : t.names[Named(n)] # 0 => t.names[Named(n)] \in Indexes
  BY <1>1, NamesOfKind, Zenon
<1> QED
  BY <1>2, Zenon DEF Kept, Answered

LEMMA KeptCreated ==
  ASSUME NEW t, Sound(t), t.ids \in Indexes, NEW name \in Names, NEW unique \in BOOLEAN, t.names[name] = 0
  PROVE  Kept(t, Created(t, name, unique))
<1> DEFINE u == Created(t, name, unique)
           d == [state |-> "building", after |-> 0, root |-> 0, unique |-> unique, name |-> name]
<1>1. /\ t \in Tree /\ t.names \in [Names -> {0} \cup Indexes] /\ t.ix \in [Indexes -> IndexInfo] /\ NamesOK(t)
      /\ t.ids \in Nat
  BY Zenon DEF Sound, Tree
<1>2. u.ix = [t.ix EXCEPT ![t.ids] = d] /\ u.names = [t.names EXCEPT ![name] = t.ids]
  BY <1>1, CreatedFields
<1> HIDE DEF u, d
<1>3. t.ix[t.ids].state = "none"
  BY <1>1 DEF NamesOK
<1>4. ASSUME NEW n \in UserNames, Answered(t, Named(n)) PROVE Answered(u, Named(n))
  <2>1. Named(n) \in Names /\ t.names[Named(n)] \in Indexes /\ t.ix[t.names[Named(n)]].state = "ready"
    BY <1>1, <1>4, NamesOfKind, Zenon DEF Answered
  <2>2. Named(n) # name /\ t.names[Named(n)] # t.ids
    BY <1>3, <1>4, <2>1, Zenon DEF Answered
  <2> QED
    BY <1>1, <1>2, <1>4, <2>1, <2>2 DEF Answered
<1> QED
  BY <1>4, Zenon DEF Kept, u

LEMMA KeptForgotten ==
  ASSUME NEW t, Sound(t), NEW i \in Indexes, t.ix[i].state # "none",
         t.ix[i].state = "dropping" \/ \E x \in Indexes : t.ix[i].name = Temporary(x)
  PROVE  Kept(t, Forgotten(t, i))
<1> DEFINE u == Forgotten(t, i)
<1>1. /\ t \in Tree /\ t.names \in [Names -> {0} \cup Indexes] /\ t.ix \in [Indexes -> IndexInfo] /\ NamesOK(t)
  BY Zenon DEF Sound, Tree
<1>2. t.ix[i].name \in Names /\ t.names[t.ix[i].name] = i
  BY <1>1, Zenon DEF NamesOK
<1>3. u.ix = [t.ix EXCEPT ![i] = NoIndex] /\ u.names = [t.names EXCEPT ![t.ix[i].name] = 0]
  BY <1>1, <1>2, ForgottenFields, Zenon
<1> HIDE DEF u
<1>4. ASSUME NEW n \in UserNames, Answered(t, Named(n)) PROVE Answered(u, Named(n))
  <2>1. Named(n) \in Names /\ t.names[Named(n)] \in Indexes /\ t.ix[t.names[Named(n)]].state = "ready"
    BY <1>1, <1>4, NamesOfKind, Zenon DEF Answered
  <2>2. t.ix[t.names[Named(n)]].name = Named(n)
    BY <1>1, <1>4, <2>1, Zenon DEF NamesOK, Answered
  <2>3. t.names[Named(n)] # i
    BY <2>1, <2>2, NamesDiffer, Zenon
  <2>4. t.ix[i].name # Named(n)
    BY <1>2, <2>3, Zenon
  <2> QED
    BY <1>1, <1>2, <1>3, <1>4, <2>1, <2>3, <2>4 DEF Answered
<1> QED
  BY <1>4, Zenon DEF Kept, u

LEMMA KeptSwapped ==
  ASSUME NEW t, Sound(t), NEW o \in Indexes, NEW n \in Indexes,
         t.ix[o].state = "ready", t.ix[n].state = "ready", t.ix[n].name = Temporary(o)
  PROVE  Kept(t, Swapped(t, o, n))
<1> DEFINE u == Swapped(t, o, n)
           a == t.ix[o].name
           b == t.ix[n].name
           r == Retired(o)
<1>1. /\ t \in Tree /\ t.names \in [Names -> {0} \cup Indexes] /\ t.ix \in [Indexes -> IndexInfo] /\ NamesOK(t)
      /\ r \in Names
  BY NamesOfKind, Zenon DEF Sound, Tree
<1>2. a \in Names /\ b \in Names /\ o # n
  BY SwappedTree, SMTT(30)
<1>3. /\ u.names = [[[t.names EXCEPT ![b] = 0] EXCEPT ![a] = n] EXCEPT ![r] = o]
      /\ u.ix[n].state = t.ix[n].state /\ \A j \in Indexes \ {o, n} : u.ix[j] = t.ix[j]
  BY <1>1, <1>2, SwappedFields
<1>4. t.names[a] = o /\ t.names[b] = n
  BY <1>1, Zenon DEF NamesOK
<1> HIDE DEF u, a, b
<1>5. ASSUME NEW m \in UserNames, Answered(t, Named(m)) PROVE Answered(u, Named(m))
  <2>1. /\ Named(m) \in Names /\ t.names[Named(m)] \in Indexes /\ t.ix[t.names[Named(m)]].state = "ready"
        /\ t.ix[t.names[Named(m)]].name = Named(m)
    BY <1>1, <1>5, NamesOfKind, Zenon DEF Answered, NamesOK
  <2>2. Named(m) # b /\ Named(m) # r
    BY NamesDiffer, Zenon DEF b
  <2>3. CASE Named(m) = a
    <3>1. u.names[Named(m)] = n
      BY <1>1, <1>2, <1>3, <2>1, <2>2, <2>3, Zenon
    <3> QED
      BY <1>3, <3>1, NumberedFromOne, Zenon DEF Answered
  <2>4. CASE Named(m) # a
    <3>1. u.names[Named(m)] = t.names[Named(m)]
      BY <1>1, <1>2, <1>3, <2>1, <2>2, <2>4, Zenon
    <3>2. t.names[Named(m)] # o /\ t.names[Named(m)] # n
      BY <2>1, <2>2, <2>4, Zenon DEF a, b
    <3> QED
      BY <1>3, <1>5, <2>1, <3>1, <3>2 DEF Answered
  <2> QED
    BY <2>3, <2>4, Zenon
<1> QED
  BY <1>5, Zenon DEF Kept, u
-----------------------------------------------------------------------------
(* The steps. *)

LEMMA NoStmtIn == \A t : StmtIn(NoStmt, t)
BY Zenon DEF StmtIn, NoStmt

LEMMA NoSortTypes == NoSort.id = 0 /\ NoSort.put = {} /\ NoList.valid = FALSE
BY Zenon DEF NoSort, NoList

LEMMA Published ==
  ASSUME NEW t, Publish(t)
  PROVE  disk' \in {disk, t} /\ failed' \in BOOLEAN /\ (~failed' => disk' = t)
BY Zenon DEF Publish

(* A step after which no sorted build is under way. *)
LEMMA Rest ==
  ASSUME Inv, Sound(db'), disk' \in {disk, db'}, sorting' = NoSort, StmtIn(reindex', db'),
         failed' => reindex' = NoStmt, user' \in BOOLEAN, failed' \in BOOLEAN,
         CacheIsCurrent', cache'.valid \in BOOLEAN
  PROVE  Inv'
<1>1. Sound(disk)'
  BY Zenon DEF Inv
<1>2. SortOK' /\ StmtOK'
  BY Zenon DEF SortOK, StmtOK
<1>3. sorting' \in [id : {0} \cup Indexes, put : SUBSET Entry]
  BY Zenon DEF NoSort
<1> QED
  BY <1>1, <1>2, <1>3, Zenon DEF Inv

(* What a step publishes, and that it keeps the answered names. *)
Lasting ==
  /\ disk' \in {disk, db'}
  /\ "drop" \notin Calls => db' = disk \/ Kept(db, db')

LEMMA KeptRefl == \A t : Kept(t, t)
BY Zenon DEF Kept

LEMMA InitInv == Init => Inv
<1> SUFFICES ASSUME Init PROVE Inv
  BY Zenon
<1>1. EmptyFile \in Tree
  <2>1. [s \in Seqs |-> NoRow] \in [Seqs -> Vals \cup {NoRow}]
    BY Zenon
  <2>2. [i \in Indexes |-> NoIndex] \in [Indexes -> IndexInfo]
    BY Zenon DEF IndexInfo, NoIndex
  <2>3. [i \in Indexes |-> {}] \in [Indexes -> SUBSET Entry] /\ [n \in Names |-> 0] \in [Names -> {0} \cup Indexes]
    BY Zenon
  <2> QED
    BY <2>1, <2>2, <2>3, Zenon DEF EmptyFile, Tree
<1>2. /\ EmptyFile.ids = 1 /\ \A i \in Indexes : EmptyFile.ix[i] = NoIndex /\ EmptyFile.posts[i] = {}
      /\ \A n \in Names : EmptyFile.names[n] = 0
  BY Zenon DEF EmptyFile
<1>3. NoIndex.state = "none"
  BY Zenon DEF NoIndex
<1>4. \A i \in Indexes : IndexOK(EmptyFile.ix[i], EmptyFile.posts[i], Exact(EmptyFile))
  BY <1>2, <1>3, Zenon DEF IndexOK
<1>5. NamesOK(EmptyFile)
  BY <1>2, <1>3, Zenon DEF NamesOK
<1>6. Sound(EmptyFile)
  BY <1>1, <1>2, <1>4, <1>5 DEF Sound
<1>7. SortOK /\ StmtOK /\ CacheIsCurrent /\ cache.valid \in BOOLEAN
  BY NoStmtIn, NoSortTypes, Zenon DEF Init, SortOK, StmtOK, CacheIsCurrent
<1>8. sorting \in [id : {0} \cup Indexes, put : SUBSET Entry]
  BY Zenon DEF Init, NoSort
<1> QED
  BY <1>6, <1>7, <1>8, Zenon DEF Inv, Init

LEMMA CommitStep == Inv /\ Commit => Inv' /\ Lasting
<1> SUFFICES ASSUME Inv, Commit PROVE Inv' /\ Lasting
  BY Zenon
<1>1. /\ db' = db /\ cache' = cache /\ sorting' = NoSort /\ reindex' = NoStmt /\ user' = FALSE /\ ~failed
      /\ disk' \in {disk, db} /\ failed' \in BOOLEAN
  BY Published, Zenon DEF Commit, Idle
<1>2. CacheIsCurrent' /\ cache'.valid \in BOOLEAN
  BY <1>1, Zenon DEF Inv, CacheIsCurrent
<1>3. Sound(db')
  BY <1>1, Zenon DEF Inv
<1>4. Inv'
  BY <1>1, <1>2, <1>3, NoStmtIn, Rest, Zenon
<1> QED
  BY <1>1, <1>4, KeptRefl, Zenon DEF Lasting

LEMMA IoErrorStep == Inv /\ IoError => Inv' /\ Lasting
<1> SUFFICES ASSUME Inv, IoError PROVE Inv' /\ Lasting
  BY Zenon
<1>1. /\ db' = db /\ cache' = cache /\ sorting' = NoSort /\ reindex' = NoStmt /\ user' = user
      /\ disk' = disk /\ failed' = TRUE
  BY Zenon DEF IoError
<1>2. CacheIsCurrent' /\ cache'.valid \in BOOLEAN /\ user' \in BOOLEAN
  BY <1>1, Zenon DEF Inv, CacheIsCurrent
<1>3. Sound(db')
  BY <1>1, Zenon DEF Inv
<1>4. Inv'
  BY <1>1, <1>2, <1>3, NoStmtIn, Rest, Zenon
<1> QED
  BY <1>1, <1>4, KeptRefl, Zenon DEF Lasting

LEMMA RollbackStep == Inv /\ Rollback => Inv' /\ Lasting
<1> SUFFICES ASSUME Inv, Rollback PROVE Inv' /\ Lasting
  BY Zenon
<1>1. /\ db' = disk /\ cache' = NoList /\ sorting' = NoSort /\ reindex' = NoStmt /\ user' = FALSE
      /\ disk' = disk /\ failed' = FALSE
  BY Zenon DEF Rollback
<1>2. CacheIsCurrent' /\ cache'.valid \in BOOLEAN
  BY <1>1, NoSortTypes, Zenon DEF CacheIsCurrent
<1>3. Sound(db')
  BY <1>1, Zenon DEF Inv
<1>4. Inv'
  BY <1>1, <1>2, <1>3, NoStmtIn, Rest, Zenon
<1> QED
  BY <1>1, <1>4, Zenon DEF Lasting

LEMMA ListIs ==
  ASSUME NEW t \in Tree
  PROVE  /\ DOMAIN ListIndexes(t) = {i \in Indexes : t.ix[i].state # "none"}
         /\ \A i \in DOMAIN ListIndexes(t) : ListIndexes(t)[i] = t.ix[i]
<1>1. DOMAIN t.ix = Indexes
  BY Zenon DEF Tree
<1> QED
  BY <1>1, Zenon DEF ListIndexes, Listed, Restrict

LEMMA ListTaken ==
  ASSUME Inv, ~failed
  PROVE  TakeIndexList = ListIndexes(db)
BY Zenon DEF Inv, CacheIsCurrent, TakeIndexList

LEMMA WriteRowStep ==
  ASSUME Inv, ~failed, NEW s \in Seqs, NEW v \in Vals \cup {NoRow}, WriteRow(s, v)
  PROVE  /\ Sound(db') /\ Kept(db, db') /\ failed' \in BOOLEAN
         /\ CacheIsCurrent' /\ cache'.valid \in BOOLEAN
<1> DEFINE old == db.rows[s]
           list == TakeIndexList
           ids == Maintained(list, old, v)
           gone == EntryOf(s, old)
           put == EntryOf(s, v)
           moved == Rooted(list, ids, put)
           clash == \E i \in ids : list[i].unique /\ \E e \in put : Clashes(db.posts[i], e)
           ix == [i \in Indexes |-> IF i \in moved THEN [list[i] EXCEPT !.root = 1] ELSE db.ix[i]]
           ps == [i \in Indexes |-> IF i \in ids THEN PostsPut(i, list[i], gone, put) ELSE db.posts[i]]
           nx == IF s = db.next THEN s + 1 ELSE db.next
<1>1. /\ Sound(db) /\ db \in Tree /\ db.rows \in [Seqs -> Vals \cup {NoRow}] /\ db.next \in Nat
      /\ db.ix \in [Indexes -> IndexInfo] /\ db.posts \in [Indexes -> SUBSET Entry]
      /\ \A i \in Indexes : IndexOK(db.ix[i], db.posts[i], Exact(db))
  BY Zenon DEF Inv, Sound, Tree
<1>2. CASE clash
  <2>1. failed' = TRUE /\ db' = db /\ cache' = cache
    BY <1>2, Zenon DEF WriteRow
  <2> QED
    BY <1>1, <2>1, KeptRefl, Zenon DEF CacheIsCurrent, Inv
<1>3. CASE ~clash
  <2>1. /\ db' = [db EXCEPT !.rows[s] = v, !.next = nx, !.ix = ix, !.posts = ps]
        /\ cache' = IF moved = {} THEN [valid |-> TRUE, list |-> list] ELSE NoList
        /\ failed' = failed
    <3> HIDE DEF list
    <3> QED
      BY <1>3, Zenon DEF WriteRow, list
  <2>2. /\ list = ListIndexes(db) /\ DOMAIN list = {i \in Indexes : db.ix[i].state # "none"}
        /\ \A i \in DOMAIN list : list[i] = db.ix[i]
    BY <1>1, ListTaken, ListIs, Zenon
  <2> HIDE DEF list
  <2>3. /\ \A i \in Indexes : db.ix[i].state \in {"none", "building", "ready", "dropping"}
        /\ ids = Maint(db, s, v) /\ ids \subseteq DOMAIN list /\ ids \subseteq Indexes
    <3>1. \A i \in Indexes : db.ix[i].state \in {"none", "building", "ready", "dropping"}
      BY <1>1, Zenon DEF IndexInfo
    <3> QED
      BY <2>2, <3>1, Zenon DEF Maintained, Maint
  <2>4. /\ db'.rows = [db.rows EXCEPT ![s] = v] /\ db'.ix = ix /\ db'.posts = ps
        /\ db'.names = db.names /\ db'.ids = db.ids /\ db'.next = nx
    BY <1>1, <2>1, Zenon DEF Tree
  <2>5. \A i \in moved : i \in ids /\ put # {} /\ list[i].root = 0
    BY Zenon DEF Rooted
  <2>6. \A i \in Indexes : /\ ix[i] \in IndexInfo /\ ix[i].state = db.ix[i].state
                           /\ ix[i].unique = db.ix[i].unique /\ ix[i].after = db.ix[i].after
                           /\ ix[i].name = db.ix[i].name /\ (db.ix[i].root = 1 => ix[i].root = 1)
                           /\ (i \in moved => ix[i].root = 1) /\ (i \notin moved => ix[i] = db.ix[i])
    <3> SUFFICES ASSUME NEW i \in Indexes
                 PROVE  /\ ix[i] \in IndexInfo /\ ix[i].state = db.ix[i].state
                        /\ ix[i].unique = db.ix[i].unique /\ ix[i].after = db.ix[i].after
                        /\ ix[i].name = db.ix[i].name /\ (db.ix[i].root = 1 => ix[i].root = 1)
                        /\ (i \in moved => ix[i].root = 1) /\ (i \notin moved => ix[i] = db.ix[i])
      BY Zenon
    <3>1. db.ix[i] \in IndexInfo
      BY <1>1, Zenon
    <3>2. CASE i \in moved
      <4>1. ix[i] = [db.ix[i] EXCEPT !.root = 1]
        BY <2>2, <2>3, <2>5, <3>2, Zenon
      <4> HIDE DEF ix, moved
      <4> QED
        BY <3>1, <3>2, <4>1, Zenon DEF IndexInfo
    <3>3. CASE i \notin moved
      BY <3>1, <3>3, Zenon
    <3> QED
      BY <3>2, <3>3, Zenon
  <2>7. /\ \A i \in Indexes \ ids : ps[i] = db.posts[i]
        /\ \A i \in ids : ps[i] = (db.posts[i] \ gone) \cup put
    <3>1. ASSUME NEW i \in ids PROVE ps[i] = (db.posts[i] \ gone) \cup put
      <4>1. ps[i] = PostsPut(i, db.ix[i], gone, put) /\ i \in Indexes
        BY <2>2, <2>3, Zenon
      <4>2. db.ix[i].root = 0 => db.posts[i] = {}
        <5>1. IndexOK(db.ix[i], db.posts[i], Exact(db))
          BY <1>1, <4>1, Zenon
        <5>2. db.posts[i] # {} => db.ix[i].root = 1
          BY <5>1, Zenon DEF IndexOK
        <5> QED
          BY <5>2
      <4> HIDE DEF ps, gone, put
      <4> QED
        BY <4>1, <4>2, Zenon DEF PostsPut
    <3> QED
      BY <3>1, Zenon
  <2>8. db' \in Tree
    <3>1. gone \subseteq Entry /\ put \subseteq Entry
      BY <1>1 DEF EntryOf, Entry
    <3>2. ps \in [Indexes -> SUBSET Entry]
      <4>1. \A i \in Indexes : ps[i] \subseteq Entry
        <5> HIDE DEF ps, gone, put
        <5> QED
          BY <1>1, <2>7, <3>1, Zenon
      <4> QED
        BY <4>1, Zenon
    <3>3. ix \in [Indexes -> IndexInfo]
      BY <2>6, Zenon
    <3>4. [db.rows EXCEPT ![s] = v] \in [Seqs -> Vals \cup {NoRow}] /\ nx \in Nat
      BY <1>1 DEF Seqs
    <3> HIDE DEF ix, ps, nx
    <3> QED
      BY <1>1, <2>1, <3>2, <3>3, <3>4, Zenon DEF Tree
  <2>9. \A i \in ids : put # {} => ix[i].root = 1
    <3> SUFFICES ASSUME NEW i \in ids, put # {} PROVE ix[i].root = 1
      BY Zenon
    <3>1. db.ix[i].root \in {0, 1} /\ i \in Indexes /\ list[i] = db.ix[i]
      BY <1>1, <2>2, <2>3, Zenon DEF IndexInfo
    <3>2. db.ix[i].root = 0 => i \in moved
      BY <3>1, Zenon DEF Rooted
    <3> QED
      BY <2>6, <3>1, <3>2, Zenon
  <2>10. \A i \in ids : db.ix[i].unique => \A e \in put : ~Clashes(db.posts[i], e)
    BY <1>3, <2>2, <2>3, Zenon
  <2> HIDE DEF ix, ps, ids, moved
  <2>11. Sound(db')
    <3>1. \A i \in Indexes : /\ db'.ix[i].state = db.ix[i].state /\ db'.ix[i].unique = db.ix[i].unique
                             /\ db'.ix[i].after = db.ix[i].after /\ db'.ix[i].name = db.ix[i].name
                             /\ db.ix[i].root = 1 => db'.ix[i].root = 1
      BY <2>4, <2>6, Zenon
    <3>2. \A i \in Indexes \ Maint(db, s, v) : db'.posts[i] = db.posts[i]
      BY <2>3, <2>4, <2>7, Zenon
    <3>3. \A i \in Maint(db, s, v) :
            /\ db'.posts[i] = (db.posts[i] \ EntryOf(s, db.rows[s])) \cup EntryOf(s, v)
            /\ EntryOf(s, v) # {} => db'.ix[i].root = 1
            /\ db.ix[i].unique => \A e \in EntryOf(s, v) : ~Clashes(db.posts[i], e)
      BY <2>3, <2>4, <2>7, <2>9, <2>10, Zenon
    <3> QED
      BY <1>1, <2>4, <2>8, <3>1, <3>2, <3>3, WrittenTree, ZenonT(30)
  <2>12. Kept(db, db')
    BY <1>1, <2>4, <2>6, KeptSame
  <2>13. CacheIsCurrent' /\ cache'.valid \in BOOLEAN
    <3>1. CASE moved = {}
      <4>1. db'.ix = db.ix
        <5>1. ix = [i \in Indexes |-> db.ix[i]]
          BY <3>1, Zenon DEF ix
        <5> QED
          BY <1>1, <2>4, <5>1, Zenon
      <4>2. ListIndexes(db') = ListIndexes(db)
        BY <4>1, Zenon DEF ListIndexes, Listed
      <4>3. cache'.list = list /\ cache'.valid = TRUE
        BY <2>1, <3>1, Zenon
      <4> QED
        BY <2>2, <4>2, <4>3, Zenon DEF CacheIsCurrent
    <3>2. CASE moved # {}
      BY <2>1, <3>2, NoSortTypes, Zenon DEF CacheIsCurrent
    <3> QED
      BY <3>1, <3>2, Zenon
  <2> QED
    BY <2>1, <2>11, <2>12, <2>13, Zenon DEF Inv
<1> QED
  BY <1>2, <1>3, Zenon

LEMMA RowStep ==
  ASSUME Inv, Idle, NEW s \in Seqs, NEW v \in Vals \cup {NoRow}, WriteRow(s, v), user' = TRUE,
         UNCHANGED <<disk, sorting, reindex>>
  PROVE  Inv' /\ Lasting
<1>1. ~failed /\ sorting' = NoSort /\ reindex' = NoStmt /\ disk' = disk
  BY Zenon DEF Idle
<1>2. Sound(db') /\ Kept(db, db') /\ failed' \in BOOLEAN /\ CacheIsCurrent' /\ cache'.valid \in BOOLEAN
  BY <1>1, WriteRowStep, Zenon
<1>3. Inv'
  BY <1>1, <1>2, NoStmtIn, Rest, Zenon
<1> QED
  BY <1>1, <1>2, <1>3, Zenon DEF Lasting

LEMMA CreateIndexStep ==
  ASSUME Inv, NEW n \in UserNames, NEW unique \in BOOLEAN, CreateIndex(Named(n), unique)
  PROVE  Inv' /\ Lasting
<1>1. /\ ~failed /\ sorting' = NoSort /\ reindex' = NoStmt /\ disk' = disk /\ user' = user /\ failed' = failed
      /\ db.names[Named(n)] = 0 /\ db.ids \in Indexes /\ db' = Created(db, Named(n), unique) /\ cache' = NoList
  BY Zenon DEF Idle, CreateIndex, CacheAfterCreate
<1>2. Sound(db) /\ user \in BOOLEAN /\ failed \in BOOLEAN /\ Named(n) \in Names
  BY NamesOfKind, Zenon DEF Inv
<1>3. \A x \in Indexes : (Named(n) = Temporary(x) => x < db.ids) /\ Named(n) # Retired(x)
  BY NamesDiffer, Zenon
<1>4. Sound(db') /\ Kept(db, db')
  BY <1>1, <1>2, <1>3, CreatedTree, KeptCreated, Zenon
<1>5. CacheIsCurrent' /\ cache'.valid \in BOOLEAN
  BY <1>1, NoSortTypes, Zenon DEF CacheIsCurrent
<1>6. Inv'
  BY <1>1, <1>2, <1>4, <1>5, NoStmtIn, Rest, Zenon
<1> QED
  BY <1>1, <1>4, <1>6, Zenon DEF Lasting

LEMMA BuildStepStep ==
  ASSUME Inv, NEW i \in Indexes, NEW b \in 1..Batch, NEW last \in Seqs, BuildStep(i, b, last)
  PROVE  Inv' /\ Lasting
<1> DEFINE chunk == {s \in Ahead(i) : s <= last}
           new == {<<db.rows[s], s>> : s \in chunk}
           end == chunk = Ahead(i)
           root == IF chunk = {} THEN db.ix[i].root ELSE 1
           state == IF end THEN "ready" ELSE "building"
           after == IF end THEN 0 ELSE last
           d == Redone(db.ix[i], root, state, after)
           p == db.posts[i] \cup new
<1>1. /\ ~failed /\ sorting' = NoSort /\ reindex' = NoStmt /\ disk' = disk /\ user' = user
      /\ db.ix[i].state = "building"
  BY Zenon DEF Idle, BuildStep
<1>2. /\ Sound(db) /\ user \in BOOLEAN /\ failed \in BOOLEAN /\ db \in Tree /\ db.ix[i] \in IndexInfo
      /\ db.posts[i] \subseteq Entry /\ cache.valid \in BOOLEAN
      /\ IndexOK(db.ix[i], db.posts[i], Exact(db))
  BY Zenon DEF Inv, Sound, Tree
<1>3. CASE StepClashes(i, new)
  <2>1. failed' = TRUE /\ db' = db /\ cache' = cache
    BY <1>3, Zenon DEF BuildStep
  <2>2. CacheIsCurrent'
    BY <2>1, Zenon DEF CacheIsCurrent
  <2>3. Inv'
    BY <1>1, <1>2, <2>1, <2>2, NoStmtIn, Rest, Zenon
  <2> QED
    BY <1>1, <2>1, <2>3, KeptRefl, Zenon DEF Lasting
<1>4. CASE ~StepClashes(i, new)
  <2>1. db' = [db EXCEPT !.posts[i] = db.posts[i] \cup new,
                         !.ix[i] = [db.ix[i] EXCEPT !.root = root, !.state = state, !.after = after]]
        /\ cache' = NoList /\ failed' = failed
    BY <1>4, SMT DEF BuildStep
  <2>2. db' = [db EXCEPT !.posts[i] = p, !.ix[i] = d]
    <3>1. [db.ix[i] EXCEPT !.root = root, !.state = state, !.after = after] = d
      BY Zenon DEF Redone
    <3> HIDE DEF root, state, after, d
    <3> QED
      BY <2>1, <3>1, Zenon
  <2>3. root \in {0, 1} /\ state \in {"none", "building", "ready", "dropping"} /\ after \in Nat
    <3>1. db.ix[i].root \in {0, 1}
      BY <1>2, Zenon DEF IndexInfo
    <3>2. last \in Nat
      BY DEF Seqs
    <3> QED
      BY <1>1, <3>1, <3>2, Zenon
  <2>4. chunk = {s \in Rows(db) : s > db.ix[i].after /\ s <= last}
    BY Zenon DEF Ahead
  <2>5. ~(db.ix[i].unique /\ \E e \in new : Clashes(db.posts[i] \cup new, e))
    BY <1>4, Zenon DEF StepClashes
  <2>6. \/ state = "building" /\ after = last
        \/ state = "ready" /\ chunk = {s \in Rows(db) : s > db.ix[i].after}
    BY <1>1, Zenon DEF Ahead
  <2> HIDE DEF root, state, after, end, chunk
  <2>7. d \in IndexInfo /\ d.root = root /\ d.state = state /\ d.after = after /\ d.unique = db.ix[i].unique
        /\ d.name = db.ix[i].name
    <3>1. db.ix[i] \in IndexInfo
      BY <1>2, Zenon
    <3> QED
      BY <2>3, <3>1, Zenon DEF Redone, IndexInfo
  <2>8. new \subseteq Entry
    <3>1. \A e \in Exact(db) : e \in Entry
      BY <1>2, ExactIs, Zenon
    <3>2. chunk \subseteq Rows(db)
      BY <2>4, SMTT(30)
    <3> QED
      BY <3>1, <3>2, Zenon DEF Exact
  <2> HIDE DEF d, new
  <2>9. Replaced(db, db', i, d, p)
    BY <1>2, <2>2, <2>7, <2>8, ReplacedIs, Zenon
  <2>10. d.root = IF chunk = {} THEN db.ix[i].root ELSE 1
    BY <2>7, Zenon DEF root
  <2>11. \/ d.state = "building" /\ d.after = last
         \/ d.state = "ready" /\ chunk = {s \in Rows(db) : s > db.ix[i].after}
    BY <2>6, <2>7, Zenon
  <2>12. Sound(db')
    <3>1. new = {<<db.rows[s], s>> : s \in chunk}
      BY Zenon DEF new
    <3>2. Stepping(db, i, last, chunk, new, d)
      BY <1>1, <2>4, <2>5, <2>7, <2>10, <2>11, <3>1, Zenon DEF Stepping
    <3> QED
      BY <1>2, <2>9, <3>2, SteppedTree, Zenon
  <2>13. Kept(db, db')
    <3>1. \A j \in Indexes : db.ix[j].state = "ready" => db'.ix[j].state = "ready"
      BY <1>1, <2>9, Zenon DEF Replaced
    <3>2. db'.names = db.names
      BY <2>9, Zenon DEF Replaced
    <3> QED
      BY <1>2, <3>1, <3>2, KeptSame, Zenon
  <2>14. CacheIsCurrent' /\ cache'.valid \in BOOLEAN
    BY <2>1, NoSortTypes, Zenon DEF CacheIsCurrent
  <2>15. Inv'
    BY <1>1, <1>2, <2>1, <2>12, <2>14, NoStmtIn, Rest, Zenon
  <2> QED
    BY <1>1, <2>13, <2>15, Zenon DEF Lasting
<1> QED
  BY <1>3, <1>4, Zenon

(* Put, Finished and a begun drop replace the descriptor and the entries of *)
(* one index.                                                               *)
LEMMA PutIs ==
  ASSUME NEW t \in Tree, NEW i \in Indexes, NEW g \in SUBSET Entry
  PROVE  \E d \in IndexInfo :
           /\ Replaced(t, Put(t, i, g), i, d, t.posts[i] \cup g)
           /\ d.root = IF g = {} THEN t.ix[i].root ELSE 1
           /\ d.state = t.ix[i].state /\ d.after = t.ix[i].after
           /\ d.unique = t.ix[i].unique /\ d.name = t.ix[i].name
<1> DEFINE root == IF g = {} THEN t.ix[i].root ELSE 1
           d == [t.ix[i] EXCEPT !.root = root]
           p == t.posts[i] \cup g
<1>1. t.ix[i] \in IndexInfo /\ t.posts[i] \subseteq Entry
  BY Zenon DEF Tree
<1>2. Put(t, i, g) = [t EXCEPT !.posts[i] = p, !.ix[i] = d]
  BY Zenon DEF Put
<1>3. root \in {0, 1}
  BY <1>1, Zenon DEF IndexInfo
<1> HIDE DEF root
<1>4. /\ d \in IndexInfo /\ d.root = root /\ d.state = t.ix[i].state /\ d.after = t.ix[i].after
      /\ d.unique = t.ix[i].unique /\ d.name = t.ix[i].name
  BY <1>1, <1>3, Zenon DEF IndexInfo
<1> HIDE DEF d
<1>5. p \in SUBSET Entry
  BY <1>1, Zenon
<1> HIDE DEF p
<1>6. Replaced(t, Put(t, i, g), i, d, p)
  <2>1. Replaced(t, [t EXCEPT !.posts[i] = p, !.ix[i] = d], i, d, p)
    BY <1>4, <1>5, ReplacedIs, Zenon
  <2> QED
    BY <1>2, <2>1, Zenon
<1> QED
  BY <1>4, <1>6, Zenon DEF root, p

LEMMA FinishedIs ==
  ASSUME NEW t \in Tree, NEW i \in Indexes
  PROVE  \E d \in IndexInfo :
           /\ Replaced(t, Finished(t, i), i, d, t.posts[i])
           /\ d.root = t.ix[i].root /\ d.state = "ready"
           /\ d.unique = t.ix[i].unique /\ d.name = t.ix[i].name
<1> DEFINE d == [t.ix[i] EXCEPT !.state = "ready", !.after = 0]
           u == Finished(t, i)
<1>1. /\ t.ix[i] \in IndexInfo /\ t.posts[i] \subseteq Entry /\ t.ix \in [Indexes -> IndexInfo]
  BY Zenon DEF Tree
<1>2. u = [t EXCEPT !.ix = [t.ix EXCEPT ![i] = d]]
  BY Zenon DEF Finished
<1>3. /\ d \in IndexInfo /\ d.root = t.ix[i].root /\ d.state = "ready"
      /\ d.unique = t.ix[i].unique /\ d.name = t.ix[i].name
  BY <1>1, Zenon DEF IndexInfo
<1> HIDE DEF d, u
<1>4. [t.ix EXCEPT ![i] = d] \in [Indexes -> IndexInfo]
  BY <1>1, <1>3, Zenon
<1>5. /\ u \in Tree /\ u.rows = t.rows /\ u.names = t.names /\ u.ids = t.ids /\ u.posts = t.posts
      /\ u.ix = [t.ix EXCEPT ![i] = d]
  BY <1>2, <1>4, Zenon DEF Tree
<1>6. Replaced(t, u, i, d, t.posts[i])
  BY <1>1, <1>5, Zenon DEF Replaced
<1> QED
  BY <1>3, <1>6, Zenon DEF u

LEMMA ReplacedTwice ==
  ASSUME NEW t, NEW u, NEW v, NEW i \in Indexes, NEW d, NEW e, NEW p, NEW q,
         Replaced(t, u, i, d, p), Replaced(u, v, i, e, q)
  PROVE  Replaced(t, v, i, e, q)
BY Zenon DEF Replaced

(* REINDEX waits while its sorted build runs. *)
LEMMA StmtKept ==
  ASSUME NEW r, NEW t, StmtIn(r, t), NEW u, NEW i \in Indexes, NEW d, NEW p, Replaced(t, u, i, d, p),
         t.ix[i].state = "building"
  PROVE  StmtIn(r, u)
<1>1. u.names = t.names /\ \A j \in Indexes \ {i} : u.ix[j] = t.ix[j]
  BY Zenon DEF Replaced
<1>2. r.at # "none" => r.old \in Indexes
  BY Zenon DEF StmtIn
<1>3. r.at \in {"clean", "swap"} => r.old # i /\ u.ix[r.old].state = "ready"
  BY <1>1, <1>2, Zenon DEF StmtIn
<1>4. r.at = "drop" => r.old # i /\ u.ix[r.old].state = "dropping"
  BY <1>1, <1>2, Zenon DEF StmtIn
<1> QED
  BY <1>1, <1>3, <1>4, Zenon DEF StmtIn

LEMMA KeptReplaced ==
  ASSUME NEW t, Sound(t), NEW u, NEW i \in Indexes, NEW d, NEW p, Replaced(t, u, i, d, p),
         t.ix[i].state # "ready"
  PROVE  Kept(t, u)
<1>1. u.names = t.names /\ \A j \in Indexes : t.ix[j].state = "ready" => u.ix[j].state = "ready"
  BY Zenon DEF Replaced
<1> QED
  BY <1>1, KeptSame, Zenon

LEMMA SortedBeginStep ==
  ASSUME Inv, NEW i \in Indexes, SortedBegin(i)
  PROVE  Inv' /\ Lasting
<1>1. /\ ~failed /\ sorting = NoSort /\ reindex = NoStmt /\ db.ix[i].state = "building"
      /\ Publish(db) /\ sorting' = (IF failed' THEN NoSort ELSE [id |-> i, put |-> {}])
      /\ db' = db /\ cache' = cache /\ reindex' = reindex /\ user' = user
  BY Zenon DEF SortedBegin, Idle
<1>2. disk' \in {disk, db} /\ failed' \in BOOLEAN /\ (~failed' => disk' = db)
  BY <1>1, Published, Zenon
<1>3. /\ Sound(db)' /\ Sound(disk)' /\ StmtOK' /\ user' \in BOOLEAN /\ cache'.valid \in BOOLEAN
  BY <1>1, <1>2, NoStmtIn, Zenon DEF Inv, StmtOK
<1>4. CacheIsCurrent'
  BY <1>1, Zenon DEF Inv, CacheIsCurrent
<1>5. CASE failed'
  <2>1. sorting' = NoSort
    BY <1>1, <1>5, Zenon
  <2>2. Inv'
    BY <1>1, <1>2, <1>3, <1>4, <2>1, NoStmtIn, Rest, Zenon
  <2> QED
    BY <1>1, <1>2, <2>2, KeptRefl, Zenon DEF Lasting
<1>6. CASE ~failed'
  <2>1. /\ sorting'.id = i /\ sorting'.put = {}
        /\ sorting' \in [id : {0} \cup Indexes, put : SUBSET Entry]
    BY <1>1, <1>6, Zenon
  <2>2. SortIn(sorting', db)
    BY <1>1, <2>1, Zenon DEF SortIn, Distinct
  <2>3. SortOK'
    BY <1>1, <1>2, <1>6, <2>2, Zenon DEF SortOK
  <2>4. Inv'
    BY <1>2, <1>3, <1>4, <1>6, <2>1, <2>3, Zenon DEF Inv
  <2> QED
    BY <1>1, <1>2, <2>4, KeptRefl, Zenon DEF Lasting
<1> QED
  BY <1>5, <1>6, Zenon

(* The sorted build puts a prefix of its stream. *)
LEMMA PutRun ==
  ASSUME Inv, sorting # NoSort, NEW e \in Exact(db),
         ~(db.ix[sorting.id].unique /\ Duplicate(sorting.put, Upto(e) \ sorting.put))
  PROVE  LET u == Put(db, sorting.id, Upto(e))
         IN  /\ Sound(u) /\ Kept(db, u) /\ StmtIn(reindex, u)
             /\ \A s : s.id = sorting.id /\ s.put = Upto(e) => SortIn(s, u)
<1> DEFINE i == sorting.id
           g == Upto(e)
           u == Put(db, i, g)
<1>1. Sound(db) /\ db \in Tree /\ SortIn(sorting, db) /\ StmtIn(reindex, db)
  BY Zenon DEF Inv, SortOK, StmtOK, Sound
<1>2. i \in Indexes /\ db.ix[i].state = "building" /\ sorting.put \subseteq db.posts[i]
      /\ (db.ix[i].unique => Distinct(sorting.put))
  BY <1>1, Zenon DEF SortIn
<1>3. g = {f \in Exact(db) : f = e \/ Below(f, e)}
  BY Zenon DEF Upto
<1>4. e \in g /\ g \subseteq Exact(db)
  BY <1>3, Zenon
<1>5. g \in SUBSET Entry
  BY <1>1, <1>4, ExactIs, Zenon
<1>6. db.ix[i].unique => ~Duplicate(sorting.put, g \ sorting.put)
  BY Zenon
<1> HIDE DEF i, g
<1>7. PICK d \in IndexInfo :
           /\ Replaced(db, Put(db, i, g), i, d, db.posts[i] \cup g)
           /\ d.root = IF g = {} THEN db.ix[i].root ELSE 1
           /\ d.state = db.ix[i].state /\ d.after = db.ix[i].after
           /\ d.unique = db.ix[i].unique /\ d.name = db.ix[i].name
  BY <1>1, <1>2, <1>5, PutIs, Zenon
<1>8. d.root = 1
  BY <1>4, <1>7, Zenon
<1>9. Putting(db, i, sorting.put, e, g, d)
  BY <1>2, <1>3, <1>6, <1>7, <1>8, Zenon DEF Putting
<1>10. Sound(u) /\ Exact(u) = Exact(db) /\ (db.ix[i].unique => Distinct(g))
  BY <1>1, <1>2, <1>7, <1>9, PutTree, Zenon
<1>11. StmtIn(reindex, u) /\ Kept(db, u)
  <2>1. db.ix[i].state # "ready"
    BY <1>2, Zenon
  <2> QED
    BY <1>1, <1>2, <1>7, <2>1, StmtKept, KeptReplaced, Zenon
<1>12. u.ix[i] = d /\ u.posts[i] = db.posts[i] \cup g
  BY <1>7, Zenon DEF Replaced
<1> HIDE DEF u
<1>13. ASSUME NEW s, s.id = i, s.put = g PROVE SortIn(s, u)
  <2>1. s.put \subseteq Exact(u) /\ s.put \subseteq u.posts[i]
    BY <1>4, <1>10, <1>12, <1>13, Zenon
  <2> QED
    BY <1>2, <1>7, <1>10, <1>12, <1>13, <2>1, Zenon DEF SortIn
<1> QED
  BY <1>10, <1>11, <1>13, Zenon DEF i, g, u

LEMMA SortedRunStep ==
  ASSUME Inv, NEW e \in Entry, SortedRun(e)
  PROVE  Inv' /\ Lasting
<1> DEFINE u == Put(db, sorting.id, Upto(e))
<1>1. /\ sorting # NoSort /\ e \in Exact(db) /\ db' = u /\ Publish(u)
      /\ sorting' = (IF failed' THEN NoSort ELSE [sorting EXCEPT !.put = Upto(e)])
      /\ reindex' = (IF failed' THEN NoStmt ELSE reindex)
      /\ cache' = NoList /\ user' = user
      /\ ~(db.ix[sorting.id].unique /\ Duplicate(sorting.put, Upto(e) \ sorting.put))
  BY Zenon DEF SortedRun
<1>2. /\ Sound(u) /\ Kept(db, u) /\ StmtIn(reindex, u)
      /\ \A s : s.id = sorting.id /\ s.put = Upto(e) => SortIn(s, u)
  BY <1>1, PutRun, Zenon
<1> HIDE DEF u
<1>3. disk' \in {disk, u} /\ failed' \in BOOLEAN /\ (~failed' => disk' = u)
  BY <1>1, Published, Zenon
<1>4. CacheIsCurrent' /\ cache'.valid \in BOOLEAN /\ user' \in BOOLEAN
  BY <1>1, NoSortTypes, Zenon DEF CacheIsCurrent, Inv
<1>5. StmtIn(reindex', u) /\ (failed' => reindex' = NoStmt)
  BY <1>1, <1>2, <1>3, NoStmtIn, Zenon
<1>6. Lasting
  BY <1>1, <1>2, <1>3, Zenon DEF Lasting
<1>7. CASE failed'
  <2>1. sorting' = NoSort
    BY <1>1, <1>7, Zenon
  <2>2. Inv'
    BY <1>1, <1>2, <1>3, <1>4, <1>5, <2>1, Rest, Zenon
  <2> QED
    BY <1>6, <2>2, Zenon
<1>8. CASE ~failed'
  <2>1. sorting' = [sorting EXCEPT !.put = Upto(e)]
    BY <1>1, <1>8, Zenon
  <2>3. sorting.id \in Indexes /\ Upto(e) \subseteq Entry
    <3>1. sorting.id \in Indexes /\ db \in Tree
      BY <1>1, Zenon DEF Inv, SortOK, SortIn, Sound
    <3>2. Upto(e) \subseteq Exact(db)
      BY Zenon DEF Upto
    <3> QED
      BY <3>1, <3>2, ExactIs, Zenon
  <2>4. /\ sorting'.id = sorting.id /\ sorting'.put = Upto(e)
        /\ sorting' \in [id : {0} \cup Indexes, put : SUBSET Entry]
    <3>1. sorting \in [id : {0} \cup Indexes, put : SUBSET Entry]
      BY Zenon DEF Inv
    <3> QED
      BY <2>1, <2>3, <3>1, Zenon
  <2>5. SortOK'
    BY <1>1, <1>2, <1>3, <1>8, <2>4, Zenon DEF SortOK
  <2>6. Sound(db)' /\ Sound(disk)' /\ StmtOK'
    BY <1>1, <1>2, <1>3, <1>5, Zenon DEF Inv, StmtOK
  <2>8. Inv'
    BY <1>3, <1>4, <1>8, <2>4, <2>5, <2>6, Zenon DEF Inv
  <2> QED
    BY <1>6, <2>8, Zenon
<1> QED
  BY <1>7, <1>8, Zenon

LEMMA SortedRefusedStep ==
  ASSUME Inv, SortedRefused
  PROVE  Inv' /\ Lasting
<1>1. /\ sorting # NoSort /\ db' = disk /\ disk' = disk /\ cache' = NoList /\ reindex' = reindex
      /\ sorting' = [sorting EXCEPT !.put = {}] /\ user' = user /\ failed' = failed /\ ~failed
  BY Zenon DEF SortedRefused
<1>2. /\ disk = db /\ SortIn(sorting, db) /\ Sound(db) /\ StmtIn(reindex, db)
      /\ sorting \in [id : {0} \cup Indexes, put : SUBSET Entry]
  BY <1>1, Zenon DEF Inv, SortOK, StmtOK
<1>3. /\ sorting'.id = sorting.id /\ sorting'.put = {}
      /\ sorting' \in [id : {0} \cup Indexes, put : SUBSET Entry]
  BY <1>1, <1>2, Zenon
<1>4. SortIn(sorting', db)
  <2>1. sorting.id \in Indexes /\ db.ix[sorting.id].state = "building"
    BY <1>2, Zenon DEF SortIn
  <2> QED
    BY <1>3, <2>1, Zenon DEF SortIn, Distinct
<1>5. SortOK' /\ StmtOK' /\ Sound(db)' /\ Sound(disk)'
  BY <1>1, <1>2, <1>4, Zenon DEF SortOK, StmtOK
<1>6. CacheIsCurrent' /\ cache'.valid \in BOOLEAN /\ user' \in BOOLEAN /\ failed' \in BOOLEAN
  BY <1>1, NoSortTypes, Zenon DEF CacheIsCurrent, Inv
<1>7. Inv'
  BY <1>1, <1>3, <1>5, <1>6, Zenon DEF Inv
<1> QED
  BY <1>1, <1>7, Zenon DEF Lasting

LEMMA SortedEndStep ==
  ASSUME Inv, SortedEnd
  PROVE  Inv' /\ Lasting
<1> DEFINE i == sorting.id
           g == Exact(db)
           w == Put(db, i, g)
           u == Finished(w, i)
<1>1. /\ sorting # NoSort /\ db' = u /\ Publish(u) /\ sorting' = NoSort
      /\ reindex' = (IF failed' THEN NoStmt ELSE reindex)
      /\ cache' = NoList /\ user' = user
      /\ ~(db.ix[i].unique /\ Duplicate(sorting.put, g \ sorting.put))
  BY Zenon DEF SortedEnd
<1>2. Sound(db) /\ db \in Tree /\ SortIn(sorting, db) /\ StmtIn(reindex, db)
  BY <1>1, Zenon DEF Inv, SortOK, StmtOK, Sound
<1>3. i \in Indexes /\ db.ix[i].state = "building" /\ sorting.put \subseteq db.posts[i]
      /\ (db.ix[i].unique => Distinct(sorting.put))
  BY <1>2, Zenon DEF SortIn
<1>4. g \in SUBSET Entry
  BY <1>2, ExactIs, Zenon
<1> HIDE DEF i, g
<1>5. PICK c \in IndexInfo :
           /\ Replaced(db, Put(db, i, g), i, c, db.posts[i] \cup g)
           /\ c.root = IF g = {} THEN db.ix[i].root ELSE 1
           /\ c.state = db.ix[i].state /\ c.after = db.ix[i].after
           /\ c.unique = db.ix[i].unique /\ c.name = db.ix[i].name
  BY <1>2, <1>3, <1>4, PutIs, Zenon
<1>6. w \in Tree /\ w.ix[i] = c /\ w.posts[i] = db.posts[i] \cup g
  BY <1>5, Zenon DEF Replaced
<1> HIDE DEF w
<1>7. PICK d \in IndexInfo :
           /\ Replaced(w, Finished(w, i), i, d, w.posts[i])
           /\ d.root = w.ix[i].root /\ d.state = "ready"
           /\ d.unique = w.ix[i].unique /\ d.name = w.ix[i].name
  BY <1>3, <1>6, FinishedIs, Zenon
<1>8. Replaced(db, u, i, d, db.posts[i] \cup g)
  <2>1. Replaced(db, w, i, c, db.posts[i] \cup g)
    BY <1>5, Zenon DEF w
  <2>2. Replaced(w, u, i, d, db.posts[i] \cup g)
    BY <1>6, <1>7, Zenon
  <2> QED
    BY <1>3, <2>1, <2>2, ReplacedTwice
<1> HIDE DEF u
<1>9. Ending(db, i, sorting.put, d)
  BY <1>1, <1>3, <1>5, <1>6, <1>7, Zenon DEF Ending, g
<1>10. Sound(u)
  BY <1>2, <1>3, <1>8, <1>9, EndTree, Zenon DEF g
<1>11. StmtIn(reindex, u) /\ Kept(db, u)
  <2>1. db.ix[i].state # "ready"
    BY <1>3, Zenon
  <2> QED
    BY <1>2, <1>3, <1>8, <2>1, StmtKept, KeptReplaced, Zenon
<1>12. disk' \in {disk, u} /\ failed' \in BOOLEAN
  BY <1>1, Published, Zenon
<1>13. CacheIsCurrent' /\ cache'.valid \in BOOLEAN /\ user' \in BOOLEAN
  BY <1>1, NoSortTypes, Zenon DEF CacheIsCurrent, Inv
<1>14. StmtIn(reindex', u) /\ (failed' => reindex' = NoStmt)
  BY <1>1, <1>11, <1>12, NoStmtIn, Zenon
<1>15. Inv'
  BY <1>1, <1>10, <1>12, <1>13, <1>14, Rest, Zenon
<1> QED
  BY <1>1, <1>11, <1>12, <1>15, Zenon DEF Lasting

LEMMA SortedDuplicateStep ==
  ASSUME Inv, SortedDuplicate
  PROVE  Inv' /\ Lasting
<1>1. /\ sorting # NoSort /\ sorting' = NoSort /\ reindex' = NoStmt /\ cache' = NoList
      /\ disk' = disk /\ user' = user /\ failed' = failed
      /\ \/ db' = db
         \/ \E e \in Exact(db) \ sorting.put :
              /\ ~Duplicate(sorting.put, Upto(e) \ sorting.put)
              /\ db' = Put(db, sorting.id, Upto(e))
  BY Zenon DEF SortedDuplicate
<1>2. Sound(db') /\ Kept(db, db')
  <2>1. CASE db' = db
    BY <2>1, KeptRefl, Zenon DEF Inv
  <2>2. ASSUME NEW e \in Exact(db), ~Duplicate(sorting.put, Upto(e) \ sorting.put),
               db' = Put(db, sorting.id, Upto(e))
        PROVE  Sound(db') /\ Kept(db, db')
    BY <1>1, <2>2, PutRun, Zenon
  <2> QED
    BY <1>1, <2>1, <2>2, Zenon
<1>3. CacheIsCurrent' /\ cache'.valid \in BOOLEAN /\ user' \in BOOLEAN /\ failed' \in BOOLEAN
  BY <1>1, NoSortTypes, Zenon DEF CacheIsCurrent, Inv
<1>4. Inv'
  BY <1>1, <1>2, <1>3, NoStmtIn, Rest, Zenon
<1> QED
  BY <1>1, <1>2, <1>4, Zenon DEF Lasting

LEMMA BeginDropStep ==
  ASSUME Inv, NEW i \in Indexes, BeginDrop(i)
  PROVE  Inv' /\ Lasting
<1> DEFINE d == [db.ix[i] EXCEPT !.state = "dropping", !.after = 0]
<1>1. /\ sorting' = NoSort /\ reindex' = NoStmt /\ cache' = NoList /\ disk' = disk /\ user' = user
      /\ failed' = failed /\ db.ix[i].state # "none" /\ "drop" \in Calls
      /\ db' = [db EXCEPT !.ix = [db.ix EXCEPT ![i] = d]]
  BY Zenon DEF BeginDrop, Idle
<1>2. Sound(db) /\ db \in Tree /\ db.ix \in [Indexes -> IndexInfo] /\ db.ix[i] \in IndexInfo
  BY Zenon DEF Inv, Sound, Tree
<1>3. d \in IndexInfo /\ d.root = db.ix[i].root /\ d.state = "dropping" /\ d.name = db.ix[i].name
  BY <1>2, Zenon DEF IndexInfo
<1> HIDE DEF d
<1>4. [db.ix EXCEPT ![i] = d] \in [Indexes -> IndexInfo]
  BY <1>2, <1>3, Zenon
<1>5. /\ db' \in Tree /\ db'.rows = db.rows /\ db'.names = db.names /\ db'.ids = db.ids /\ db'.posts = db.posts
      /\ db'.ix = [db.ix EXCEPT ![i] = d]
  BY <1>1, <1>2, <1>4, Zenon DEF Tree
<1>6. Replaced(db, db', i, d, db.posts[i])
  BY <1>2, <1>5, Zenon DEF Replaced
<1>7. Sound(db')
  BY <1>1, <1>2, <1>3, <1>6, DroppingTree, Zenon
<1>8. CacheIsCurrent' /\ cache'.valid \in BOOLEAN /\ user' \in BOOLEAN /\ failed' \in BOOLEAN
  BY <1>1, NoSortTypes, Zenon DEF CacheIsCurrent, Inv
<1>9. Inv'
  BY <1>1, <1>7, <1>8, NoStmtIn, Rest, Zenon
<1> QED
  BY <1>1, <1>9, Zenon DEF Lasting

LEMMA DropStepStep ==
  ASSUME Inv, NEW i \in Indexes, NEW b \in 1..Batch, DropStep(i, b)
  PROVE  Inv' /\ Lasting
<1>1. PICK gone \in SUBSET db.posts[i] :
           IF gone = db.posts[i]
           THEN db' = Forgotten(db, i) /\ cache' = NoList
           ELSE db' = [db EXCEPT !.posts[i] = db.posts[i] \ gone] /\ cache' = cache
  BY Zenon DEF DropStep
<1>2. /\ sorting' = NoSort /\ reindex' = NoStmt /\ disk' = disk /\ user' = user
      /\ failed' = failed /\ db.ix[i].state = "dropping" /\ "drop" \in Calls
  BY Zenon DEF DropStep, Idle
<1>3. /\ Sound(db) /\ db \in Tree /\ db.ix \in [Indexes -> IndexInfo] /\ db.ix[i] \in IndexInfo
      /\ db.posts \in [Indexes -> SUBSET Entry]
  BY Zenon DEF Inv, Sound, Tree
<1>4. Sound(db') /\ CacheIsCurrent' /\ cache'.valid \in BOOLEAN
  <2>1. CASE gone = db.posts[i]
    <3>1. db' = Forgotten(db, i) /\ cache' = NoList
      BY <1>1, <2>1, Zenon
    <3>2. db.ix[i].state # "none"
      BY <1>2, Zenon
    <3> QED
      BY <1>3, <3>1, <3>2, ForgottenTree, NoSortTypes, Zenon DEF CacheIsCurrent
  <2>2. CASE gone # db.posts[i]
    <3> DEFINE p == db.posts[i] \ gone
               ps == [db.posts EXCEPT ![i] = p]
    <3>1. db' = [db EXCEPT !.posts = ps] /\ cache' = cache
      BY <1>1, <2>2, Zenon
    <3>2. p \subseteq db.posts[i] /\ ps \in [Indexes -> SUBSET Entry]
      BY <1>3, Zenon
    <3> HIDE DEF p
    <3>3. ps[i] = p /\ \A j \in Indexes \ {i} : ps[j] = db.posts[j]
      BY <1>3, Zenon
    <3> HIDE DEF ps
    <3>4. /\ db' \in Tree /\ db'.rows = db.rows /\ db'.names = db.names /\ db'.ids = db.ids
          /\ db'.posts = ps /\ db'.ix = db.ix
      BY <1>3, <3>1, <3>2, Zenon DEF Tree
    <3>5. Replaced(db, db', i, db.ix[i], p)
      BY <3>3, <3>4, Zenon DEF Replaced
    <3>6. db.ix[i].state # "none"
      BY <1>2, Zenon
    <3>7. Sound(db')
      BY <1>2, <1>3, <3>2, <3>5, <3>6, DroppingTree, Zenon
    <3>8. CacheIsCurrent' /\ cache'.valid \in BOOLEAN
      BY <1>2, <3>1, <3>4, Zenon DEF CacheIsCurrent, Inv, ListIndexes, Listed
    <3> QED
      BY <3>7, <3>8, Zenon
  <2> QED
    BY <2>1, <2>2, Zenon
<1>5. user' \in BOOLEAN /\ failed' \in BOOLEAN
  BY <1>2, Zenon DEF Inv
<1>6. Inv'
  BY <1>2, <1>4, <1>5, NoStmtIn, Rest, Zenon
<1> QED
  BY <1>2, <1>6, Zenon DEF Lasting

(* A step of REINDEX ends in a commit. *)
LEMMA StmtStep ==
  ASSUME Inv, sorting' = NoSort, NEW t, Sound(t), Kept(db, t), NEW next, StmtIn(next, t), Step(t, next)
  PROVE  Inv' /\ Lasting
<1>1. /\ db' = t /\ cache' = NoList /\ Publish(t) /\ user' = FALSE
      /\ reindex' = IF failed' THEN NoStmt ELSE next
  BY Zenon DEF Step
<1>2. disk' \in {disk, t} /\ failed' \in BOOLEAN
  BY <1>1, Published, Zenon
<1>3. StmtIn(reindex', t) /\ (failed' => reindex' = NoStmt)
  BY <1>1, <1>2, NoStmtIn, Zenon
<1>4. CacheIsCurrent' /\ cache'.valid \in BOOLEAN /\ user' \in BOOLEAN
  BY <1>1, NoSortTypes, Zenon DEF CacheIsCurrent
<1>5. Inv'
  BY <1>1, <1>2, <1>3, <1>4, Rest, Zenon
<1> QED
  BY <1>1, <1>2, <1>5, Zenon DEF Lasting

LEMMA ReindexStep ==
  ASSUME Inv, NEW o \in Indexes, Reindex(o)
  PROVE  Inv' /\ Lasting
<1> DEFINE next == [old |-> o, at |-> "clean"]
<1>1. Sound(db) /\ sorting' = NoSort /\ Step(db, next) /\ db.ix[o].state = "ready"
  BY Zenon DEF Reindex, Idle, Inv
<1>2. StmtIn(next, db)
  BY <1>1, NumberedFromOne, Zenon DEF StmtIn
<1> HIDE DEF next
<1> QED
  BY <1>1, <1>2, StmtStep, KeptRefl, Zenon

LEMMA StmtAt ==
  ASSUME Inv
  PROVE  /\ Sound(db) /\ db \in Tree /\ NamesOK(db) /\ db.names \in [Names -> {0} \cup Indexes]
         /\ db.ix \in [Indexes -> IndexInfo]
         /\ reindex \in [old : {0} \cup Indexes, at : {"none", "clean", "swap", "drop"}]
         /\ reindex.at # "none" => reindex.old \in Indexes
         /\ reindex.at \in {"clean", "swap"} => db.ix[reindex.old].state = "ready"
         /\ reindex.at = "swap" => db.names[Temporary(reindex.old)] # 0
         /\ reindex.at = "drop" => db.ix[reindex.old].state = "dropping"
<1>1. Sound(db) /\ StmtIn(reindex, db)
  BY Zenon DEF Inv, StmtOK
<1>2. reindex.at # "none" => reindex.old \in Indexes
  BY <1>1, Zenon DEF StmtIn
<1> QED
  BY <1>1, <1>2, Zenon DEF StmtIn, Sound, Tree

LEMMA ReindexCleanStep ==
  ASSUME Inv, ReindexClean
  PROVE  Inv' /\ Lasting
<1> DEFINE o == reindex.old
<1>1. reindex.at = "clean" /\ sorting' = NoSort
  BY Zenon DEF ReindexClean, At
<1>2. PICK i \in Stale : Step(Forgotten(db, i), reindex)
  BY Zenon DEF ReindexClean
<1>3. o \in Indexes /\ db.ix[o].state = "ready" /\ Sound(db) /\ NamesOK(db) /\ db \in Tree
      /\ reindex \in [old : {0} \cup Indexes, at : {"none", "clean", "swap", "drop"}]
  BY <1>1, StmtAt, Zenon
<1>4. /\ i \in Indexes /\ db.ix[i].state # "none"
      /\ db.ix[i].state = "dropping" \/ db.ix[i].name = Temporary(o)
  BY Zenon DEF Stale
<1>5. i # o
  BY <1>3, <1>4, NumberedFromOne DEF NamesOK
<1>6. Sound(Forgotten(db, i)) /\ Kept(db, Forgotten(db, i))
  BY <1>3, <1>4, ForgottenTree, KeptForgotten, Zenon
<1>7. Forgotten(db, i).ix = [db.ix EXCEPT ![i] = NoIndex]
  <2>1. db.ix[i].name \in Names
    BY <1>3, <1>4, Zenon DEF NamesOK
  <2> QED
    BY <1>3, <1>4, <2>1, ForgottenFields, Zenon
<1>8. Forgotten(db, i).ix[o].state = "ready"
  <2>1. db.ix \in [Indexes -> IndexInfo]
    BY <1>3, Zenon DEF Tree
  <2> HIDE DEF o
  <2> QED
    BY <1>3, <1>5, <1>7, <2>1, Zenon
<1>9. StmtIn(reindex, Forgotten(db, i))
  BY <1>1, <1>3, <1>8, NumberedFromOne, Zenon DEF StmtIn
<1> QED
  BY <1>1, <1>2, <1>6, <1>9, StmtStep, Zenon

LEMMA ReindexDropStep ==
  ASSUME Inv, ReindexDrop
  PROVE  Inv' /\ Lasting
<1> DEFINE o == reindex.old
<1>1. reindex.at = "drop" /\ sorting' = NoSort /\ Step(Forgotten(db, o), NoStmt)
  BY Zenon DEF ReindexDrop, At
<1>2. o \in Indexes /\ db.ix[o].state = "dropping" /\ Sound(db)
  BY <1>1, StmtAt, Zenon
<1>3. db.ix[o].state # "none"
  BY <1>2, Zenon
<1>4. Sound(Forgotten(db, o)) /\ Kept(db, Forgotten(db, o))
  BY <1>2, <1>3, ForgottenTree, KeptForgotten, Zenon
<1> QED
  BY <1>1, <1>4, NoStmtIn, StmtStep, Zenon

LEMMA ReindexSwapStep ==
  ASSUME Inv, ReindexSwap
  PROVE  Inv' /\ Lasting
<1> DEFINE o == reindex.old
           n == db.names[Temporary(o)]
           next == [reindex EXCEPT !.at = "drop"]
           u == Swapped(db, o, n)
<1>1. /\ reindex.at = "swap" /\ sorting' = NoSort /\ Step(u, next)
      /\ db.ix[o].state = "ready" /\ db.ix[n].state = "ready"
  BY Zenon DEF ReindexSwap, At
<1>2. /\ o \in Indexes /\ Sound(db) /\ db \in Tree /\ NamesOK(db) /\ n # 0
      /\ db.names \in [Names -> {0} \cup Indexes]
      /\ reindex \in [old : {0} \cup Indexes, at : {"none", "clean", "swap", "drop"}]
  BY <1>1, StmtAt, Zenon
<1>3. Temporary(o) \in Names
  BY <1>2, NamesOfKind, Zenon
<1>4. n \in Indexes /\ db.ix[n].name = Temporary(o)
  BY <1>2, <1>3, Zenon DEF NamesOK
<1>5. next.old = o /\ next.at = "drop" /\ next \in [old : {0} \cup Indexes, at : {"none", "clean", "swap", "drop"}]
  BY <1>2, Zenon
<1> HIDE DEF o, n, next
<1>6. db.ix[n].state # "none"
  BY <1>1, Zenon
<1>7. Sound(u) /\ u.ix[o].state = "dropping"
  BY <1>1, <1>2, <1>4, <1>6, SwappedTree
<1>8. Kept(db, u)
  BY <1>1, <1>2, <1>4, KeptSwapped, Zenon
<1> HIDE DEF u
<1>9. StmtIn(next, u)
  BY <1>2, <1>5, <1>7, NumberedFromOne, Zenon DEF StmtIn
<1> QED
  BY <1>1, <1>7, <1>8, <1>9, StmtStep, Zenon

LEMMA ReindexCreateStep ==
  ASSUME Inv, ReindexCreate
  PROVE  Inv' /\ Lasting
<1> DEFINE o == reindex.old
           m == Temporary(o)
           c == db.ids
           q == db.ix[o].unique
           next == [reindex EXCEPT !.at = "swap"]
           u == Created(db, m, q)
<1>1. /\ reindex.at = "clean" /\ sorting = NoSort /\ Step(u, next) /\ Stale = {} /\ c \in Indexes
      /\ sorting' = IF failed' THEN NoSort ELSE [id |-> c, put |-> {}]
  BY Zenon DEF ReindexCreate, At
<1>2. /\ o \in Indexes /\ db.ix[o].state = "ready" /\ Sound(db) /\ db \in Tree /\ NamesOK(db)
      /\ db.names \in [Names -> {0} \cup Indexes] /\ db.ix \in [Indexes -> IndexInfo]
      /\ reindex \in [old : {0} \cup Indexes, at : {"none", "clean", "swap", "drop"}]
  BY <1>1, StmtAt, Zenon
<1>3. m \in Names /\ q \in BOOLEAN
  <2>1. db.ix[o] \in IndexInfo
    BY <1>2, Zenon
  <2> QED
    BY <1>2, <2>1, NamesOfKind, Zenon DEF IndexInfo
<1>4. db.names[m] = 0
  <2>1. SUFFICES ASSUME db.names[m] # 0 PROVE FALSE
    BY Zenon
  <2>2. db.names[m] \in Indexes /\ db.ix[db.names[m]].state # "none" /\ db.ix[db.names[m]].name = m
    BY <1>2, <1>3, <2>1, Zenon DEF NamesOK
  <2>3. db.names[m] \in Stale
    BY <2>2, Zenon DEF Stale
  <2> QED
    BY <1>1, <2>3, Zenon
<1>5. o < c
  BY <1>2, Zenon DEF NamesOK
<1>6. next.old = o /\ next.at = "swap" /\ next \in [old : {0} \cup Indexes, at : {"none", "clean", "swap", "drop"}]
  BY <1>2, Zenon
<1>7. \A x \in Indexes : (m = Temporary(x) => x < c) /\ m # Retired(x)
  BY <1>5, NamesDiffer, Zenon
<1> HIDE DEF o, m, c, q, next, u
<1>8. Sound(u) /\ Kept(db, u)
  <2>1. db.ids \in Indexes /\ \A x \in Indexes : (m = Temporary(x) => x < db.ids) /\ m # Retired(x)
    BY <1>1, <1>7, SMTT(30) DEF c
  <2> QED
    BY <1>2, <1>3, <1>4, <2>1, CreatedTree, KeptCreated, Zenon DEF u
<1> DEFINE d == [state |-> "building", after |-> 0, root |-> 0, unique |-> q, name |-> m]
<1>9. u.ix = [db.ix EXCEPT ![c] = d] /\ u.names = [db.names EXCEPT ![m] = c]
  BY <1>1, <1>2, <1>3, CreatedFields DEF c, u
<1>10. d.state = "building"
  BY Zenon
<1> HIDE DEF d
<1>11. o # c /\ c # 0
  BY <1>1, <1>2, <1>5, NumberedFromOne
<1>12. u.ix[o].state = "ready" /\ u.ix[c].state = "building" /\ u.names[m] # 0
  BY <1>1, <1>2, <1>3, <1>9, <1>10, <1>11, Zenon
<1>13. StmtIn(next, u)
  BY <1>2, <1>6, <1>12, NumberedFromOne, Zenon DEF StmtIn, m
<1>14. CASE failed'
  BY <1>1, <1>8, <1>13, <1>14, StmtStep, Zenon
<1>15. CASE ~failed'
  <2>1. /\ db' = u /\ cache' = NoList /\ Publish(u) /\ user' = FALSE /\ reindex' = next
    BY <1>1, <1>15, Zenon DEF Step
  <2>2. disk' = u /\ failed' \in BOOLEAN
    BY <1>15, <2>1, Published, Zenon
  <2>3. /\ sorting'.id = c /\ sorting'.put = {}
        /\ sorting' \in [id : {0} \cup Indexes, put : SUBSET Entry]
    BY <1>1, <1>15, Zenon
  <2>4. SortIn(sorting', u)
    BY <1>1, <1>12, <2>3, Zenon DEF SortIn, Distinct
  <2>5. CacheIsCurrent' /\ cache'.valid \in BOOLEAN /\ user' \in BOOLEAN
    BY <2>1, NoSortTypes, Zenon DEF CacheIsCurrent
  <2>6. SortOK' /\ StmtOK' /\ Sound(db)' /\ Sound(disk)'
    BY <1>8, <1>13, <2>1, <2>2, <2>4, Zenon DEF SortOK, StmtOK
  <2>7. Inv'
    BY <1>15, <2>2, <2>3, <2>5, <2>6, Zenon DEF Inv
  <2> QED
    BY <1>8, <2>1, <2>2, <2>7, Zenon DEF Lasting
<1> QED
  BY <1>14, <1>15, Zenon

LEMMA InvStep == Inv /\ [Next]_vars => Inv' /\ (UNCHANGED vars \/ Lasting)
<1> SUFFICES ASSUME Inv, [Next]_vars PROVE Inv' /\ (UNCHANGED vars \/ Lasting)
  BY Zenon
<1>1. CASE UNCHANGED vars
  <2>1. db' = db /\ disk' = disk /\ cache' = cache /\ sorting' = sorting /\ reindex' = reindex
        /\ user' = user /\ failed' = failed
    BY <1>1, Zenon DEF vars
  <2>2. SortOK' /\ StmtOK' /\ CacheIsCurrent'
    BY <2>1, Zenon DEF Inv, SortOK, StmtOK, CacheIsCurrent
  <2> QED
    BY <1>1, <2>1, <2>2, Zenon DEF Inv
<1>2. CASE Commit
  BY <1>2, CommitStep, Zenon
<1>3. CASE IoError
  BY <1>3, IoErrorStep, Zenon
<1>4. CASE Rollback
  BY <1>4, RollbackStep, Zenon
<1>5. ASSUME NEW v \in Vals, Insert(v) PROVE Inv' /\ Lasting
  <2>1. /\ Idle /\ db.next \in Seqs /\ WriteRow(db.next, v) /\ user' = TRUE
        /\ UNCHANGED <<disk, sorting, reindex>> /\ v \in Vals \cup {NoRow}
    BY <1>5, Zenon DEF Insert
  <2> QED
    BY <2>1, RowStep, Zenon
<1>6. ASSUME NEW s \in Seqs, NEW v \in Vals, Update(s, v) PROVE Inv' /\ Lasting
  <2>1. /\ Idle /\ WriteRow(s, v) /\ user' = TRUE
        /\ UNCHANGED <<disk, sorting, reindex>> /\ v \in Vals \cup {NoRow}
    BY <1>6, Zenon DEF Update
  <2> QED
    BY <2>1, RowStep, Zenon
<1>7. ASSUME NEW s \in Seqs, Delete(s) PROVE Inv' /\ Lasting
  <2>1. /\ Idle /\ WriteRow(s, NoRow) /\ user' = TRUE
        /\ UNCHANGED <<disk, sorting, reindex>> /\ NoRow \in Vals \cup {NoRow}
    BY <1>7, Zenon DEF Delete
  <2> QED
    BY <2>1, RowStep, Zenon
<1>8. ASSUME NEW n \in UserNames, NEW u \in BOOLEAN, CreateIndex(Named(n), u) PROVE Inv' /\ Lasting
  BY <1>8, CreateIndexStep, Zenon
<1>9. ASSUME NEW i \in Indexes, NEW b \in 1..Batch, NEW last \in Seqs, BuildStep(i, b, last) PROVE Inv' /\ Lasting
  BY <1>9, BuildStepStep, Zenon
<1>10. ASSUME NEW i \in Indexes, SortedBegin(i) \/ BeginDrop(i) \/ Reindex(i) PROVE Inv' /\ Lasting
  BY <1>10, SortedBeginStep, BeginDropStep, ReindexStep, Zenon
<1>11. ASSUME NEW e \in Entry, SortedRun(e) PROVE Inv' /\ Lasting
  BY <1>11, SortedRunStep, Zenon
<1>12. CASE SortedRefused \/ SortedEnd \/ SortedDuplicate
  BY <1>12, SortedRefusedStep, SortedEndStep, SortedDuplicateStep, Zenon
<1>13. ASSUME NEW i \in Indexes, NEW b \in 1..Batch, DropStep(i, b) PROVE Inv' /\ Lasting
  BY <1>13, DropStepStep, Zenon
<1>14. CASE ReindexClean \/ ReindexCreate \/ ReindexSwap \/ ReindexDrop
  BY <1>14, ReindexCleanStep, ReindexCreateStep, ReindexSwapStep, ReindexDropStep, Zenon
<1> QED
  BY <1>1, <1>2, <1>3, <1>4, <1>5, <1>6, <1>7, <1>8, <1>9, <1>10, <1>11, <1>12, <1>13, <1>14, Zenon DEF Next
-----------------------------------------------------------------------------
(* The trees of every reachable state, published or not, are sound. *)
LEMMA TreesAreSound == Spec => []Inv
<1>1. Init => Inv
  BY InitInv, Zenon
<1>2. Inv /\ [Next]_vars => Inv'
  BY InvStep, Zenon
<1> QED
  BY <1>1, <1>2, PTL DEF Spec

LEMMA DistinctRows ==
  ASSUME NEW t \in Tree, Distinct(Exact(t)), NEW r \in Rows(t), NEW s \in Rows(t),
         t.rows[r] = t.rows[s], t.rows[r] # Null
  PROVE  r = s
<1>1. <<t.rows[r], r>> \in Exact(t) /\ <<t.rows[s], s>> \in Exact(t)
  BY Zenon DEF Exact
<1>2. ~Clash(<<t.rows[r], r>>, <<t.rows[s], s>>)
  BY <1>1, Zenon DEF Distinct
<1> QED
  BY <1>2, Zenon DEF Clash

(* A READY index answers for every row and for no other, and a unique one   *)
(* never lets two rows share a value, for every number of rows, values and  *)
(* indexes, every batch size and every way a commit may end: built in steps *)
(* or by a sorted build, replaced by REINDEX, rolled back, lost.            *)
THEOREM ReadyAnswersExactly == Spec => []ReadyIsExact
<1>1. Inv => ReadyIsExact
  <2> SUFFICES ASSUME Inv, NEW t \in Readable, NEW i \in DOMAIN t.ix, t.ix[i].state = "ready"
               PROVE  /\ t.posts[i] = Exact(t)
                      /\ t.ix[i].unique =>
                           \A r, s \in Rows(t) : t.rows[r] = t.rows[s] /\ t.rows[r] # Null => r = s
    BY Zenon DEF ReadyIsExact
  <2>1. t \in {db, disk}
    BY Zenon DEF Readable
  <2>2. Sound(t) /\ t \in Tree
    BY <2>1, Zenon DEF Inv, Sound
  <2>3. DOMAIN t.ix = Indexes
    BY <2>2, Zenon DEF Tree
  <2>4. t.posts[i] = Exact(t) /\ (t.ix[i].unique => Distinct(t.posts[i]))
    BY <2>2, <2>3, Zenon DEF Sound, IndexOK
  <2> QED
    BY <2>2, <2>4, DistinctRows, Zenon
<1> QED
  BY <1>1, TreesAreSound, PTL

(* A build that is resumed, after a rollback or a crash as well, may go on  *)
(* from the committed cursor: behind it nothing is missing, and nothing in  *)
(* the index is of a row that is gone or changed.                           *)
THEOREM BuildsResume == Spec => []BuildingIsResumable
<1>1. Inv => BuildingIsResumable
  <2> SUFFICES ASSUME Inv, NEW t \in Readable, NEW i \in DOMAIN t.ix, t.ix[i].state = "building"
               PROVE  /\ t.posts[i] \subseteq Exact(t)
                      /\ {e \in Exact(t) : e[2] <= t.ix[i].after} \subseteq t.posts[i]
    BY Zenon DEF BuildingIsResumable
  <2>1. t \in {db, disk}
    BY Zenon DEF Readable
  <2>2. Sound(t) /\ t \in Tree
    BY <2>1, Zenon DEF Inv, Sound
  <2>3. DOMAIN t.ix = Indexes
    BY <2>2, Zenon DEF Tree
  <2>4. t.posts[i] \subseteq Exact(t) /\ \A e \in Exact(t) : e[2] <= t.ix[i].after => e \in t.posts[i]
    BY <2>2, <2>3, Zenon DEF Sound, IndexOK
  <2> QED
    BY <2>4, Zenon
<1> QED
  BY <1>1, TreesAreSound, PTL

(* The write path's cached list, the descriptors and the names never        *)
(* disagree: the list is dropped by every call that writes a descriptor,    *)
(* and the swap and the drop of REINDEX take no name that is in use.        *)
THEOREM CatalogueIsOne == Spec => []CatalogueAgrees
<1>1. Inv => CatalogueAgrees
  <2> SUFFICES ASSUME Inv PROVE TypeOK /\ CacheIsCurrent /\ NamesAgree
    BY Zenon DEF CatalogueAgrees
  <2>1. Sound(db) /\ Sound(disk) /\ CacheIsCurrent
    BY Zenon DEF Inv
  <2>2. ASSUME NEW t \in {db, disk}
        PROVE  /\ t.rows \in [Seqs -> Vals \cup {NoRow}] /\ t.next \in Nat /\ t.ids \in Nat
               /\ DOMAIN t.ix \subseteq Indexes /\ DOMAIN t.posts = DOMAIN t.ix
               /\ \A i \in DOMAIN t.ix : t.ix[i] \in IndexInfo /\ t.posts[i] \subseteq Entry
               /\ \A n \in DOMAIN t.names : n \in Names /\ t.names[n] \in {0} \cup DOMAIN t.ix
    <3>1. t \in Tree
      BY <2>1, Zenon DEF Sound
    <3> QED
      BY <3>1, Zenon DEF Tree
  <2>3. ASSUME NEW t \in {db, disk}, NEW i \in DOMAIN t.ix PROVE t.posts[i] # {} => t.ix[i].root = 1
    BY <2>1, <2>2, Zenon DEF Sound, IndexOK
  <2>4. sorting.id \in {0} \cup Indexes /\ sorting.put \subseteq Entry /\ user \in BOOLEAN /\ failed \in BOOLEAN
    BY Zenon DEF Inv
  <2>5. reindex.old \in {0} \cup Indexes
    BY StmtAt, Zenon
  <2>6. TypeOK
    BY <2>2, <2>3, <2>4, <2>5, Zenon DEF TypeOK
  <2>7. NamesAgree
    <3> SUFFICES ASSUME NEW t \in Readable
                 PROVE  /\ \A i \in DOMAIN t.ix : IF t.ix[i].state = "none" THEN t.posts[i] = {}
                                                  ELSE t.names[t.ix[i].name] = i
                        /\ \A n \in DOMAIN t.names :
                             t.names[n] # 0 => t.ix[t.names[n]].state # "none" /\ t.ix[t.names[n]].name = n
      BY Zenon DEF NamesAgree
    <3>1. t \in {db, disk}
      BY Zenon DEF Readable
    <3>2. Sound(t) /\ DOMAIN t.ix \subseteq Indexes /\ \A n \in DOMAIN t.names : n \in Names
      BY <2>1, <2>2, <3>1, Zenon
    <3> QED
      BY <3>2, Zenon DEF Sound, IndexOK, NamesOK
  <2> QED
    BY <2>1, <2>6, <2>7, Zenon
<1> QED
  BY <1>1, TreesAreSound, PTL

(* "A reader sees the old index or the new one, never neither": where no    *)
(* caller drops an index, every commit keeps answering the names the one    *)
(* before it answered.  What is in the working tree keeps them too.         *)
Carried == "drop" \notin Calls => Kept(disk, db)

THEOREM NamesStayAnswered ==
  ASSUME "drop" \notin Calls
  PROVE  Spec => [][NameKept]_vars
<1>1. Init => Carried
  BY KeptRefl, Zenon DEF Init, Carried
<1>2. Inv /\ Carried /\ [Next]_vars => Carried' /\ [NameKept]_vars
  <2> SUFFICES ASSUME Inv, Carried, [Next]_vars PROVE Carried' /\ [NameKept]_vars
    BY Zenon
  <2>1. Kept(disk, db)
    BY Zenon DEF Carried
  <2>2. CASE UNCHANGED vars
    BY <2>1, <2>2, Zenon DEF Carried, vars
  <2>3. CASE Lasting
    <3>1. Kept(disk, db')
      BY <2>1, <2>3, KeptRefl, Zenon DEF Lasting, Kept
    <3>2. Kept(disk, disk') /\ Kept(disk', db')
      BY <2>3, <3>1, KeptRefl, Zenon DEF Lasting
    <3>3. NameKept
      BY <3>2, Zenon DEF Kept, Answered, NameKept
    <3> QED
      BY <3>2, <3>3, Zenon DEF Carried
  <2> QED
    BY <2>2, <2>3, InvStep, Zenon
<1> QED
  BY <1>1, <1>2, TreesAreSound, PTL DEF Spec
=============================================================================
