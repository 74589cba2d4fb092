------------------------- MODULE PgStatementProofs --------------------------
(***************************************************************************)
(* What the statements of PgServer do, for any number of connections, any  *)
(* programs, slots and faults and every bound.  What a call does to the    *)
(* service is a Turn: it touches the published view and the view of its    *)
(* own session, and no other.  Turns compose; a statement is shown to be   *)
(* one, with what it leaves in the session.                                *)
(***************************************************************************)
EXTENDS PgServer, FiniteSetTheorems, TLAPS

USE SMTT(30)

Words == Statements \union {"none"}

Portals ==
  [statement : Words, executed : BOOLEAN, refused : BOOLEAN, held : Nat,
   delivered : Nat, runs : Nat, asked : BOOLEAN, sent : Nat]
Cursors == [open : BOOLEAN, held : Nat, delivered : Nat]
Sessions ==
  [open : BOOLEAN, txn_failed : BOOLEAN, skip_until_sync : BOOLEAN,
   reader : Nat, reader_at : Nat, prepared : Words, portal : Portals,
   cursor : Cursors, reply : Nat, acked : Nat]
Holders == Conns \union {NoOne}
Results ==
  [svc : ServiceState, holder : Holders, me : Sessions, err : BOOLEAN, tx : Nat, rows : Nat]

(* The service: no view too many, every view shows a transaction of the    *)
(* past, and the serials from the next one on are unused.                  *)
SvcOK(v) ==
  /\ v \in ServiceState /\ v.elapsed /\ v.work <= 1
  /\ Cardinality(Open(v)) <= Slots
  /\ v.published < v.next_serial /\ v.next_serial <= MaxSerial + 1
  /\ \A n \in Serials : v.at[n] <= v.tx /\ (v.next_serial <= n => v.at[n] = 0)

(* The published view shows transaction a, or the service is marked dirty. *)
Fresh(v, a) == v.dirty \/ a <= v.at[v.published]

(* Room for the serials that a refresh of a session's view may spend. *)
Fits(v) == v.next_serial + (IF v.dirty THEN 1 ELSE 0) <= MaxSerial

(* The view of a session: its own, open, and not older than the one that   *)
(* was published when it was minted.                                       *)
Mine(v, x) == x \in Nat /\ x < v.next_serial /\ x # v.published
ViewOK(v, me) ==
  \/ me.reader = 0 /\ me.reader_at = 0
  \/ /\ me.reader \in Serials /\ Mine(v, me.reader) /\ v.at[me.reader] # 0
     /\ me.reader_at <= v.published
     /\ me.reader_at = v.published => v.at[v.published] <= v.at[me.reader]

(* From v to w a session whose view was x and now is y did something: a    *)
(* new view shows all that was published before.                           *)
Turn(v, x, w, y) ==
  /\ SvcOK(w) /\ v.tx <= w.tx /\ v.next_serial <= w.next_serial
  /\ w.published = v.published \/ v.next_serial <= w.published
  /\ w.published = v.published => w.at[v.published] \in {0, v.at[v.published]}
  /\ y \in Nat
  /\ y \in {0, x} \/ (v.next_serial <= y /\ y \in Serials /\ v.tx <= w.at[y])
  /\ y = x /\ x \in Serials => w.at[x] = v.at[x]
  /\ \A n \in Serials : n < v.next_serial /\ n # v.published /\ n # x => w.at[n] = v.at[n]
  /\ \A n \in Serials : w.at[n] # 0 =>
       n \in {w.published, y} \/ (n < v.next_serial /\ n # v.published /\ n # x)
  /\ \A a \in Nat : a <= v.tx /\ Fresh(v, a) => Fresh(w, a)

(* Only the published view is open. *)
Lone(v) == \A n \in Serials : v.at[n] # 0 => n = v.published

(* What a statement tells: the transaction t that its rows show, and the   *)
(* transaction b of the last acknowledged commit, a before.                *)
Shown(v, w, t) ==
  t # 0 => /\ w.at[w.published] <= t
           /\ w.dirty \/ \A a \in Nat : a <= v.tx /\ Fresh(v, a) => a <= t
Told(v, a, w, b) == a < b /\ Lone(v) => w.failed \/ w.log < FoldAt

(* Who has the writer, and what may become of an open block. *)
Clean(v, h) == h = NoOne => v.work = 0 \/ v.failed
Blocks(c, v, h, bad, w, h2) ==
  /\ h2 = h \/ (h = NoOne /\ h2 = c) \/ (h = c /\ h2 = NoOne)
  /\ Clean(v, h) => Clean(w, h2)
  /\ h \notin {c, NoOne} => w.tx = v.tx /\ w.work = v.work
  /\ h = c /\ bad => w.tx = v.tx
  /\ h = c /\ h2 = c /\ v.work > 0 => w.tx = v.tx /\ v.work <= w.work

CursorOK(k) == k.delivered <= k.held
PortalOK(p) ==
  /\ p.runs <= 1 /\ p.delivered <= p.held /\ p.held <= AnswerRows /\ p.sent <= AnswerRows
  /\ ~p.executed => p.runs = 0 /\ p.held = 0 /\ p.sent = 0 /\ ~p.refused
  /\ p.statement # "read" => p.runs = 0 \/ p.asked
  /\ p.held > 0 => p.sent = p.delivered
  /\ p.refused => p.held = 0

(* A session beside the service v. *)
SessOK(v, me) ==
  /\ me \in Sessions /\ ViewOK(v, me) /\ CursorOK(me.cursor)
  /\ me.acked <= v.tx /\ Fresh(v, me.acked)

(* What a statement of the session me of c answers. *)
Good(c, v, h, me, r) ==
  /\ r \in Results /\ Turn(v, me.reader, r.svc, r.me.reader) /\ SessOK(r.svc, r.me)
  /\ r.me.open = me.open /\ r.me.portal \in {me.portal, NoPortal}
  /\ r.rows <= AnswerRows
  /\ Shown(v, r.svc, r.tx) /\ Told(v, me.acked, r.svc, r.me.acked)
  /\ Blocks(c, v, h, me.txn_failed, r.svc, r.holder)

(* What a message of c leaves: the service w, the holder h2, the session m. *)
Step(c, w, h2, m) ==
  /\ h2 \in Holders /\ Turn(svc, conn[c].reader, w, m.reader) /\ SessOK(w, m) /\ PortalOK(m.portal)
  /\ m.open \/ (m = Closed /\ h2 # c)
  /\ m.reply = conn[c].reply \/ Shown(svc, w, m.reply)
  /\ Told(svc, conn[c].acked, w, m.acked)
  /\ Blocks(c, svc, holder, conn[c].txn_failed, w, h2)

(* The invariant. *)
SessionOK(c) ==
  /\ SessOK(svc, conn[c]) /\ PortalOK(conn[c].portal)
  /\ ~conn[c].open => conn[c] = Closed

OwnViews ==
  /\ \A c, d \in Conns : c # d /\ conn[c].reader = conn[d].reader => conn[c].reader = 0
  /\ \A n \in Serials : svc.at[n] # 0 => n = svc.published \/ \E c \in Conns : conn[c].reader = n

Inv ==
  /\ SvcOK(svc) /\ holder \in Holders /\ conn \in [Conns -> Sessions]
  /\ \A c \in Conns : SessionOK(c)
  /\ OwnViews /\ WriterLeftClean
-----------------------------------------------------------------------------
(* Open views are few enough to be counted. *)

LEMMA Counted ==
  /\ \A S \in SUBSET Serials : IsFiniteSet(S) /\ Cardinality(S) \in Nat
  /\ \A S, T \in SUBSET Serials : S \subseteq T => Cardinality(S) <= Cardinality(T)
  /\ \A S \in SUBSET Serials : \A n \in Serials : Cardinality(S \union {n}) <= Cardinality(S) + 1
<1>1. IsFiniteSet(Serials)
  BY FS_Interval, ServiceOpsAssumption DEF Serials
<1>2. ASSUME NEW S \in SUBSET Serials PROVE IsFiniteSet(S) /\ Cardinality(S) \in Nat
  BY <1>1, FS_Subset, FS_CardinalityType, Zenon
<1>3. ASSUME NEW S \in SUBSET Serials, NEW T \in SUBSET Serials, S \subseteq T
      PROVE  Cardinality(S) <= Cardinality(T)
  BY <1>2, <1>3, FS_Subset, Zenon
<1>4. ASSUME NEW S \in SUBSET Serials, NEW n \in Serials
      PROVE  Cardinality(S \union {n}) <= Cardinality(S) + 1
  <2>1. Cardinality(S \union {n}) = Cardinality(S) \/ Cardinality(S \union {n}) = Cardinality(S) + 1
    BY <1>2, FS_AddElement, Zenon
  <2>2. Cardinality(S) \in Nat
    BY <1>2, Zenon
  <2> QED
    BY <2>1, <2>2
<1> QED
  BY <1>2, <1>3, <1>4, Zenon

(* Fewer views, or one more in a free slot. *)
LEMMA FewerOpen ==
  ASSUME NEW v, NEW w, Cardinality(Open(v)) <= Slots, \A n \in Serials : w.at[n] # 0 => v.at[n] # 0
  PROVE  Cardinality(Open(w)) <= Slots
<1>1. Open(w) \in SUBSET Serials /\ Open(v) \in SUBSET Serials /\ Open(w) \subseteq Open(v)
  BY Zenon DEF Open
<1>2. PICK a, b : a = Cardinality(Open(w)) /\ b = Cardinality(Open(v))
  BY Zenon
<1>3. a <= b /\ a \in Nat /\ b \in Nat
  BY <1>1, <1>2, Counted, Zenon
<1> QED
  BY <1>2, <1>3, ServiceOpsAssumption

LEMMA OneMoreOpen ==
  ASSUME NEW v, NEW w, SlotFree(v), NEW k \in Serials,
         \A n \in Serials : w.at[n] # 0 => n = k \/ v.at[n] # 0
  PROVE  Cardinality(Open(w)) <= Slots
<1>1. /\ Open(w) \in SUBSET Serials /\ Open(v) \in SUBSET Serials
      /\ Open(v) \union {k} \in SUBSET Serials /\ Open(w) \subseteq Open(v) \union {k}
  BY Zenon DEF Open
<1>2. PICK a, b, d : /\ a = Cardinality(Open(w)) /\ b = Cardinality(Open(v))
                     /\ d = Cardinality(Open(v) \union {k})
  BY Zenon
<1>3. a <= d /\ d <= b + 1 /\ a \in Nat /\ b \in Nat /\ d \in Nat
  BY <1>1, <1>2, Counted, Zenon
<1>4. b < Slots
  BY <1>2, Zenon DEF SlotFree
<1> QED
  BY <1>2, <1>3, <1>4, ServiceOpsAssumption
-----------------------------------------------------------------------------
(* Turns. *)

(* The numbers of a service. *)
LEMMA Numbers ==
  ASSUME NEW v, SvcOK(v)
  PROVE  /\ v.tx \in Nat /\ v.tx # 0 /\ v.log \in Nat /\ v.work \in Nat /\ v.next_serial \in Nat
         /\ v.published \in Nat /\ v.published \in Serials /\ v.published < v.next_serial
         /\ v.at \in [Serials -> Nat] /\ v.failed \in BOOLEAN /\ v.dirty \in BOOLEAN
         /\ v.fold_wanted \in BOOLEAN /\ v.elapsed \in BOOLEAN
         /\ MaxSerial \in Nat /\ 0 \notin Serials /\ \A n \in Serials : n \in Nat /\ n <= MaxSerial
  BY ServiceOpsAssumption DEF SvcOK, ServiceState, Serials

(* A turn after a turn is a turn. *)
LEMMA TurnTurn ==
  ASSUME NEW v, NEW x, NEW w, NEW y, NEW u, NEW z, SvcOK(v), Mine(v, x),
         Turn(v, x, w, y), Turn(w, y, u, z)
  PROVE  Turn(v, x, u, z)
<1>1. /\ SvcOK(w) /\ SvcOK(u) /\ y \in Nat /\ z \in Nat
      /\ v.tx <= w.tx /\ w.tx <= u.tx /\ v.next_serial <= w.next_serial
      /\ w.next_serial <= u.next_serial
      /\ w.published = v.published \/ v.next_serial <= w.published
      /\ u.published = w.published \/ w.next_serial <= u.published
  BY Zenon DEF Turn
<1>2. /\ v.tx \in Nat /\ v.next_serial \in Nat /\ v.published \in Nat /\ v.published < v.next_serial
      /\ w.tx \in Nat /\ w.next_serial \in Nat /\ w.published \in Nat
      /\ u.tx \in Nat /\ u.next_serial \in Nat /\ u.published \in Nat
      /\ x \in Nat /\ x < v.next_serial /\ x # v.published
      /\ \A n \in Serials : n \in Nat
  BY <1>1, Numbers, Zenon DEF Mine
<1>3. /\ v.tx <= u.tx /\ v.next_serial <= u.next_serial
      /\ u.published = v.published \/ v.next_serial <= u.published
      /\ u.published = v.published => w.published = v.published
  BY <1>1, <1>2
<1>4. ASSUME u.published = v.published PROVE u.at[v.published] \in {0, v.at[v.published]}
  <2>1. w.published = v.published
    BY <1>3, <1>4, Zenon
  <2>2. w.at[v.published] \in {0, v.at[v.published]} /\ u.at[v.published] \in {0, w.at[v.published]}
    BY <1>4, <2>1, Zenon DEF Turn
  <2> QED
    BY <2>2, Zenon
<1>5. /\ y \in {0, x} \/ (v.next_serial <= y /\ y \in Serials /\ v.tx <= w.at[y])
      /\ z \in {0, y} \/ (w.next_serial <= z /\ z \in Serials /\ w.tx <= u.at[z])
  BY Zenon DEF Turn
<1>6. z \in {0, x} \/ (v.next_serial <= z /\ z \in Serials /\ v.tx <= u.at[z])
  <2>1. CASE z \in {0, y} /\ y \in {0, x}
    BY <2>1, Zenon
  <2>2. CASE z = y /\ v.next_serial <= y /\ y \in Serials /\ v.tx <= w.at[y]
    <3>1. u.at[y] = w.at[y]
      BY <2>2, Zenon DEF Turn
    <3> QED
      BY <2>2, <3>1, Zenon
  <2>3. CASE z = 0
    BY <2>3, Zenon
  <2>4. CASE w.next_serial <= z /\ z \in Serials /\ w.tx <= u.at[z]
    <3>1. u.at \in [Serials -> Nat]
      BY <1>1, Numbers, Zenon
    <3>2. u.at[z] \in Nat
      BY <2>4, <3>1, Zenon
    <3> QED
      BY <1>1, <1>2, <2>4, <3>2
  <2> QED
    BY <1>5, <2>1, <2>2, <2>3, <2>4, Zenon
<1>7. ASSUME z = x, x \in Serials PROVE u.at[x] = v.at[x]
  <2>1. x # 0
    BY <1>7, Numbers, Zenon
  <2>2. y = x
    BY <1>1, <1>2, <1>5, <1>7, <2>1
  <2> QED
    BY <1>7, <2>2, Zenon DEF Turn
<1>8. ASSUME NEW n \in Serials, n < v.next_serial, n # v.published, n # x
      PROVE  u.at[n] = v.at[n]
  <2>1. n \in Nat /\ n # 0
    BY Numbers, Zenon
  <2>2. n < w.next_serial /\ n # w.published /\ n # y
    BY <1>1, <1>2, <1>5, <1>8, <2>1
  <2>3. w.at[n] = v.at[n] /\ u.at[n] = w.at[n]
    BY <1>8, <2>2, Zenon DEF Turn
  <2> QED
    BY <2>3, Zenon
<1>9. ASSUME NEW n \in Serials, u.at[n] # 0
      PROVE  n \in {u.published, z} \/ (n < v.next_serial /\ n # v.published /\ n # x)
  <2>1. CASE n < w.next_serial /\ n # w.published /\ n # y
    <3>1. w.at[n] # 0
      BY <1>9, <2>1, Zenon DEF Turn
    <3>2. n \in {w.published, y} \/ (n < v.next_serial /\ n # v.published /\ n # x)
      BY <3>1, Zenon DEF Turn
    <3> QED
      BY <2>1, <3>2, Zenon
  <2> QED
    BY <1>9, <2>1, Zenon DEF Turn
<1>10. ASSUME NEW a \in Nat, a <= v.tx, Fresh(v, a) PROVE Fresh(u, a)
  <2>1. Fresh(w, a)
    BY <1>10, Zenon DEF Turn
  <2>2. a <= w.tx
    BY <1>1, <1>2, <1>10
  <2> QED
    BY <2>1, <2>2, Zenon DEF Turn
<1> QED
  BY <1>1, <1>3, <1>4, <1>6, <1>7, <1>8, <1>9, <1>10, Zenon DEF Turn

(* A call that leaves the views alone. *)
LEMMA StillTurns ==
  ASSUME NEW v, NEW x, NEW w, SvcOK(v), Mine(v, x), w \in ServiceState,
         w.at = v.at, w.published = v.published, w.next_serial = v.next_serial,
         w.elapsed = v.elapsed, v.tx <= w.tx, w.work <= 1, v.dirty => w.dirty
  PROVE  Turn(v, x, w, x)
<1>1. SvcOK(w)
  <2>1. v.tx \in Nat /\ w.tx \in Nat /\ \A n \in Serials : v.at[n] \in Nat /\ v.at[n] <= v.tx
    BY Zenon DEF SvcOK, ServiceState
  <2>2. \A n \in Serials : w.at[n] <= w.tx
    BY <2>1
  <2>3. \A n \in Serials : w.next_serial <= n => w.at[n] = 0
    BY Zenon DEF SvcOK
  <2>4. Cardinality(Open(w)) <= Slots
    BY FewerOpen, Zenon DEF SvcOK
  <2>5. w.elapsed /\ w.published < w.next_serial /\ w.next_serial <= MaxSerial + 1
    BY Zenon DEF SvcOK
  <2> QED
    BY <2>2, <2>3, <2>4, <2>5, Zenon DEF SvcOK
<1>2. \A n \in Serials : w.at[n] # 0 => n < v.next_serial
  <2>1. v.next_serial \in Nat /\ \A n \in Serials : n \in Nat
    BY Numbers, Zenon
  <2> QED
    BY <2>1 DEF SvcOK
<1>3. v.next_serial <= w.next_serial /\ x \in Nat
  BY Numbers DEF Mine
<1>4. \A a \in Nat : a <= v.tx /\ Fresh(v, a) => Fresh(w, a)
  BY Zenon DEF Fresh
<1> QED
  BY <1>1, <1>2, <1>3, <1>4, Zenon DEF Turn

LEMMA NoTurn ==
  ASSUME NEW v, NEW x, SvcOK(v), Mine(v, x)
  PROVE  Turn(v, x, v, x)
<1>1. v.tx <= v.tx /\ v.work <= 1 /\ v \in ServiceState
  BY Numbers DEF SvcOK
<1> QED
  BY <1>1, StillTurns, Zenon

(* A view that the turn does not replace stays as it was. *)
LEMMA ViewKept ==
  ASSUME NEW v, NEW x, NEW w, NEW y, NEW me \in Sessions, SvcOK(v), Turn(v, x, w, y),
         ViewOK(v, me), me.reader # x \/ y = x
  PROVE  ViewOK(w, me) /\ (me.reader # 0 => w.at[me.reader] = v.at[me.reader])
<1>1. CASE me.reader = 0 /\ me.reader_at = 0
  BY <1>1, Zenon DEF ViewOK
<1>2. CASE ~(me.reader = 0 /\ me.reader_at = 0)
  <2>1. PICK n : n = me.reader
    BY Zenon
  <2>2. /\ n \in Serials /\ n \in Nat /\ n < v.next_serial /\ n # v.published /\ v.at[n] # 0
        /\ me.reader_at <= v.published
        /\ me.reader_at = v.published => v.at[v.published] <= v.at[n]
    BY <1>2, <2>1, Zenon DEF ViewOK, Mine
  <2>3. w.at[n] = v.at[n]
    BY <2>1, <2>2, Zenon DEF Turn
  <2>4. /\ SvcOK(w) /\ v.next_serial <= w.next_serial
        /\ w.published = v.published \/ v.next_serial <= w.published
    BY Zenon DEF Turn
  <2>5. /\ v.published \in Nat /\ v.next_serial \in Nat /\ v.published < v.next_serial
        /\ w.published \in Nat /\ w.next_serial \in Nat /\ me.reader_at \in Nat
        /\ v.published \in Serials /\ v.at \in [Serials -> Nat]
    BY <2>4, Numbers, Zenon DEF Sessions
  <2>6. n < w.next_serial /\ n # w.published /\ me.reader_at <= w.published
    BY <2>2, <2>4, <2>5
  <2>7. ASSUME me.reader_at = w.published PROVE w.at[w.published] <= w.at[n]
    <3>1. w.published = v.published
      BY <2>2, <2>4, <2>5, <2>7
    <3>2. w.at[v.published] \in {0, v.at[v.published]} /\ v.at[v.published] <= v.at[n]
      BY <2>2, <2>7, <3>1, Zenon DEF Turn
    <3>3. v.at[n] \in Nat
      BY <2>2, <2>5, Zenon
    <3> QED
      BY <2>3, <3>1, <3>2, <3>3
  <2> QED
    BY <2>1, <2>2, <2>3, <2>6, <2>7, Zenon DEF ViewOK, Mine
<1> QED
  BY <1>1, <1>2, Zenon

LEMMA MineOf ==
  ASSUME NEW v, NEW me, SvcOK(v), ViewOK(v, me)
  PROVE  Mine(v, me.reader) /\ (me.reader # 0 => me.reader \in Serials /\ v.at[me.reader] # 0)
<1>1. CASE me.reader = 0
  <2>1. 0 < v.next_serial /\ 0 # v.published /\ 0 \in Nat
    BY Numbers
  <2> QED
    BY <1>1, <2>1, Zenon DEF Mine
<1> QED
  BY <1>1, Zenon DEF ViewOK
-----------------------------------------------------------------------------
(* The calls of the service. *)

(* What a turn may leave alone. *)
Beside(v, w) == w.tx = v.tx /\ w.work = v.work /\ w.failed = v.failed /\ w.log = v.log

(* A view is dropped: the session's own. *)
LEMMA DropTurns ==
  ASSUME NEW v, NEW x \in Serials, SvcOK(v), Mine(v, x), NEW w, w = Dropped(v, x)
  PROVE  /\ Turn(v, x, w, 0) /\ Beside(v, w) /\ w.next_serial = v.next_serial
         /\ w.published = v.published /\ w.dirty = v.dirty /\ w.at[v.published] = v.at[v.published]
<1>1. /\ w \in ServiceState /\ w.at = [v.at EXCEPT ![x] = 0] /\ w.elapsed = v.elapsed
      /\ w.tx = v.tx /\ w.work = v.work /\ w.failed = v.failed /\ w.log = v.log
      /\ w.dirty = v.dirty /\ w.published = v.published /\ w.next_serial = v.next_serial
  BY Zenon DEF SvcOK, ServiceState, Dropped
<1>2. \A n \in Serials : w.at[n] = IF n = x THEN 0 ELSE v.at[n]
  BY <1>1, Numbers, Zenon
<1>3. /\ v.published \in Serials /\ v.published # x /\ v.next_serial \in Nat /\ v.tx \in Nat
      /\ \A n \in Serials : n \in Nat /\ v.at[n] <= v.tx /\ (v.next_serial <= n => v.at[n] = 0)
  BY Numbers, Zenon DEF Mine, SvcOK
<1>4. SvcOK(w)
  <2>1. \A n \in Serials : w.at[n] <= w.tx /\ (w.next_serial <= n => w.at[n] = 0)
    BY <1>1, <1>2, <1>3
  <2>2. Cardinality(Open(w)) <= Slots
    BY <1>2, FewerOpen, Zenon DEF SvcOK
  <2>3. /\ w.elapsed /\ w.work <= 1 /\ w.published < w.next_serial
        /\ w.next_serial <= MaxSerial + 1
    BY <1>1, Zenon DEF SvcOK
  <2> QED
    BY <1>1, <2>1, <2>2, <2>3, Zenon DEF SvcOK
<1>5. w.at[v.published] = v.at[v.published]
  BY <1>2, <1>3, Zenon
<1>6. \A n \in Serials : w.at[n] # 0 => n < v.next_serial /\ n # x
  BY <1>2, <1>3
<1>7. \A a \in Nat : a <= v.tx /\ Fresh(v, a) => Fresh(w, a)
  BY <1>1, <1>5, Zenon DEF Fresh
<1>8. v.tx <= w.tx /\ v.next_serial <= w.next_serial /\ 0 \in Nat /\ x # 0
  BY <1>1, <1>3, Numbers
<1>9. Turn(v, x, w, 0)
  BY <1>1, <1>2, <1>4, <1>5, <1>6, <1>7, <1>8, Zenon DEF Turn
<1> QED
  BY <1>1, <1>5, <1>9, Zenon DEF Beside

(* A session opens a view of its own, under the next serial. *)
Took(v, k) == [Opened(v, k) EXCEPT !.next_serial = k + 1]

LEMMA OpenTurns ==
  ASSUME NEW v, SvcOK(v), NEW k \in Serials, k = v.next_serial, SlotFree(v),
         NEW w, w = Took(v, k)
  PROVE  /\ Turn(v, 0, w, k) /\ Beside(v, w) /\ w.at[k] = v.tx /\ w.next_serial = k + 1
         /\ w.published = v.published /\ w.dirty = v.dirty
<1>0. k \in Nat /\ k + 1 \in Nat
  BY Numbers
<1>1. /\ w \in ServiceState /\ w.at = [v.at EXCEPT ![k] = v.tx] /\ w.elapsed = v.elapsed
      /\ w.tx = v.tx /\ w.work = v.work /\ w.failed = v.failed /\ w.log = v.log
      /\ w.dirty = v.dirty /\ w.published = v.published /\ w.next_serial = k + 1
  BY <1>0, Zenon DEF SvcOK, ServiceState, Opened, Took
<1>2. \A n \in Serials : w.at[n] = IF n = k THEN v.tx ELSE v.at[n]
  BY <1>1, Numbers
<1>3. /\ v.published \in Serials /\ v.published # k /\ v.tx \in Nat /\ MaxSerial \in Nat
      /\ k <= MaxSerial /\ v.published < k
      /\ \A n \in Serials : n \in Nat /\ v.at[n] <= v.tx /\ (k <= n => v.at[n] = 0)
  BY Numbers DEF SvcOK
<1>4. SvcOK(w)
  <2>1. \A n \in Serials : w.at[n] <= w.tx /\ (w.next_serial <= n => w.at[n] = 0)
    BY <1>0, <1>1, <1>2, <1>3
  <2>2. Cardinality(Open(w)) <= Slots
    <3>1. \A n \in Serials : w.at[n] # 0 => n = k \/ v.at[n] # 0
      BY <1>2, Zenon
    <3> QED
      BY <3>1, OneMoreOpen, Zenon
  <2>3. w.published < w.next_serial /\ w.next_serial <= MaxSerial + 1
    BY <1>0, <1>1, <1>3, Numbers
  <2>4. w.elapsed /\ w.work <= 1
    BY <1>1, Zenon DEF SvcOK
  <2> QED
    BY <1>1, <2>1, <2>2, <2>3, <2>4, Zenon DEF SvcOK
<1>5. w.at[v.published] = v.at[v.published] /\ w.at[k] = v.tx
  BY <1>2, <1>3, Zenon
<1>6. \A n \in Serials : w.at[n] # 0 => n = k \/ (n < k /\ n # 0)
  BY <1>0, <1>2, <1>3, Numbers
<1>7. \A a \in Nat : a <= v.tx /\ Fresh(v, a) => Fresh(w, a)
  BY <1>1, <1>5, Zenon DEF Fresh
<1>8. /\ v.tx <= w.tx /\ v.next_serial <= w.next_serial /\ v.next_serial <= k /\ v.tx <= w.at[k]
      /\ k # 0 /\ 0 \notin Serials /\ \A n \in Serials : n < k => n # k
  BY <1>0, <1>1, <1>3, <1>5, Numbers
<1>9. Turn(v, 0, w, k)
  <2>1. \A n \in Serials : w.at[n] # 0 => n \in {w.published, k} \/ (n < v.next_serial /\ n # v.published /\ n # 0)
    BY <1>1, <1>6, Zenon
  <2>2. \A n \in Serials : n < v.next_serial /\ n # v.published /\ n # 0 => w.at[n] = v.at[n]
    BY <1>2, <1>8, Zenon
  <2>3. w.published = v.published => w.at[v.published] \in {0, v.at[v.published]}
    BY <1>5, Zenon
  <2> QED
    BY <1>0, <1>1, <1>4, <1>7, <1>8, <2>1, <2>2, <2>3, Zenon DEF Turn
<1> QED
  BY <1>1, <1>5, <1>9, Zenon DEF Beside

(* A serial is spent. *)
Spent(v, k) == [v EXCEPT !.next_serial = k + 1]

LEMMA SpendTurns ==
  ASSUME NEW v, SvcOK(v), NEW k \in Serials, k = v.next_serial,
         NEW w, w = Spent(v, k)
  PROVE  /\ Turn(v, 0, w, 0) /\ Beside(v, w) /\ w.next_serial = k + 1 /\ w.at = v.at
         /\ w.published = v.published /\ w.dirty = v.dirty
<1>0. k \in Nat /\ k + 1 \in Nat
  BY Numbers
<1>1. /\ w \in ServiceState /\ w.at = v.at /\ w.elapsed = v.elapsed
      /\ w.tx = v.tx /\ w.work = v.work /\ w.failed = v.failed /\ w.log = v.log
      /\ w.dirty = v.dirty /\ w.published = v.published /\ w.next_serial = k + 1
  BY <1>0, Zenon DEF SvcOK, ServiceState, Spent
<1>3. /\ v.published \in Serials /\ v.tx \in Nat /\ MaxSerial \in Nat
      /\ k <= MaxSerial /\ v.published < k
      /\ \A n \in Serials : n \in Nat /\ v.at[n] <= v.tx /\ (k <= n => v.at[n] = 0)
  BY Numbers, Zenon DEF SvcOK
<1>4. SvcOK(w)
  <2>1. \A n \in Serials : w.at[n] <= w.tx /\ (w.next_serial <= n => w.at[n] = 0)
    BY <1>0, <1>1, <1>3
  <2>2. Cardinality(Open(w)) <= Slots
    <3>1. \A n \in Serials : w.at[n] # 0 => v.at[n] # 0
      BY <1>1, Zenon
    <3>2. Cardinality(Open(v)) <= Slots
      BY Zenon DEF SvcOK
    <3> QED
      BY <3>1, <3>2, FewerOpen, Zenon
  <2>3. w.published < w.next_serial /\ w.next_serial <= MaxSerial + 1
    BY <1>0, <1>1, <1>3, Numbers
  <2>4. w.elapsed /\ w.work <= 1
    BY <1>1, Zenon DEF SvcOK
  <2> QED
    BY <1>1, <2>1, <2>2, <2>3, <2>4, Zenon DEF SvcOK
<1>6. \A n \in Serials : w.at[n] # 0 => n < k /\ n # 0
  BY <1>0, <1>1, <1>3, Numbers
<1>7. \A a \in Nat : a <= v.tx /\ Fresh(v, a) => Fresh(w, a)
  BY <1>1, Zenon DEF Fresh
<1>8. v.tx <= w.tx /\ v.next_serial <= w.next_serial /\ 0 \in Nat
  BY <1>0, <1>1, <1>3
<1>9. Turn(v, 0, w, 0)
  BY <1>1, <1>4, <1>6, <1>7, <1>8, Zenon DEF Turn
<1> QED
  BY <1>1, <1>9, Zenon DEF Beside

(* The published view gives its slot back, under the dirty mark. *)
LEMMA ReleaseTurns ==
  ASSUME NEW v, NEW x, SvcOK(v), Mine(v, x), NEW w \in ServiceState,
         w.at = [v.at EXCEPT ![v.published] = 0], w.published = v.published,
         w.next_serial = v.next_serial, w.elapsed = v.elapsed, w.tx = v.tx, w.work = v.work,
         w.dirty
  PROVE  Turn(v, x, w, x)
<1>2. \A n \in Serials : w.at[n] = IF n = v.published THEN 0 ELSE v.at[n]
  BY Numbers, Zenon
<1>3. /\ v.published \in Serials /\ x \in Nat /\ x # v.published /\ v.tx \in Nat /\ v.next_serial \in Nat
      /\ \A n \in Serials : n \in Nat /\ v.at[n] <= v.tx /\ (v.next_serial <= n => v.at[n] = 0)
  BY Numbers, Zenon DEF Mine, SvcOK
<1>4. SvcOK(w)
  <2>1. \A n \in Serials : w.at[n] <= w.tx /\ (w.next_serial <= n => w.at[n] = 0)
    BY <1>2, <1>3
  <2>2. Cardinality(Open(w)) <= Slots
    <3>1. \A n \in Serials : w.at[n] # 0 => v.at[n] # 0
      BY <1>2, Zenon
    <3>2. Cardinality(Open(v)) <= Slots
      BY Zenon DEF SvcOK
    <3> QED
      BY <3>1, <3>2, FewerOpen, Zenon
  <2>3. /\ w.elapsed /\ w.work <= 1 /\ w.published < w.next_serial
        /\ w.next_serial <= MaxSerial + 1
    BY Zenon DEF SvcOK
  <2> QED
    BY <2>1, <2>2, <2>3, Zenon DEF SvcOK
<1>6. \A n \in Serials : w.at[n] # 0 => n < v.next_serial /\ n # v.published
  BY <1>2, <1>3
<1>7. \A a \in Nat : Fresh(w, a)
  BY Zenon DEF Fresh
<1>8. v.tx <= w.tx /\ v.next_serial <= w.next_serial
  BY <1>3
<1>9. w.at[v.published] = 0 /\ \A n \in Serials : n # v.published => w.at[n] = v.at[n]
  BY <1>2, <1>3, Zenon
<1> QED
  BY <1>3, <1>4, <1>6, <1>7, <1>8, <1>9, Zenon DEF Turn

(* publish_locked: a new view of the last transaction, or nothing. *)
LEMMA PublishTurns ==
  ASSUME NEW v, NEW x, SvcOK(v), Mine(v, x), NEW w, w = PublishLocked(v)
  PROVE  /\ Turn(v, x, w, x) /\ Beside(v, w)
         /\ \/ w = v /\ ~(CanMint(v) /\ SlotFree(v))
            \/ /\ ~w.dirty /\ w.at[w.published] = v.tx
               /\ w.next_serial = v.next_serial + 1 /\ SlotFree(v)
<1>1. CASE ~(CanMint(v) /\ SlotFree(v))
  <2>1. w = v
    BY <1>1, Zenon DEF PublishLocked
  <2> QED
    BY <1>1, <2>1, NoTurn, Zenon DEF Beside
<1>2. CASE CanMint(v) /\ SlotFree(v)
  <2>0. PICK k : k = v.next_serial
    BY Zenon
  <2>1. w = Swapped(Minted(v), FALSE) /\ k \in Serials
    BY <1>2, <2>0, Zenon DEF PublishLocked, CanMint
  <2>2. /\ v.tx \in Nat /\ k \in Nat /\ k + 1 \in Nat /\ v.published \in Serials /\ v.published < k
        /\ v.at \in [Serials -> Nat] /\ MaxSerial \in Nat /\ k <= MaxSerial /\ v \in ServiceState
        /\ v.published # k
    BY <2>0, <2>1, Numbers DEF SvcOK
  <2>3. \A n \in Serials : n \in Nat /\ v.at[n] <= v.tx /\ (k <= n => v.at[n] = 0)
    BY <2>0, Numbers, Zenon DEF SvcOK
  <2>4. /\ w.tx = v.tx /\ w.work = v.work /\ w.failed = v.failed /\ w.log = v.log
        /\ w.elapsed = IntervalZero /\ w.dirty = FALSE /\ w.published = k /\ w.next_serial = k + 1
        /\ w.fold_wanted = v.fold_wanted
        /\ w.at = [[v.at EXCEPT ![k] = v.tx] EXCEPT ![v.published] = 0]
    BY <2>0, <2>1, <2>2 DEF ServiceState, Swapped, Minted, Opened, Dropped
  <2>5. w \in ServiceState
    <3>1. IntervalZero \in BOOLEAN /\ FALSE \in BOOLEAN
      BY ServiceOpsAssumption, Zenon
    <3>2. PICK o : o = Minted(v)
      BY Zenon
    <3>3. o \in ServiceState /\ o.next_serial = k /\ o.published = v.published
      BY <2>0, <2>1, <2>2, <3>2, Zenon DEF ServiceState, Minted, Opened
    <3>4. PICK p : p = Dropped(o, o.published)
      BY Zenon
    <3>5. p \in ServiceState /\ p.next_serial = k
      <4>1. 0 \in Nat
        OBVIOUS
      <4> QED
        BY <3>3, <3>4, <4>1, Zenon DEF ServiceState, Dropped
    <3>6. w = [p EXCEPT !.published = k, !.next_serial = k + 1, !.elapsed = IntervalZero, !.dirty = FALSE]
      BY <2>1, <3>2, <3>3, <3>4, <3>5, Zenon DEF Swapped
    <3> QED
      BY <2>1, <2>2, <3>1, <3>5, <3>6, Zenon DEF ServiceState
  <2>6. \A n \in Serials : w.at[n] = IF n = v.published THEN 0 ELSE IF n = k THEN v.tx ELSE v.at[n]
    BY <2>2, <2>4, Zenon
  <2>7. SvcOK(w)
    <3>1. \A n \in Serials : w.at[n] <= w.tx /\ (w.next_serial <= n => w.at[n] = 0)
      BY <2>2, <2>3, <2>4, <2>6
    <3>2. w.published < w.next_serial /\ w.next_serial <= MaxSerial + 1
      BY <2>2, <2>4
    <3>3. Cardinality(Open(w)) <= Slots
      <4>1. \A n \in Serials : w.at[n] # 0 => n = k \/ v.at[n] # 0
        BY <2>6, Zenon
      <4> QED
        BY <1>2, <2>1, <4>1, OneMoreOpen, Zenon
    <3>4. w.elapsed /\ w.work <= 1
      BY <2>4, PgAssumption, Zenon DEF SvcOK
    <3> QED
      BY <2>5, <3>1, <3>2, <3>3, <3>4, Zenon DEF SvcOK
  <2>8. w.at[w.published] = v.tx /\ ~w.dirty
    BY <2>1, <2>2, <2>4, <2>6, Zenon
  <2>9. \A n \in Serials : w.at[n] # 0 =>
          n = w.published \/ (n < k /\ n # v.published)
    BY <2>2, <2>3, <2>4, <2>6
  <2>10. \A n \in Serials : n < k /\ n # v.published => w.at[n] = v.at[n]
    BY <2>2, <2>3, <2>6
  <2>11. \A a \in Nat : a <= v.tx => Fresh(w, a)
    BY <2>8, Zenon DEF Fresh
  <2>12. v.tx <= w.tx /\ k <= w.next_serial /\ k <= w.published /\ w.published # v.published
    BY <2>2, <2>4
  <2>13. x \in Nat /\ x < k /\ x # v.published
    BY <2>0, Zenon DEF Mine
  <2>14. Turn(v, x, w, x)
    BY <2>0, <2>7, <2>9, <2>10, <2>11, <2>12, <2>13, Zenon DEF Turn
  <2> QED
    BY <1>2, <2>0, <2>4, <2>8, <2>14, Zenon DEF Beside
<1> QED
  BY <1>1, <1>2, Zenon

(* publish_if_due. *)
LEMMA ReaderTurns ==
  ASSUME NEW v, NEW x, SvcOK(v), Mine(v, x), NEW w, w = Reader(v)
  PROVE  /\ Turn(v, x, w, x) /\ Beside(v, w)
         /\ Fits(v) => w.next_serial \in Serials
         /\ ~SlotFree(v) => w = v
         /\ w.next_serial <= v.next_serial + 1
<1>0. /\ v.next_serial \in Nat /\ v.published \in Serials /\ v.published < v.next_serial
      /\ MaxSerial \in Nat
  BY Numbers, Zenon
<1>1. CASE ~PublishDue(v)
  <2>1. w = v
    BY <1>1, Zenon DEF Reader
  <2>2. Fits(v) => v.next_serial \in Serials
    BY <1>0 DEF Fits, Serials
  <2>3. v.next_serial <= v.next_serial + 1
    BY <1>0
  <2> QED
    BY <2>1, <2>2, <2>3, NoTurn, Zenon DEF Beside
<1>2. CASE PublishDue(v)
  <2>1. w = PublishLocked(v) /\ v.dirty
    BY <1>2, Zenon DEF Reader, PublishDue
  <2>2. /\ Turn(v, x, w, x) /\ Beside(v, w)
        /\ (w = v /\ ~(CanMint(v) /\ SlotFree(v))) \/ (w.next_serial = v.next_serial + 1 /\ SlotFree(v))
    BY <2>1, PublishTurns, Zenon
  <2>3. Fits(v) => v.next_serial + 1 \in Serials /\ v.next_serial \in Serials
    BY <1>0, <2>1 DEF Fits, Serials
  <2>4. v.next_serial <= v.next_serial + 1
    BY <1>0
  <2> QED
    BY <1>0, <2>2, <2>3, <2>4
<1> QED
  BY <1>1, <1>2, Zenon

(* Room for a refresh: the serials it may spend, or no slot to be had. *)
CanRefresh(v, me) ==
  Fits(v) \/ (~SlotFree(v) /\ me.reader = 0 /\ v.next_serial \in Serials)

(* Two sessions that differ in the view only. *)
Alike(m, me) ==
  /\ m.open = me.open /\ m.txn_failed = me.txn_failed /\ m.portal = me.portal
  /\ m.cursor = me.cursor /\ m.acked = me.acked /\ m.prepared = me.prepared
  /\ m.skip_until_sync = me.skip_until_sync /\ m.reply = me.reply

(* refresh_reader. *)
LEMMA Refreshes ==
  ASSUME NEW v, NEW me \in Sessions, SvcOK(v), ViewOK(v, me), CanRefresh(v, me),
         NEW r, r = Refreshed(v, me)
  PROVE  /\ Turn(v, me.reader, r.svc, r.me.reader) /\ Beside(v, r.svc) /\ ViewOK(r.svc, r.me)
         /\ r.me \in Sessions /\ Alike(r.me, me) /\ r.err \in BOOLEAN
         /\ ~r.err => r.me.reader # 0 /\ Shown(v, r.svc, r.svc.at[r.me.reader])
         /\ r.err => ~SlotFree(r.svc) /\ r.me.reader = 0
         /\ r.svc.next_serial <= v.next_serial + 2
<1>1. PICK x : x = me.reader
  BY Zenon
<1>2. Mine(v, x) /\ (x # 0 => x \in Serials)
  BY <1>1, MineOf, Zenon
<1>3. PICK u : u = Reader(v)
  BY Zenon
<1>4. /\ Turn(v, x, u, x) /\ Beside(v, u) /\ (Fits(v) => u.next_serial \in Serials)
      /\ (~SlotFree(v) => u = v) /\ u.next_serial <= v.next_serial + 1
  BY <1>2, <1>3, ReaderTurns, Zenon
<1>5. u.next_serial \in Serials /\ SvcOK(u)
  BY <1>1, <1>4, Zenon DEF CanRefresh, Turn
<1>6. ViewOK(u, me)
  BY <1>1, <1>4, ViewKept, Zenon
<1>7. Mine(u, x)
  BY <1>1, <1>5, <1>6, MineOf, Zenon
<1>8. PICK d : d = IF me.reader = 0 THEN u ELSE Dropped(u, me.reader)
  BY Zenon
<1>9. PICK k : k = u.next_serial
  BY Zenon
<1>10. r = IF me.reader # 0 /\ me.reader_at = u.published
           THEN [svc |-> u, me |-> me, err |-> FALSE]
           ELSE IF SlotFree(d)
           THEN [svc |-> [Opened(d, k) EXCEPT !.next_serial = k + 1], err |-> FALSE,
                 me |-> [me EXCEPT !.reader = k, !.reader_at = u.published]]
           ELSE [svc |-> [d EXCEPT !.next_serial = k + 1], err |-> TRUE,
                 me |-> [me EXCEPT !.reader = 0, !.reader_at = 0]]
  BY <1>3, <1>8, <1>9, Zenon DEF Refreshed
<1>11. /\ v.next_serial \in Nat /\ u.next_serial \in Nat /\ u.tx \in Nat /\ u.tx # 0 /\ u.tx = v.tx
       /\ u.published \in Serials /\ u.published \in Nat /\ u.published < u.next_serial
       /\ u.at \in [Serials -> Nat] /\ 0 \notin Serials
  BY <1>4, <1>5, Numbers, Zenon DEF Beside
<1>12. CASE me.reader # 0 /\ me.reader_at = u.published
  <2>1. r.svc = u /\ r.me = me /\ r.err = FALSE
    <3>1. r = [svc |-> u, me |-> me, err |-> FALSE]
      BY <1>10, <1>12, Zenon
    <3> QED
      BY <3>1
  <2>2. Alike(me, me)
    BY Zenon DEF Alike
  <2>3. PICK t : t = u.at[me.reader]
    BY Zenon
  <2>4. u.at[u.published] <= t /\ t \in Nat /\ u.at[u.published] \in Nat
    BY <1>1, <1>2, <1>6, <1>11, <1>12, <2>3, Zenon DEF ViewOK
  <2>5. ASSUME NEW a \in Nat, a <= v.tx, Fresh(v, a), ~u.dirty PROVE a <= t
    <3>1. a <= u.at[u.published]
      BY <1>4, <2>5, Zenon DEF Turn, Fresh
    <3> QED
      BY <2>4, <3>1
  <2>6. Shown(v, u, t)
    BY <2>4, <2>5, Zenon DEF Shown
  <2>7. u.next_serial <= v.next_serial + 2
    BY <1>4, <1>11
  <2> QED
    BY <1>1, <1>4, <1>6, <1>12, <2>1, <2>2, <2>3, <2>6, <2>7, Zenon
<1>13. CASE ~(me.reader # 0 /\ me.reader_at = u.published)
  <2>1. /\ Turn(u, x, d, 0) /\ Beside(u, d) /\ d.next_serial = k /\ d.published = u.published
        /\ (x = 0 => d = u)
    <3>1. CASE x = 0
      <4>1. d = u
        BY <1>1, <1>8, <3>1, Zenon
      <4> QED
        BY <1>5, <1>7, <1>9, <3>1, <4>1, NoTurn, Zenon DEF Beside
    <3>2. CASE x # 0
      <4>1. d = Dropped(u, x) /\ x \in Serials
        BY <1>1, <1>2, <1>8, <3>2, Zenon
      <4> QED
        BY <1>5, <1>7, <1>9, <3>2, <4>1, DropTurns, Zenon
    <3> QED
      BY <3>1, <3>2, Zenon
  <2>2. Turn(v, x, d, 0) /\ SvcOK(d)
    <3>1. SvcOK(d)
      BY <2>1, Zenon DEF Turn
    <3>2. Turn(v, x, d, 0)
      BY <1>2, <1>4, <2>1, TurnTurn, Zenon
    <3> QED
      BY <3>1, <3>2, Zenon
  <2>3. k \in Serials /\ k = d.next_serial /\ k \in Nat /\ k + 1 \in Nat /\ k + 1 <= v.next_serial + 2
    BY <1>4, <1>5, <1>9, <1>11, <2>1
  <2>4. CASE SlotFree(d)
    <3>1. PICK w : w = Took(d, k)
      BY Zenon
    <3>2. PICK m : m = [me EXCEPT !.reader = k, !.reader_at = u.published]
      BY Zenon
    <3>3. r.svc = w /\ r.me = m /\ r.err = FALSE
      <4>1. r = [svc |-> w, err |-> FALSE, me |-> m]
        BY <1>10, <1>13, <2>4, <3>1, <3>2, Zenon DEF Took
      <4> QED
        BY <4>1
    <3>4. m \in Sessions /\ Alike(m, me) /\ m.reader = k /\ m.reader_at = u.published
      <4>1. u.published \in Nat /\ k \in Nat
        BY <1>11, <2>3, Zenon
      <4> QED
        BY <3>2, <4>1, Zenon DEF Sessions, Alike
    <3>5. /\ Turn(d, 0, w, k) /\ Beside(d, w) /\ w.at[k] = d.tx /\ w.next_serial = k + 1
          /\ w.published = d.published
      <4>1. SvcOK(d) /\ k \in Serials /\ k = d.next_serial
        BY <2>2, <2>3, Zenon
      <4> QED
        BY <2>4, <3>1, <4>1, OpenTurns, Zenon
    <3>6. Turn(v, x, w, k) /\ SvcOK(w)
      <4>1. SvcOK(w)
        BY <3>5, Zenon DEF Turn
      <4>2. Turn(v, x, w, k)
        BY <1>2, <2>2, <3>5, TurnTurn, Zenon
      <4> QED
        BY <4>1, <4>2, Zenon
    <3>7. Beside(v, w) /\ w.tx = v.tx /\ w.at[k] = v.tx /\ w.published = u.published
      BY <1>4, <2>1, <3>5, Zenon DEF Beside
    <3>8. w.at[w.published] <= w.tx
      BY <1>11, <3>6, <3>7, Zenon DEF SvcOK
    <3>9. Shown(v, w, w.at[k])
      BY <3>7, <3>8, Zenon DEF Shown
    <3>10. ViewOK(w, m)
      <4>1. k < w.next_serial /\ k # w.published /\ u.published <= w.published
        BY <1>9, <1>11, <2>3, <3>5, <3>7
      <4>2. w.at[k] # 0 /\ w.at[w.published] <= w.at[k]
        BY <1>11, <3>7, <3>8, Zenon
      <4> QED
        BY <2>3, <3>4, <4>1, <4>2, Zenon DEF ViewOK, Mine
    <3>11. k # 0
      BY <1>11, <2>3, Zenon
    <3> QED
      BY <1>1, <2>3, <3>3, <3>4, <3>5, <3>6, <3>7, <3>9, <3>10, <3>11, Zenon
  <2>5. CASE ~SlotFree(d)
    <3>1. PICK w : w = Spent(d, k)
      BY Zenon
    <3>2. PICK m : m = [me EXCEPT !.reader = 0, !.reader_at = 0]
      BY Zenon
    <3>3. r.svc = w /\ r.me = m /\ r.err = TRUE
      <4>1. r = [svc |-> w, err |-> TRUE, me |-> m]
        BY <1>10, <1>13, <2>5, <3>1, <3>2, Zenon DEF Spent
      <4> QED
        BY <4>1
    <3>4. m \in Sessions /\ Alike(m, me) /\ m.reader = 0 /\ m.reader_at = 0
      <4>1. 0 \in Nat
        BY Zenon
      <4> QED
        BY <3>2, <4>1, Zenon DEF Sessions, Alike
    <3>5. Turn(d, 0, w, 0) /\ Beside(d, w) /\ w.next_serial = k + 1 /\ w.at = d.at
      <4>1. SvcOK(d) /\ k \in Serials /\ k = d.next_serial
        BY <2>2, <2>3, Zenon
      <4> QED
        BY <3>1, <4>1, SpendTurns, Zenon
    <3>6. Turn(v, x, w, 0)
      BY <1>2, <2>2, <3>5, TurnTurn, Zenon
    <3>7. Beside(v, w)
      BY <1>4, <2>1, <3>5, Zenon DEF Beside
    <3>8. ~SlotFree(w)
      BY <2>5, <3>5, Zenon DEF SlotFree, Open
    <3>9. ViewOK(w, m)
      BY <3>4, Zenon DEF ViewOK
    <3> QED
      BY <1>1, <2>3, <3>3, <3>4, <3>5, <3>6, <3>7, <3>8, <3>9, Zenon
  <2> QED
    BY <2>4, <2>5, Zenon
<1> QED
  BY <1>12, <1>13, Zenon

(* The store's commit. *)
LEMMA CommittedIs ==
  ASSUME NEW v, NEW x, SvcOK(v), Mine(v, x), NEW w, w = Committed(v)
  PROVE  /\ Turn(v, x, w, x) /\ Mine(w, x) /\ w.work = 0 /\ w.failed = v.failed
         /\ w.at = v.at /\ w.published = v.published /\ w.next_serial = v.next_serial
         /\ w.dirty = v.dirty /\ (v.work = 0 => w = v)
<1>1. CASE v.work = 0
  <2>1. w = v
    BY <1>1, Zenon DEF Committed
  <2> QED
    BY <1>1, <2>1, NoTurn, Zenon
<1>2. CASE v.work # 0
  <2>1. /\ v \in ServiceState /\ v.tx \in Nat /\ v.log \in Nat
    BY Numbers, Zenon DEF SvcOK
  <2>2. PICK t : t = [v EXCEPT !.tx = @ + 1, !.log = @ + 1, !.work = 0]
    BY Zenon
  <2>3. w = t \/ w = [t EXCEPT !.log = 0]
    BY <1>2, <2>2, Zenon DEF Committed
  <2>4. /\ t \in ServiceState /\ t.at = v.at /\ t.published = v.published /\ t.elapsed = v.elapsed
        /\ t.next_serial = v.next_serial /\ t.tx = v.tx + 1 /\ t.work = 0 /\ t.failed = v.failed
        /\ t.dirty = v.dirty
    <3>1. v.tx + 1 \in Nat \ {0} /\ v.log + 1 \in Nat /\ 0 \in Nat
      BY <2>1
    <3> QED
      BY <2>1, <2>2, <3>1, Zenon DEF ServiceState
  <2>5. /\ w \in ServiceState /\ w.at = v.at /\ w.published = v.published /\ w.elapsed = v.elapsed
        /\ w.next_serial = v.next_serial /\ w.tx = v.tx + 1 /\ w.work = 0 /\ w.failed = v.failed
        /\ w.dirty = v.dirty
    BY <2>3, <2>4, Zenon DEF ServiceState
  <2>6. v.tx <= w.tx /\ w.work <= 1
    BY <2>1, <2>5
  <2>7. Turn(v, x, w, x)
    BY <2>5, <2>6, StillTurns, Zenon
  <2>8. Mine(w, x)
    BY <2>5, Zenon DEF Mine
  <2> QED
    BY <1>2, <2>5, <2>7, <2>8, Zenon
<1> QED
  BY <1>1, <1>2, Zenon

(* A rollback, and the drop of a guard: only the working tree goes. *)
Undone(v, w) ==
  /\ w \in ServiceState /\ w.at = v.at /\ w.published = v.published /\ w.elapsed = v.elapsed
  /\ w.next_serial = v.next_serial /\ w.tx = v.tx /\ w.dirty = v.dirty /\ w.log = v.log

LEMMA UndoneTurns ==
  ASSUME NEW v, NEW x, SvcOK(v), Mine(v, x), NEW w, Undone(v, w), w.work <= 1
  PROVE  Turn(v, x, w, x) /\ Mine(w, x)
<1>1. v.tx <= w.tx
  BY Numbers DEF Undone
<1>2. Turn(v, x, w, x)
  BY <1>1, StillTurns, Zenon DEF Undone
<1> QED
  BY <1>2, Zenon DEF Mine, Undone

LEMMA RollbackUndoes ==
  ASSUME NEW v, SvcOK(v), NEW w \in RollbackOutcomes(v)
  PROVE  Undone(v, w) /\ w.work = 0
<1>1. w = [v EXCEPT !.work = 0, !.failed = FALSE] \/ w = [v EXCEPT !.failed = TRUE, !.work = 0]
  BY Zenon DEF RollbackOutcomes, RolledBack
<1>2. v \in ServiceState
  BY Zenon DEF SvcOK
<1> QED
  <2>1. 0 \in Nat
    OBVIOUS
  <2> QED
    BY <1>1, <1>2, <2>1, Zenon DEF Undone, ServiceState

LEMMA DropUndoes ==
  ASSUME NEW v, SvcOK(v), NEW w \in DropOutcomes(v)
  PROVE  Undone(v, w) /\ w.work = 0
<1>1. CASE v.work > 0
  <2>1. w \in RollbackOutcomes(v)
    BY <1>1, Zenon DEF DropOutcomes
  <2> QED
    BY <2>1, RollbackUndoes, Zenon
<1>2. CASE ~(v.work > 0)
  <2>1. w = v
    BY <1>2, Zenon DEF DropOutcomes
  <2>2. v.work = 0
    BY <1>2, Numbers
  <2> QED
    BY <2>1, <2>2, Zenon DEF Undone, SvcOK
<1> QED
  BY <1>1, <1>2, Zenon

LEMMA FailedIs ==
  ASSUME NEW v, SvcOK(v), NEW w, w = Failed(v)
  PROVE  Undone(v, w) /\ w.work = v.work /\ w.failed
<1>1. v \in ServiceState
  BY Zenon DEF SvcOK
<1> QED
  BY <1>1, Zenon DEF Failed, Undone, ServiceState

(* A commit that is told of: it is published, or the service is dirty; the *)
(* log was folded if only the published view kept it; there is room left.  *)
Tells(v, w) ==
  /\ Fresh(w, w.tx) /\ w.work = 0
  /\ Lone(v) => w.failed \/ w.log < FoldAt
  /\ v.next_serial + 2 <= MaxSerial => Fits(w)

(* Both ways to publish after a commit. *)
LEMMA PublishTells ==
  ASSUME NEW v, NEW x, NEW u, NEW w, SvcOK(v), Mine(v, x), Turn(v, x, u, x), Mine(u, x), u.dirty,
         u.tx = v.tx, u.next_serial = v.next_serial, u.work = 0,
         Lone(v) => u.failed \/ u.log < FoldAt, w = PublishLocked(u)
  PROVE  Turn(v, x, w, x) /\ Tells(v, w) /\ w.tx = v.tx
<1>1. SvcOK(u)
  BY Zenon DEF Turn
<1>2. /\ Turn(u, x, w, x) /\ Beside(u, w)
      /\ w = u \/ (~w.dirty /\ w.at[w.published] = u.tx /\ w.next_serial = u.next_serial + 1)
  BY <1>1, PublishTurns, Zenon
<1>3. Turn(v, x, w, x) /\ SvcOK(w)
  <2>1. SvcOK(w)
    BY <1>2, Zenon DEF Turn
  <2>2. Turn(v, x, w, x)
    BY <1>2, TurnTurn, Zenon
  <2> QED
    BY <2>1, <2>2, Zenon
<1>4. /\ w.tx \in Nat /\ v.next_serial \in Nat /\ MaxSerial \in Nat /\ w.dirty \in BOOLEAN
      /\ w.tx = v.tx /\ w.work = 0 /\ w.tx = u.tx
  BY <1>2, <1>3, Numbers, Zenon DEF Beside
<1>5. Fresh(w, w.tx)
  <2>1. w.dirty \/ w.at[w.published] = w.tx
    BY <1>2, <1>4, Zenon
  <2>2. w.tx <= w.tx
    BY <1>4
  <2> QED
    BY <2>1, <2>2, Zenon DEF Fresh
<1>6. Lone(v) => w.failed \/ w.log < FoldAt
  BY <1>2, Zenon DEF Beside
<1>7. v.next_serial + 2 <= MaxSerial => Fits(w)
  BY <1>2, <1>4 DEF Fits
<1> QED
  BY <1>3, <1>4, <1>5, <1>6, <1>7, Zenon DEF Tells

LEMMA AfterCommitTells ==
  ASSUME NEW v, NEW x, SvcOK(v), Mine(v, x), v.work = 0, NEW w, w = AfterCommit(v)
  PROVE  Turn(v, x, w, x) /\ Tells(v, w)
<1>0. v \in ServiceState /\ v.elapsed /\ v.published \in Serials /\ v.tx <= v.tx /\ v.log \in Nat /\ 0 <= 1
  BY Numbers DEF SvcOK
<1>1. CASE Due(v)
  <2>1. PICK d : d = Dropped(v, v.published)
    BY Zenon
  <2>2. PICK u : u = Checkpointed(d)
    BY Zenon
  <2>3. w = PublishLocked(u)
    BY <1>1, <2>1, <2>2, Zenon DEF AfterCommit, Released
  <2>4. /\ d \in ServiceState /\ d.at = [v.at EXCEPT ![v.published] = 0] /\ d.published = v.published
        /\ d.next_serial = v.next_serial /\ d.elapsed = v.elapsed /\ d.tx = v.tx /\ d.work = v.work
        /\ d.failed = v.failed /\ d.log = v.log
    BY <1>0, <2>1, Zenon DEF Dropped, ServiceState
  <2>5. \/ u = [d EXCEPT !.log = 0, !.fold_wanted = FALSE, !.dirty = TRUE]
        \/ u = [d EXCEPT !.fold_wanted = TRUE, !.dirty = TRUE] /\ ~NoReader(d)
    BY <2>2, Zenon DEF Checkpointed
  <2>6. /\ u \in ServiceState /\ u.at = d.at /\ u.published = d.published /\ u.dirty
        /\ u.next_serial = d.next_serial /\ u.elapsed = d.elapsed /\ u.tx = d.tx /\ u.work = d.work
        /\ u.log = 0 \/ ~NoReader(d)
    <3>1. 0 \in Nat
      OBVIOUS
    <3>2. CASE u = [d EXCEPT !.log = 0, !.fold_wanted = FALSE, !.dirty = TRUE]
      BY <2>4, <3>1, <3>2, Zenon DEF ServiceState
    <3>3. CASE u = [d EXCEPT !.fold_wanted = TRUE, !.dirty = TRUE] /\ ~NoReader(d)
      BY <2>4, <3>3, Zenon DEF ServiceState
    <3> QED
      BY <2>5, <3>2, <3>3, Zenon
  <2>7. Turn(v, x, u, x) /\ Mine(u, x)
    BY <2>4, <2>6, ReleaseTurns, Zenon DEF Mine
  <2>8. Lone(v) => u.failed \/ u.log < FoldAt
    <3>1. ASSUME Lone(v) PROVE NoReader(d)
      <4>1. \A n \in Serials : d.at[n] = IF n = v.published THEN 0 ELSE v.at[n]
        BY <1>0, <2>4, Numbers
      <4>2. \A n \in Serials : d.at[n] = 0
        BY <3>1, <4>1, Zenon DEF Lone
      <4> QED
        BY <4>2, Zenon DEF NoReader, Open
    <3>2. 0 < FoldAt
      BY ServiceOpsAssumption
    <3> QED
      BY <2>6, <3>1, <3>2, Zenon
  <2> QED
    BY <2>3, <2>4, <2>6, <2>7, <2>8, PublishTells, Zenon
<1>2. CASE ~Due(v)
  <2>1. PICK u : u = [v EXCEPT !.fold_wanted = FALSE, !.dirty = TRUE]
    BY Zenon
  <2>2. /\ u \in ServiceState /\ u.at = v.at /\ u.published = v.published /\ u.dirty
        /\ u.next_serial = v.next_serial /\ u.elapsed = v.elapsed /\ u.tx = v.tx /\ u.work = v.work
        /\ u.log = v.log
    BY <1>0, <2>1, Zenon DEF ServiceState
  <2>3. w = PublishLocked(u)
    BY <1>0, <1>2, <2>1, <2>2, Zenon DEF AfterCommit
  <2>4. Turn(v, x, u, x) /\ Mine(u, x)
    BY <1>0, <2>2, StillTurns, Zenon DEF Mine
  <2>5. u.log < FoldAt
    BY <1>0, <1>2, <2>2, ServiceOpsAssumption DEF Due
  <2> QED
    BY <2>2, <2>3, <2>4, <2>5, PublishTells, Zenon
<1> QED
  BY <1>1, <1>2, Zenon

(* WriterGuard::commit. *)
LEMMA CommitsOrNot ==
  ASSUME NEW v, NEW x, SvcOK(v), Mine(v, x), NEW k \in CommitOutcomes(v)
  PROVE  /\ Turn(v, x, k.svc, x) /\ k.svc.work = 0 /\ k.err \in BOOLEAN
         /\ ~k.err => Tells(v, k.svc)
<1>0. v \in ServiceState /\ v.tx \in Nat /\ v.log \in Nat /\ v.tx <= v.tx + 1 /\ 0 <= 1
  BY Numbers DEF SvcOK
<1>1. PICK t : t = [v EXCEPT !.tx = @ + 1, !.log = @ + 1]
  BY Zenon
<1>2. PICK q : q = Committed(v)
  BY Zenon
<1>3. PICK u : u = Failed([Released(q, FALSE) EXCEPT !.fold_wanted = TRUE, !.dirty = TRUE])
  BY Zenon
<1>4. \/ \E d \in DropOutcomes(v) : k = [svc |-> d, err |-> TRUE]
      \/ k = [svc |-> AfterCommit(q), err |-> FALSE]
      \/ k = [svc |-> PublishLocked(u), err |-> FALSE]
      \/ \E d \in DropOutcomes(Failed(v)) : k = [svc |-> d, err |-> TRUE]
      \/ \E d \in DropOutcomes(Failed(t)) : k = [svc |-> d, err |-> TRUE]
  <2>1. CASE v.failed
    BY <2>1, Zenon DEF CommitOutcomes
  <2>2. CASE ~v.failed
    <3>1. \/ k = [svc |-> AfterCommit(q), err |-> FALSE]
          \/ k = [svc |-> PublishLocked(u), err |-> FALSE]
          \/ k \in {[svc |-> d, err |-> TRUE] :
                 d \in UNION {DropOutcomes(Failed(w)) :
                   w \in (IF ~Appends(v) THEN {v}
                          ELSE IF "commit" \in Faults /\ v.work > 0 THEN {v, t} ELSE {})}}
      BY <1>1, <1>2, <1>3, <2>2, Zenon DEF CommitOutcomes
    <3>2. ASSUME k \in {[svc |-> d, err |-> TRUE] :
                 d \in UNION {DropOutcomes(Failed(w)) :
                   w \in (IF ~Appends(v) THEN {v}
                          ELSE IF "commit" \in Faults /\ v.work > 0 THEN {v, t} ELSE {})}}
          PROVE \E w \in {v, t} : \E d \in DropOutcomes(Failed(w)) : k = [svc |-> d, err |-> TRUE]
      BY <3>2, Zenon
    <3> QED
      BY <3>1, <3>2, Zenon
  <2> QED
    BY <2>1, <2>2, Zenon
<1>5. /\ Turn(v, x, q, x) /\ Mine(q, x) /\ q.work = 0 /\ q.failed = v.failed /\ q.at = v.at
      /\ q.published = v.published /\ q.next_serial = v.next_serial
  BY <1>2, CommittedIs, Zenon
<1>6. SvcOK(q) /\ q \in ServiceState /\ q.published \in Serials /\ q.elapsed
  BY <1>5, Numbers, Zenon DEF Turn, SvcOK
<1>7. ASSUME NEW w, Tells(q, w) PROVE Tells(v, w)
  BY <1>5, <1>7, Zenon DEF Tells, Lone
<1>8. ASSUME NEW d \in DropOutcomes(v), k = [svc |-> d, err |-> TRUE]
      PROVE  Turn(v, x, k.svc, x) /\ k.svc.work = 0 /\ k.err = TRUE
  <2>1. k.svc = d /\ k.err = TRUE
    BY <1>8, Zenon
  <2>2. Undone(v, d) /\ d.work = 0
    BY DropUndoes, Zenon
  <2>3. d.work <= 1
    BY <1>0, <2>2, Zenon
  <2> QED
    BY <2>1, <2>2, <2>3, UndoneTurns, Zenon
<1>9. ASSUME NEW w, w \in {v, t}, NEW d \in DropOutcomes(Failed(w)), k = [svc |-> d, err |-> TRUE]
      PROVE  Turn(v, x, k.svc, x) /\ k.svc.work = 0 /\ k.err = TRUE
  <2>1. k.svc = d /\ k.err = TRUE
    BY <1>9, Zenon
  <2>2. /\ t \in ServiceState /\ t.at = v.at /\ t.published = v.published /\ t.elapsed = v.elapsed
        /\ t.next_serial = v.next_serial /\ t.dirty = v.dirty /\ t.tx = v.tx + 1 /\ t.work = v.work
    <3>1. v.tx + 1 \in Nat \ {0} /\ v.log + 1 \in Nat
      BY <1>0
    <3> QED
      BY <1>0, <1>1, <3>1, Zenon DEF ServiceState
  <2>3. Turn(v, x, t, x) /\ Mine(t, x)
    BY <1>0, <2>2, StillTurns, Zenon DEF Mine, SvcOK
  <2>4. Turn(v, x, w, x) /\ Mine(w, x) /\ SvcOK(w)
    BY <1>9, <2>3, NoTurn, Zenon DEF Turn
  <2>5. PICK f : f = Failed(w)
    BY Zenon
  <2>6. Undone(w, f) /\ f.work = w.work
    BY <2>4, <2>5, FailedIs, Zenon
  <2>7. Turn(w, x, f, x) /\ Mine(f, x) /\ SvcOK(f)
    <3>1. f.work <= 1
      BY <2>4, <2>6, Zenon DEF SvcOK
    <3>2. Turn(w, x, f, x) /\ Mine(f, x)
      BY <2>4, <2>6, <3>1, UndoneTurns, Zenon
    <3> QED
      BY <3>2, Zenon DEF Turn
  <2>8. Undone(f, d) /\ d.work = 0
    BY <1>9, <2>5, <2>7, DropUndoes, Zenon
  <2>9. Turn(f, x, d, x)
    BY <1>0, <2>7, <2>8, UndoneTurns, Zenon
  <2>10. Turn(w, x, d, x)
    BY <2>4, <2>7, <2>9, TurnTurn, Zenon
  <2>11. Turn(v, x, d, x)
    BY <2>4, <2>10, TurnTurn, Zenon
  <2> QED
    BY <2>1, <2>8, <2>11, Zenon
<1>10. ASSUME NEW w, Turn(q, x, w, x), Tells(q, w), k = [svc |-> w, err |-> FALSE]
       PROVE  /\ Turn(v, x, k.svc, x) /\ k.svc.work = 0 /\ k.err = FALSE /\ Tells(v, k.svc)
  <2>1. k.svc = w /\ k.err = FALSE
    BY <1>10, Zenon
  <2>2. Turn(v, x, w, x)
    BY <1>5, <1>10, TurnTurn, Zenon
  <2> QED
    BY <1>7, <1>10, <2>1, <2>2, Zenon DEF Tells
<1>11. CASE k = [svc |-> AfterCommit(q), err |-> FALSE]
  <2>1. Turn(q, x, AfterCommit(q), x) /\ Tells(q, AfterCommit(q))
    BY <1>5, <1>6, AfterCommitTells, Zenon
  <2> QED
    BY <1>10, <1>11, <2>1, Zenon
<1>12. CASE k = [svc |-> PublishLocked(u), err |-> FALSE]
  <2>1. PICK d : d = [Dropped(q, q.published) EXCEPT !.fold_wanted = TRUE, !.dirty = TRUE]
    BY Zenon
  <2>2. u = [d EXCEPT !.failed = TRUE]
    BY <1>3, <2>1, Zenon DEF Failed, Released
  <2>3. /\ d \in ServiceState /\ d.at = [q.at EXCEPT ![q.published] = 0] /\ d.published = q.published
        /\ d.next_serial = q.next_serial /\ d.elapsed = q.elapsed /\ d.tx = q.tx /\ d.work = q.work
        /\ d.dirty
    BY <1>6, <2>1, Zenon DEF Dropped, ServiceState
  <2>4. /\ u \in ServiceState /\ u.at = d.at /\ u.published = d.published
        /\ u.next_serial = d.next_serial /\ u.elapsed = d.elapsed /\ u.tx = d.tx /\ u.work = d.work
        /\ u.dirty /\ u.failed
    BY <2>2, <2>3, Zenon DEF ServiceState
  <2>5. Turn(q, x, u, x) /\ Mine(u, x)
    BY <1>5, <1>6, <2>3, <2>4, ReleaseTurns, Zenon DEF Mine
  <2>6. Turn(q, x, PublishLocked(u), x) /\ Tells(q, PublishLocked(u))
    BY <1>5, <1>6, <2>3, <2>4, <2>5, PublishTells, Zenon
  <2> QED
    BY <1>10, <1>12, <2>6, Zenon
<1> QED
  BY <1>4, <1>8, <1>9, <1>11, <1>12, Zenon

(* From v to w the writer did something, and published no view. *)
Wrote(v, x, w) ==
  /\ Turn(v, x, w, x) /\ Mine(w, x) /\ w.at = v.at /\ w.published = v.published
  /\ w.dirty = v.dirty /\ w.next_serial = v.next_serial

LEMMA WroteWrote ==
  ASSUME NEW v, NEW x, NEW u, NEW w, Mine(v, x), SvcOK(v), Wrote(v, x, u), Wrote(u, x, w)
  PROVE  Wrote(v, x, w)
<1>1. Turn(v, x, u, x) /\ Turn(u, x, w, x)
  BY Zenon DEF Wrote
<1>2. Turn(v, x, w, x)
  BY <1>1, TurnTurn, Zenon
<1> QED
  BY <1>2, Zenon DEF Wrote

LEMMA WorkingWrote ==
  ASSUME NEW v, NEW x, SvcOK(v), Mine(v, x), NEW w, w = Working(v)
  PROVE  Wrote(v, x, w) /\ SvcOK(w) /\ w.tx = v.tx /\ w.work = 1 /\ v.work <= w.work
<1>1. v \in ServiceState /\ v.work <= 1 /\ v.work \in Nat /\ v.tx \in Nat
  BY Numbers, Zenon DEF SvcOK
<1>2. /\ w \in ServiceState /\ w.at = v.at /\ w.published = v.published /\ w.elapsed = v.elapsed
      /\ w.next_serial = v.next_serial /\ w.dirty = v.dirty /\ w.tx = v.tx /\ w.work = 1
  BY <1>1, Zenon DEF ServiceState, Working
<1>3. v.tx <= w.tx /\ w.work <= 1 /\ v.work <= w.work
  BY <1>1, <1>2
<1>4. Turn(v, x, w, x) /\ Mine(w, x) /\ SvcOK(w)
  BY <1>2, <1>3, StillTurns, Zenon DEF Mine, Turn
<1> QED
  BY <1>2, <1>3, <1>4, Zenon DEF Wrote

LEMMA FailedWrote ==
  ASSUME NEW v, NEW x, SvcOK(v), Mine(v, x), NEW w, w = Failed(v)
  PROVE  Wrote(v, x, w) /\ SvcOK(w) /\ w.tx = v.tx /\ w.work = v.work
<1>1. Undone(v, w) /\ w.work = v.work
  BY FailedIs, Zenon
<1>2. w.work <= 1
  BY <1>1, Zenon DEF SvcOK
<1>3. Turn(v, x, w, x) /\ Mine(w, x)
  BY <1>1, <1>2, UndoneTurns, Zenon
<1> QED
  BY <1>1, <1>3, Zenon DEF Wrote, Undone, Turn

LEMMA CommittedWrote ==
  ASSUME NEW v, NEW x, SvcOK(v), Mine(v, x), NEW w, w = Committed(v)
  PROVE  Wrote(v, x, w) /\ SvcOK(w)
<1>1. /\ Turn(v, x, w, x) /\ Mine(w, x) /\ w.at = v.at /\ w.published = v.published
      /\ w.next_serial = v.next_serial /\ w.dirty = v.dirty
  BY CommittedIs, Zenon
<1> QED
  BY <1>1, Zenon DEF Wrote, Turn

(* What a statement may leave of its writes on top of v. *)
LEMMA HalfwayWrote ==
  ASSUME NEW v, NEW x, SvcOK(v), Mine(v, x), NEW w \in {v, Working(v), Failed(Working(v))}
  PROVE  Wrote(v, x, w) /\ w.tx = v.tx /\ v.work <= w.work
<1>1. PICK u : u = Working(v)
  BY Zenon
<1>2. Wrote(v, x, u) /\ SvcOK(u) /\ u.tx = v.tx /\ v.work <= u.work
  BY <1>1, WorkingWrote, Zenon
<1>3. CASE w = v
  <2>1. Turn(v, x, v, x) /\ v.work <= v.work
    BY NoTurn, Numbers
  <2> QED
    BY <1>3, <2>1, Zenon DEF Wrote
<1>4. CASE w = u
  BY <1>2, <1>4, Zenon
<1>5. CASE w = Failed(u)
  <2>1. Mine(u, x)
    BY <1>2, Zenon DEF Wrote
  <2>2. Wrote(u, x, w) /\ w.tx = u.tx /\ w.work = u.work
    BY <1>2, <1>5, <2>1, FailedWrote, Zenon
  <2> QED
    BY <1>2, <2>2, WroteWrote, Zenon
<1> QED
  BY <1>1, <1>3, <1>4, <1>5, Zenon

(* WriterGuard::sql. *)
LEMMA SqlDoes ==
  ASSUME NEW v, NEW x, NEW ddl \in BOOLEAN, SvcOK(v), Mine(v, x), NEW s \in Sql(v, ddl)
  PROVE  /\ Wrote(v, x, s.svc) /\ s.err \in BOOLEAN
         /\ ~ddl => s.svc.tx = v.tx /\ v.work <= s.svc.work
<1>1. PICK q : q = Committed(Working(v))
  BY Zenon
<1>2. \A p \in Published(v, ddl) : p = v \/ (ddl /\ p = q)
  BY <1>1, Zenon DEF Published
<1>3. \A h \in Halfway(v, ddl) : \E p \in Published(v, ddl) : h \in {p, Working(p), Failed(Working(p))}
  <2>1. v \in Published(v, ddl)
    BY Zenon DEF Published
  <2>2. ASSUME NEW h \in Halfway(v, ddl)
        PROVE  h = Failed(Working(v)) \/ \E p \in Published(v, ddl) : h \in {p, Working(p), Failed(Working(p))}
    <3>1. CASE "write" \in Faults
      <4>1. h \in UNION {{p, Working(p), Failed(Working(p))} : p \in Published(v, ddl)}
        BY <3>1, Zenon DEF Halfway
      <4> QED
        BY <4>1, Zenon
    <3>2. CASE "write" \notin Faults
      BY <3>2, Zenon DEF Halfway
    <3> QED
      BY <3>1, <3>2, Zenon
  <2> QED
    BY <2>1, <2>2, Zenon
<1>4. /\ s.err \in BOOLEAN
      /\ \/ s.svc \in {v, Working(v)}
         \/ s.svc \in Published(v, ddl)
         \/ s.svc \in Halfway(v, ddl)
  <2>1. \/ s = [svc |-> v, err |-> TRUE]
        \/ \E u \in Published(v, ddl) \union {v, Working(v)} : s = [svc |-> u, err |-> FALSE]
        \/ \E u \in Halfway(v, ddl) : s = [svc |-> u, err |-> TRUE]
    BY Zenon DEF Sql
  <2>2. CASE s = [svc |-> v, err |-> TRUE]
    BY <2>2, Zenon
  <2>3. CASE \E u \in Published(v, ddl) \union {v, Working(v)} : s = [svc |-> u, err |-> FALSE]
    <3>1. PICK u \in Published(v, ddl) \union {v, Working(v)} : s = [svc |-> u, err |-> FALSE]
      BY <2>3, Zenon
    <3>2. s.svc = u /\ s.err = FALSE
      BY <3>1, Zenon
    <3> QED
      BY <3>2, Zenon
  <2>4. CASE \E u \in Halfway(v, ddl) : s = [svc |-> u, err |-> TRUE]
    <3>1. PICK u \in Halfway(v, ddl) : s = [svc |-> u, err |-> TRUE]
      BY <2>4, Zenon
    <3>2. s.svc = u /\ s.err = TRUE
      BY <3>1, Zenon
    <3> QED
      BY <3>2, Zenon
  <2> QED
    BY <2>1, <2>2, <2>3, <2>4, Zenon
<1>5. PICK p : /\ p = v \/ (ddl /\ p = q)
               /\ s.svc \in {p, Working(p), Failed(Working(p))}
  BY <1>2, <1>3, <1>4, Zenon
<1>6. CASE p = v
  <2>1. s.svc \in {v, Working(v), Failed(Working(v))}
    BY <1>5, <1>6, Zenon
  <2> QED
    BY <1>4, <2>1, HalfwayWrote, Zenon
<1>7. CASE ddl /\ p = q
  <2>1. PICK u : u = Working(v)
    BY Zenon
  <2>2. Wrote(v, x, u) /\ SvcOK(u)
    BY <2>1, WorkingWrote, Zenon
  <2>3. Wrote(u, x, q) /\ SvcOK(q)
    <3>1. Mine(u, x)
      BY <2>2, Zenon DEF Wrote
    <3> QED
      BY <1>1, <2>1, <2>2, <3>1, CommittedWrote, Zenon
  <2>4. Wrote(v, x, q)
    BY <2>2, <2>3, WroteWrote, Zenon
  <2>5. Wrote(q, x, s.svc)
    <3>1. Mine(q, x) /\ s.svc \in {q, Working(q), Failed(Working(q))}
      BY <1>5, <1>7, <2>3, Zenon DEF Wrote
    <3> QED
      BY <2>3, <3>1, HalfwayWrote, Zenon
  <2>6. Wrote(v, x, s.svc)
    BY <2>4, <2>5, WroteWrote, Zenon
  <2> QED
    BY <1>4, <1>7, <2>6, Zenon
<1> QED
  BY <1>5, <1>6, <1>7, Zenon
-----------------------------------------------------------------------------
(* Statements. *)

LEMMA ConnIs ==
  ASSUME NEW c \in Conns
  PROVE  c # NoOne /\ c \in Holders /\ NoOne \in Holders
  BY PgAssumption, Zenon DEF Holders

(* The session has not moved, but for what is said. *)
LEMMA SessMoves ==
  ASSUME NEW v, NEW x, NEW w, NEW y, NEW me, NEW m \in Sessions, SvcOK(v), SessOK(v, me),
         Turn(v, x, w, y), ViewOK(w, m), CursorOK(m.cursor),
         m.acked = me.acked \/ (m.acked = w.tx /\ Fresh(w, w.tx))
  PROVE  SessOK(w, m)
<1>1. v.tx \in Nat /\ w.tx \in Nat /\ SvcOK(w) /\ v.tx <= w.tx
  BY Numbers, Zenon DEF Turn
<1>2. me.acked \in Nat /\ me.acked <= v.tx /\ Fresh(v, me.acked)
  BY Zenon DEF SessOK, Sessions
<1>3. Fresh(w, me.acked) /\ me.acked <= w.tx /\ w.tx <= w.tx
  <2>1. Fresh(w, me.acked)
    BY <1>2, Zenon DEF Turn
  <2> QED
    BY <1>1, <1>2, <2>1
<1>4. m.acked <= w.tx /\ Fresh(w, m.acked)
  BY <1>3, Zenon
<1> QED
  BY <1>4, Zenon DEF SessOK

(* A statement that leaves the view of its session alone. *)
LEMMA GoodResult ==
  ASSUME NEW c \in Conns, NEW v, NEW h \in Holders, NEW me, SvcOK(v), SessOK(v, me),
         NEW w, Turn(v, me.reader, w, me.reader),
         NEW m \in Sessions, m.reader = me.reader, m.reader_at = me.reader_at, m.open = me.open,
         CursorOK(m.cursor), m.portal \in {me.portal, NoPortal},
         m.acked = me.acked
           \/ (m.acked = w.tx /\ Fresh(w, w.tx) /\ (Lone(v) => w.failed \/ w.log < FoldAt)),
         NEW h2 \in Holders, Blocks(c, v, h, me.txn_failed, w, h2),
         NEW err \in BOOLEAN, NEW rows \in Nat, rows <= AnswerRows,
         NEW r, r = Result(w, h2, m, err, 0, rows)
  PROVE  Good(c, v, h, me, r)
<1>1. /\ r.svc = w /\ r.holder = h2 /\ r.me = m /\ r.err = err /\ r.tx = 0 /\ r.rows = rows
      /\ r \in Results
  <2>1. w \in ServiceState
    BY Zenon DEF Turn, SvcOK
  <2> QED
    BY <2>1, Zenon DEF Results, Result
<1>2. me \in Sessions /\ ViewOK(v, me)
  BY Zenon DEF SessOK
<1>3. ViewOK(w, me)
  BY <1>2, ViewKept, Zenon
<1>4. ViewOK(w, m)
  BY <1>3, Zenon DEF ViewOK
<1>5. SessOK(w, m)
  BY <1>4, SessMoves, Zenon
<1>6. Shown(v, w, 0)
  BY Zenon DEF Shown
<1>7. Told(v, me.acked, w, m.acked)
  <2>1. me.acked \in Nat /\ ~(me.acked < me.acked)
    BY <1>2 DEF Sessions
  <2> QED
    BY <2>1, Zenon DEF Told
<1> QED
  BY <1>1, <1>5, <1>6, <1>7, Zenon DEF Good

(* Nothing of the working tree or the last transaction moves. *)
LEMMA BlocksBeside ==
  ASSUME NEW c, NEW v, NEW h, NEW bad, NEW w, SvcOK(v), w.tx = v.tx, w.work = v.work, w.failed = v.failed
  PROVE  Blocks(c, v, h, bad, w, h)
<1>1. v.work <= v.work
  BY Numbers
<1> QED
  BY <1>1, Zenon DEF Blocks, Clean

LEMMA Stays ==
  ASSUME NEW c \in Conns, NEW v, NEW h \in Holders, NEW me, SvcOK(v), SessOK(v, me)
  PROVE  /\ Mine(v, me.reader) /\ Turn(v, me.reader, v, me.reader) /\ me \in Sessions
         /\ CursorOK(me.cursor) /\ Blocks(c, v, h, me.txn_failed, v, h)
         /\ Good(c, v, h, me, Refuse(v, h, me)) /\ Good(c, v, h, me, Done(v, h, me))
<1>1. me \in Sessions /\ ViewOK(v, me) /\ CursorOK(me.cursor)
  BY Zenon DEF SessOK
<1>2. Mine(v, me.reader)
  BY <1>1, MineOf, Zenon
<1>3. Turn(v, me.reader, v, me.reader)
  BY <1>2, NoTurn, Zenon
<1>4. Blocks(c, v, h, me.txn_failed, v, h)
  BY BlocksBeside, Zenon
<1>5. 0 \in Nat /\ 0 <= AnswerRows
  BY PgAssumption
<1>6. Good(c, v, h, me, Refuse(v, h, me))
  BY <1>1, <1>3, <1>4, <1>5, GoodResult, Zenon DEF Refuse
<1>7. Good(c, v, h, me, Done(v, h, me))
  BY <1>1, <1>3, <1>4, <1>5, GoodResult, Zenon DEF Done
<1> QED
  BY <1>1, <1>2, <1>3, <1>4, <1>6, <1>7, Zenon

(* A refresh after a statement that is good, and the rows it returns. *)
LEMMA AnsweredGood ==
  ASSUME NEW c \in Conns, NEW v, NEW h \in Holders, NEW me, SvcOK(v), SessOK(v, me), NEW ddl,
         NEW g, Good(c, v, h, me, g), ~ddl => Fits(g.svc), NEW r \in Answered(g, ddl)
  PROVE  Good(c, v, h, me, r)
<1>1. CASE r = g
  BY <1>1, Zenon
<1>2. CASE r # g
  <2>1. PICK f : f = Refreshed(g.svc, g.me)
    BY Zenon
  <2>2. ~ddl /\ r = Result(f.svc, g.holder, f.me, FALSE, 0, 1)
    BY <1>2, <2>1, Zenon DEF Answered
  <2>3. /\ g \in Results /\ Turn(v, me.reader, g.svc, g.me.reader) /\ SessOK(g.svc, g.me)
        /\ g.me.open = me.open /\ g.me.portal \in {me.portal, NoPortal}
        /\ Told(v, me.acked, g.svc, g.me.acked)
        /\ Blocks(c, v, h, me.txn_failed, g.svc, g.holder)
    BY Zenon DEF Good
  <2>4. g.me \in Sessions /\ ViewOK(g.svc, g.me) /\ CursorOK(g.me.cursor) /\ SvcOK(g.svc)
    BY <2>3, Zenon DEF SessOK, Turn
  <2>5. CanRefresh(g.svc, g.me)
    BY <2>2, Zenon DEF CanRefresh
  <2>6. /\ Turn(g.svc, g.me.reader, f.svc, f.me.reader) /\ Beside(g.svc, f.svc) /\ ViewOK(f.svc, f.me)
        /\ f.me \in Sessions /\ Alike(f.me, g.me)
    BY <2>1, <2>4, <2>5, Refreshes, Zenon
  <2>7. Mine(v, me.reader)
    BY Stays, Zenon
  <2>8. Turn(v, me.reader, f.svc, f.me.reader)
    <3>1. PICK x, y, z, a, b : x = me.reader /\ y = g.me.reader /\ z = f.me.reader /\ a = g.svc /\ b = f.svc
      BY Zenon
    <3>2. Mine(v, x) /\ Turn(v, x, a, y) /\ Turn(a, y, b, z)
      BY <2>3, <2>6, <2>7, <3>1, Zenon
    <3>3. Turn(v, x, b, z)
      BY <3>2, TurnTurn, Zenon
    <3> QED
      BY <3>1, <3>3, Zenon
  <2>9. SessOK(f.svc, f.me)
    BY <2>3, <2>4, <2>6, SessMoves, Zenon DEF Alike
  <2>10. /\ r.svc = f.svc /\ r.holder = g.holder /\ r.me = f.me /\ r.err = FALSE /\ r.tx = 0 /\ r.rows = 1
         /\ r \in Results
    <3>1. f.svc \in ServiceState
      BY <2>8, Zenon DEF Turn, SvcOK
    <3>2. g.holder \in Holders
      BY <2>3, Zenon DEF Results
    <3> QED
      BY <2>2, <2>6, <3>1, <3>2, Zenon DEF Results, Result
  <2>11. Told(v, me.acked, f.svc, f.me.acked)
    BY <2>3, <2>6, Zenon DEF Told, Beside, Alike
  <2>12. Blocks(c, v, h, me.txn_failed, f.svc, g.holder)
    BY <2>3, <2>6, Zenon DEF Blocks, Clean, Beside
  <2>13. 1 <= AnswerRows
    BY PgAssumption
  <2>14. Shown(v, f.svc, 0)
    BY Zenon DEF Shown
  <2>15. f.me.open = me.open /\ f.me.portal \in {me.portal, NoPortal}
    BY <2>3, <2>6, Zenon DEF Alike
  <2> QED
    BY <2>8, <2>9, <2>10, <2>11, <2>12, <2>13, <2>14, <2>15, Zenon DEF Good
<1> QED
  BY <1>1, <1>2, Zenon

(* What a walk needs: inside a block nothing, outside room for a refresh. *)
CanWalk(c, v, h, me) == h # c => CanRefresh(v, me)

(* Connection::walk. *)
LEMMA WalkGood ==
  ASSUME NEW c \in Conns, NEW v, NEW h \in Holders, NEW me, SvcOK(v), SessOK(v, me),
         CanWalk(c, v, h, me), NEW r \in Walk(c, v, h, me)
  PROVE  Good(c, v, h, me, r) /\ r.me.acked = me.acked
<1>0. AnswerRows \in Nat /\ AnswerRows <= AnswerRows /\ 0 \in 0..AnswerRows /\ AnswerRows \in 0..AnswerRows
  BY PgAssumption
<1>1. CASE h = c
  <2>1. \E err \in BOOLEAN, n \in 0..AnswerRows : r = Result(v, h, me, err, 0, n)
    BY <1>0, <1>1, Zenon DEF Walk, Refuse, Broken
  <2>2. PICK err \in BOOLEAN, n \in 0..AnswerRows : r = Result(v, h, me, err, 0, n)
    BY <2>1, Zenon
  <2>3. n \in Nat /\ n <= AnswerRows
    BY <1>0
  <2>4. r.me = me
    BY <2>2, Zenon DEF Result
  <2>5. Good(c, v, h, me, r)
    BY <2>2, <2>3, Stays, GoodResult, Zenon
  <2> QED
    BY <2>4, <2>5, Zenon
<1>2. CASE h # c
  <2>1. PICK f : f = Refreshed(v, me)
    BY Zenon
  <2>2. PICK t : t = f.svc.at[f.me.reader]
    BY Zenon
  <2>3. \/ r = Result(f.svc, h, f.me, FALSE, t, AnswerRows) /\ ~f.err
        \/ \E n \in 0..AnswerRows : r = Result(f.svc, h, f.me, TRUE, 0, n)
    BY <1>0, <1>2, <2>1, <2>2, Zenon DEF Walk, Refuse, Broken
  <2>4. me \in Sessions /\ ViewOK(v, me) /\ CursorOK(me.cursor)
    BY Zenon DEF SessOK
  <2>5. /\ Turn(v, me.reader, f.svc, f.me.reader) /\ Beside(v, f.svc) /\ ViewOK(f.svc, f.me)
        /\ f.me \in Sessions /\ Alike(f.me, me)
        /\ ~f.err => f.me.reader # 0 /\ Shown(v, f.svc, t)
    <3>1. CanRefresh(v, me)
      BY <1>2, Zenon DEF CanWalk
    <3> QED
      BY <2>1, <2>2, <2>4, <3>1, Refreshes, Zenon
  <2>6. SessOK(f.svc, f.me)
    BY <2>4, <2>5, SessMoves, Zenon DEF Alike
  <2>7. SvcOK(f.svc) /\ f.svc \in ServiceState
    BY <2>5, Zenon DEF Turn, SvcOK
  <2>8. ~f.err => t \in Nat
    <3>1. ~f.err => f.me.reader \in Serials
      BY <2>5, Zenon DEF ViewOK
    <3> QED
      BY <2>2, <2>7, <3>1, Numbers, Zenon
  <2>9. Told(v, me.acked, f.svc, f.me.acked)
    <3>1. me.acked \in Nat /\ ~(me.acked < me.acked)
      BY <2>4 DEF Sessions
    <3> QED
      BY <2>5, <3>1, Zenon DEF Told, Alike
  <2>10. Blocks(c, v, h, me.txn_failed, f.svc, h)
    BY <2>5, BlocksBeside, Zenon DEF Beside
  <2>11. f.me.open = me.open /\ f.me.portal \in {me.portal, NoPortal} /\ f.me.acked = me.acked
    BY <2>5, Zenon DEF Alike
  <2>12. CASE r = Result(f.svc, h, f.me, FALSE, t, AnswerRows) /\ ~f.err
    <3>1. /\ r.svc = f.svc /\ r.holder = h /\ r.me = f.me /\ r.err = FALSE /\ r.tx = t
          /\ r.rows = AnswerRows /\ r \in Results
      BY <1>0, <2>5, <2>7, <2>8, <2>12 DEF Results, Result
    <3> QED
      BY <1>0, <2>5, <2>6, <2>9, <2>10, <2>11, <2>12, <3>1, Zenon DEF Good
  <2>13. ASSUME NEW n \in 0..AnswerRows, r = Result(f.svc, h, f.me, TRUE, 0, n)
         PROVE  Good(c, v, h, me, r) /\ r.me.acked = me.acked
    <3>0. n \in Nat /\ n <= AnswerRows /\ 0 \in Nat
      BY <1>0
    <3>1. /\ r.svc = f.svc /\ r.holder = h /\ r.me = f.me /\ r.err = TRUE /\ r.tx = 0
          /\ r.rows = n /\ r \in Results
      BY <2>5, <2>7, <2>13, <3>0, Zenon DEF Results, Result
    <3>2. Shown(v, f.svc, 0)
      BY Zenon DEF Shown
    <3> QED
      BY <2>5, <2>6, <2>9, <2>10, <2>11, <3>0, <3>1, <3>2, Zenon DEF Good
  <2> QED
    BY <2>3, <2>12, <2>13, Zenon
<1> QED
  BY <1>1, <1>2, Zenon

Roomy(v) == v.next_serial + 2 <= MaxSerial

LEMMA RoomyFits ==
  ASSUME NEW v, NEW w, SvcOK(v), SvcOK(w), Roomy(v), w.next_serial = v.next_serial
  PROVE  Fits(w)
  BY Numbers DEF Roomy, Fits

(* The fields of a session that a statement sets. *)
LEMMA WithWell ==
  ASSUME NEW me \in Sessions, NEW m, m = [me EXCEPT !.txn_failed = FALSE]
  PROVE  /\ m \in Sessions /\ m.acked = me.acked /\ m.reader = me.reader /\ m.reader_at = me.reader_at
         /\ m.open = me.open /\ m.portal = me.portal /\ m.cursor = me.cursor
  BY Zenon DEF Sessions

(* Connection::write_statement inside a block. *)
LEMMA WriteInBlock ==
  ASSUME NEW c \in Conns, NEW v, NEW me, SvcOK(v), SessOK(v, me), ~me.txn_failed, Roomy(v),
         NEW ddl \in BOOLEAN, NEW r \in WriteStatement(c, v, c, me, ddl)
  PROVE  Good(c, v, c, me, r)
<1>0. c \in Holders /\ c # NoOne /\ 0 \in Nat /\ 0 <= AnswerRows
  BY ConnIs, PgAssumption
<1>1. /\ Mine(v, me.reader) /\ me \in Sessions /\ CursorOK(me.cursor)
      /\ Good(c, v, c, me, Refuse(v, c, me))
  BY <1>0, Stays, Zenon
<1>2. CASE DdlInBlock(v, ddl)
  <2>1. r = Refuse(v, c, me)
    BY <1>2, Zenon DEF WriteStatement
  <2> QED
    BY <1>1, <2>1, Zenon
<1>3. CASE ~DdlInBlock(v, ddl)
  <2>1. PICK s \in Sql(v, ddl) : r \in IF s.err THEN {Refuse(s.svc, c, me)}
                                        ELSE Answered(Done(s.svc, c, me), ddl)
    BY <1>3, Zenon DEF WriteStatement
  <2>2. PICK w : w = s.svc
    BY Zenon
  <2>3. /\ Turn(v, me.reader, w, me.reader) /\ w.next_serial = v.next_serial
        /\ ~ddl => w.tx = v.tx /\ v.work <= w.work
    BY <1>1, <2>2, SqlDoes, Zenon DEF Wrote
  <2>4. SvcOK(w)
    BY <2>3, Zenon DEF Turn
  <2>5. Blocks(c, v, c, me.txn_failed, w, c)
    <3>1. ~(ddl /\ v.work > 0)
      BY <1>3, Zenon DEF DdlInBlock
    <3> QED
      BY <1>0, <2>3, <3>1, Zenon DEF Blocks, Clean
  <2>6. Good(c, v, c, me, Refuse(w, c, me)) /\ Good(c, v, c, me, Done(w, c, me))
    <3>1. Good(c, v, c, me, Refuse(w, c, me))
      BY <1>0, <1>1, <2>3, <2>5, GoodResult, Zenon DEF Refuse
    <3>2. Good(c, v, c, me, Done(w, c, me))
      BY <1>0, <1>1, <2>3, <2>5, GoodResult, Zenon DEF Done
    <3> QED
      BY <3>1, <3>2, Zenon
  <2>7. CASE s.err
    BY <2>1, <2>2, <2>6, <2>7, Zenon
  <2>8. CASE ~s.err
    <3>1. r \in Answered(Done(w, c, me), ddl)
      BY <2>1, <2>2, <2>8, Zenon
    <3>2. Fits(w)
      BY <2>3, <2>4, RoomyFits, Zenon
    <3>3. Done(w, c, me).svc = w
      BY Zenon DEF Done, Result
    <3> QED
      BY <1>0, <2>6, <3>1, <3>2, <3>3, AnsweredGood, Zenon
  <2> QED
    BY <2>7, <2>8, Zenon
<1> QED
  BY <1>2, <1>3, Zenon

(* Connection::write_statement on its own. *)
LEMMA WriteAlone ==
  ASSUME NEW c \in Conns, NEW v, NEW me, SvcOK(v), SessOK(v, me), Roomy(v),
         NEW ddl \in BOOLEAN, NEW r \in WriteStatement(c, v, NoOne, me, ddl)
  PROVE  Good(c, v, NoOne, me, r)
<1>0. NoOne \in Holders /\ c # NoOne /\ 0 \in Nat /\ 0 <= AnswerRows /\ 0 <= 1
  BY ConnIs, PgAssumption
<1>1. Mine(v, me.reader) /\ me \in Sessions /\ CursorOK(me.cursor)
  BY <1>0, Stays, Zenon
<1>2. PICK s \in Sql(v, ddl) :
        r \in IF s.err THEN {Refuse(d, NoOne, me) : d \in DropOutcomes(s.svc)}
              ELSE UNION {IF k.err THEN {Refuse(k.svc, NoOne, me)}
                          ELSE Answered(Done(k.svc, NoOne, [me EXCEPT !.acked = k.svc.tx]), ddl)
                            : k \in CommitOutcomes(s.svc)}
  BY <1>0, Zenon DEF WriteStatement
<1>3. PICK u : u = s.svc
  BY Zenon
<1>4. /\ Turn(v, me.reader, u, me.reader) /\ Mine(u, me.reader) /\ u.next_serial = v.next_serial
      /\ u.at = v.at /\ u.published = v.published
  BY <1>1, <1>3, SqlDoes, Zenon DEF Wrote
<1>5. SvcOK(u)
  BY <1>4, Zenon DEF Turn
<1>6. ASSUME NEW w, Turn(u, me.reader, w, me.reader), w.work = 0
      PROVE  /\ Turn(v, me.reader, w, me.reader) /\ Blocks(c, v, NoOne, me.txn_failed, w, NoOne)
             /\ Good(c, v, NoOne, me, Refuse(w, NoOne, me))
  <2>1. Turn(v, me.reader, w, me.reader)
    BY <1>1, <1>4, <1>6, TurnTurn, Zenon
  <2>2. Blocks(c, v, NoOne, me.txn_failed, w, NoOne)
    BY <1>0, <1>6, Zenon DEF Blocks, Clean
  <2>3. Good(c, v, NoOne, me, Refuse(w, NoOne, me))
    BY <1>0, <1>1, <2>1, <2>2, GoodResult, Zenon DEF Refuse
  <2> QED
    BY <2>1, <2>2, <2>3, Zenon
<1>7. CASE s.err
  <2>1. PICK d \in DropOutcomes(u) : r = Refuse(d, NoOne, me)
    BY <1>2, <1>3, <1>7, Zenon
  <2>2. Undone(u, d) /\ d.work = 0
    BY <1>5, DropUndoes, Zenon
  <2>3. Turn(u, me.reader, d, me.reader)
    BY <1>0, <1>4, <1>5, <2>2, UndoneTurns, Zenon
  <2> QED
    BY <1>6, <2>1, <2>2, <2>3, Zenon
<1>8. CASE ~s.err
  <2>1. PICK k \in CommitOutcomes(u) :
          r \in IF k.err THEN {Refuse(k.svc, NoOne, me)}
                ELSE Answered(Done(k.svc, NoOne, [me EXCEPT !.acked = k.svc.tx]), ddl)
    BY <1>2, <1>3, <1>8, Zenon
  <2>2. PICK w : w = k.svc
    OBVIOUS
  <2>3. Turn(u, me.reader, w, me.reader) /\ w.work = 0 /\ (~k.err => Tells(u, w))
    BY <1>4, <1>5, <2>2, CommitsOrNot, Zenon
  <2>4. CASE k.err
    BY <1>6, <2>1, <2>2, <2>3, <2>4, Zenon
  <2>5. CASE ~k.err
    <3>1. PICK m : m = [me EXCEPT !.acked = w.tx]
      BY Zenon
    <3>2. r \in Answered(Done(w, NoOne, m), ddl)
      BY <2>1, <2>2, <2>5, <3>1, Zenon
    <3>3. w.tx \in Nat
      BY <2>3, Numbers, Zenon DEF Turn
    <3>4. /\ m \in Sessions /\ m.acked = w.tx /\ m.reader = me.reader /\ m.reader_at = me.reader_at
          /\ m.open = me.open /\ m.portal = me.portal /\ m.cursor = me.cursor
      BY <1>1, <3>1, <3>3, Zenon DEF Sessions
    <3>5. Fresh(w, w.tx) /\ (Lone(v) => w.failed \/ w.log < FoldAt) /\ Fits(w)
      BY <1>4, <2>3, <2>5, Zenon DEF Tells, Lone, Roomy
    <3>6. Good(c, v, NoOne, me, Done(w, NoOne, m))
      <4>1. Turn(v, me.reader, w, me.reader) /\ Blocks(c, v, NoOne, me.txn_failed, w, NoOne)
        BY <1>6, <2>3, Zenon
      <4>2. CursorOK(m.cursor) /\ m.portal \in {me.portal, NoPortal}
        BY <1>1, <3>4, Zenon
      <4> QED
        BY <1>0, <3>4, <3>5, <4>1, <4>2, GoodResult, Zenon DEF Done
    <3>7. Done(w, NoOne, m).svc = w
      BY Zenon DEF Done, Result
    <3> QED
      BY <1>0, <3>2, <3>5, <3>6, <3>7, AnsweredGood, Zenon
  <2> QED
    BY <2>4, <2>5, Zenon
<1> QED
  BY <1>7, <1>8, Zenon

LEMMA WriteGood ==
  ASSUME NEW c \in Conns, NEW v, NEW h \in Holders, NEW me, SvcOK(v), SessOK(v, me), ~me.txn_failed,
         Roomy(v), NEW ddl \in BOOLEAN, NEW r \in WriteStatement(c, v, h, me, ddl)
  PROVE  Good(c, v, h, me, r)
<1>1. CASE h = c
  BY <1>1, WriteInBlock, Zenon
<1>2. CASE h = NoOne
  BY <1>2, WriteAlone, Zenon
<1>3. CASE h # c /\ h # NoOne
  <2>1. r = Refuse(v, h, me)
    BY <1>3, Zenon DEF WriteStatement
  <2> QED
    BY <2>1, Stays, Zenon
<1> QED
  BY <1>1, <1>2, <1>3, Zenon

LEMMA BeginGood ==
  ASSUME NEW c \in Conns, NEW v, NEW h \in Holders, NEW me, SvcOK(v), SessOK(v, me),
         NEW r \in Begin(c, v, h, me)
  PROVE  Good(c, v, h, me, r)
<1>1. PICK m : m = [me EXCEPT !.txn_failed = FALSE]
  BY Zenon
<1>2. r = Done(v, h, me) \/ r = Refuse(v, h, me) \/ (h = NoOne /\ r = Done(v, c, m))
  BY <1>1, Zenon DEF Begin
<1>3. CASE h = NoOne /\ r = Done(v, c, m)
  <2>1. c \in Holders /\ c # NoOne /\ 0 \in Nat /\ 0 <= AnswerRows
    BY ConnIs, PgAssumption
  <2>2. /\ Turn(v, me.reader, v, me.reader) /\ me \in Sessions /\ CursorOK(me.cursor)
    BY Stays, Zenon
  <2>3. /\ m \in Sessions /\ m.acked = me.acked /\ m.reader = me.reader /\ m.reader_at = me.reader_at
        /\ m.open = me.open /\ m.portal = me.portal /\ m.cursor = me.cursor
    BY <1>1, <2>2, WithWell, Zenon
  <2>4. Blocks(c, v, h, me.txn_failed, v, c)
    BY <1>3, <2>1, Zenon DEF Blocks, Clean
  <2>5. CursorOK(m.cursor) /\ m.portal \in {me.portal, NoPortal}
    BY <2>2, <2>3, Zenon
  <2> QED
    BY <1>3, <2>1, <2>2, <2>3, <2>4, <2>5, GoodResult, Zenon DEF Done
<1> QED
  BY <1>2, <1>3, Stays, Zenon

(* The block of c ends: the guard is taken, and nothing is left of it. *)
LEMMA EndsBlock ==
  ASSUME NEW c \in Conns, NEW v, NEW bad, NEW w, w.work = 0, bad => w.tx = v.tx
  PROVE  Blocks(c, v, c, bad, w, NoOne)
<1>1. c # NoOne
  BY ConnIs, Zenon
<1> QED
  BY <1>1, Zenon DEF Blocks, Clean

LEMMA CommitGood ==
  ASSUME NEW c \in Conns, NEW v, NEW h \in Holders, NEW me, SvcOK(v), SessOK(v, me),
         NEW r \in Commit(c, v, h, me)
  PROVE  Good(c, v, h, me, r)
<1>0. NoOne \in Holders /\ c # NoOne /\ 0 \in Nat /\ 0 <= AnswerRows /\ 0 <= 1
  BY ConnIs, PgAssumption
<1>1. PICK m : m = [me EXCEPT !.txn_failed = FALSE]
  BY Zenon
<1>2. /\ Turn(v, me.reader, v, me.reader) /\ me \in Sessions /\ CursorOK(me.cursor)
      /\ Mine(v, me.reader) /\ Blocks(c, v, h, me.txn_failed, v, h)
  BY Stays, Zenon
<1>3. /\ m \in Sessions /\ m.acked = me.acked /\ m.reader = me.reader /\ m.reader_at = me.reader_at
      /\ m.open = me.open /\ m.portal = me.portal /\ m.cursor = me.cursor
  BY <1>1, <1>2, WithWell, Zenon
<1>4. CursorOK(m.cursor) /\ m.portal \in {me.portal, NoPortal}
  BY <1>2, <1>3, Zenon
<1>5. CASE h # c
  <2>1. r = Done(v, h, m)
    BY <1>1, <1>5, Zenon DEF Commit
  <2> QED
    BY <1>0, <1>2, <1>3, <1>4, <2>1, GoodResult, Zenon DEF Done
<1>6. CASE h = c /\ me.txn_failed
  <2>1. PICK d \in RollbackOutcomes(v) : r = Done(d, NoOne, m)
    BY <1>1, <1>6, Zenon DEF Commit
  <2>2. Undone(v, d) /\ d.work = 0
    BY RollbackUndoes, Zenon
  <2>3. Turn(v, me.reader, d, me.reader)
    BY <1>0, <1>2, <2>2, UndoneTurns, Zenon
  <2>4. Blocks(c, v, h, me.txn_failed, d, NoOne)
    BY <1>6, <2>2, EndsBlock, Zenon DEF Undone
  <2> QED
    BY <1>0, <1>3, <1>4, <2>1, <2>3, <2>4, GoodResult, Zenon DEF Done
<1>7. CASE h = c /\ ~me.txn_failed
  <2>1. PICK k \in CommitOutcomes(v) : r = IF k.err THEN Refuse(k.svc, NoOne, me)
                                           ELSE Done(k.svc, NoOne, [m EXCEPT !.acked = k.svc.tx])
    BY <1>1, <1>7, Zenon DEF Commit
  <2>2. PICK w : w = k.svc
    BY Zenon
  <2>3. Turn(v, me.reader, w, me.reader) /\ w.work = 0 /\ (~k.err => Tells(v, w))
    BY <1>2, <2>2, CommitsOrNot, Zenon
  <2>4. Blocks(c, v, h, me.txn_failed, w, NoOne)
    BY <1>7, <2>3, EndsBlock, Zenon
  <2>5. CASE k.err
    <3>1. r = Refuse(w, NoOne, me)
      BY <2>1, <2>2, <2>5, Zenon
    <3> QED
      BY <1>0, <1>2, <2>3, <2>4, <3>1, GoodResult, Zenon DEF Refuse
  <2>6. CASE ~k.err
    <3>1. PICK a : a = [m EXCEPT !.acked = w.tx]
      BY Zenon
    <3>2. r = Done(w, NoOne, a)
      BY <2>1, <2>2, <2>6, <3>1, Zenon
    <3>3. w.tx \in Nat
      BY <2>3, Numbers, Zenon DEF Turn
    <3>4. /\ a \in Sessions /\ a.acked = w.tx /\ a.reader = m.reader /\ a.reader_at = m.reader_at
          /\ a.open = m.open /\ a.portal = m.portal /\ a.cursor = m.cursor
      BY <1>3, <3>1, <3>3, Zenon DEF Sessions
    <3>5. /\ a.reader = me.reader /\ a.reader_at = me.reader_at /\ a.open = me.open
          /\ a.portal \in {me.portal, NoPortal} /\ CursorOK(a.cursor)
      BY <1>3, <1>4, <3>4, Zenon
    <3>6. Fresh(w, w.tx) /\ (Lone(v) => w.failed \/ w.log < FoldAt)
      BY <2>3, <2>6, Zenon DEF Tells
    <3> QED
      BY <1>0, <2>3, <2>4, <3>2, <3>4, <3>5, <3>6, GoodResult, Zenon DEF Done
  <2> QED
    BY <2>5, <2>6, Zenon
<1> QED
  BY <1>5, <1>6, <1>7, Zenon

LEMMA RollbackGood ==
  ASSUME NEW c \in Conns, NEW v, NEW h \in Holders, NEW me, SvcOK(v), SessOK(v, me),
         NEW r \in Rollback(c, v, h, me)
  PROVE  Good(c, v, h, me, r)
<1>0. NoOne \in Holders /\ c # NoOne /\ 0 \in Nat /\ 0 <= AnswerRows /\ 0 <= 1
  BY ConnIs, PgAssumption
<1>1. PICK m : m = [me EXCEPT !.txn_failed = FALSE]
  BY Zenon
<1>2. /\ Turn(v, me.reader, v, me.reader) /\ me \in Sessions /\ CursorOK(me.cursor)
      /\ Mine(v, me.reader) /\ Blocks(c, v, h, me.txn_failed, v, h)
  BY Stays, Zenon
<1>3. /\ m \in Sessions /\ m.acked = me.acked /\ m.reader = me.reader /\ m.reader_at = me.reader_at
      /\ m.open = me.open /\ m.portal = me.portal /\ m.cursor = me.cursor
  BY <1>1, <1>2, WithWell, Zenon
<1>4. CursorOK(m.cursor) /\ m.portal \in {me.portal, NoPortal}
  BY <1>2, <1>3, Zenon
<1>5. CASE h # c
  <2>1. r = Done(v, h, m)
    BY <1>1, <1>5, Zenon DEF Rollback
  <2> QED
    BY <1>0, <1>2, <1>3, <1>4, <2>1, GoodResult, Zenon DEF Done
<1>6. CASE h = c
  <2>1. PICK d \in RollbackOutcomes(v) : r \in {Refuse(d, NoOne, me), Done(d, NoOne, m)}
    BY <1>1, <1>6, Zenon DEF Rollback
  <2>2. Undone(v, d) /\ d.work = 0
    BY RollbackUndoes, Zenon
  <2>3. Turn(v, me.reader, d, me.reader)
    BY <1>0, <1>2, <2>2, UndoneTurns, Zenon
  <2>4. Blocks(c, v, h, me.txn_failed, d, NoOne)
    BY <1>6, <2>2, EndsBlock, Zenon DEF Undone
  <2>5. CASE r = Refuse(d, NoOne, me)
    BY <1>0, <1>2, <2>3, <2>4, <2>5, GoodResult, Zenon DEF Refuse
  <2>6. CASE r = Done(d, NoOne, m)
    BY <1>0, <1>3, <1>4, <2>3, <2>4, <2>6, GoodResult, Zenon DEF Done
  <2> QED
    BY <2>1, <2>5, <2>6, Zenon
<1> QED
  BY <1>5, <1>6, Zenon

LEMMA DeclareGood ==
  ASSUME NEW c \in Conns, NEW v, NEW h \in Holders, NEW me, SvcOK(v), SessOK(v, me),
         CanWalk(c, v, h, me), NEW r \in Declare(c, v, h, me)
  PROVE  Good(c, v, h, me, r)
<1>1. CASE me.cursor.open
  <2>1. r = Refuse(v, h, me)
    BY <1>1, Zenon DEF Declare
  <2> QED
    BY <2>1, Stays, Zenon
<1>2. CASE ~me.cursor.open
  <2>1. PICK w \in Walk(c, v, h, me) : r = IF w.err THEN w
          ELSE [w EXCEPT !.me.cursor = [open |-> TRUE, held |-> w.rows, delivered |-> 0], !.rows = 0]
    BY <1>2, Zenon DEF Declare
  <2>2. Good(c, v, h, me, w)
    BY WalkGood, Zenon
  <2>3. CASE w.err
    BY <2>1, <2>2, <2>3, Zenon
  <2>4. CASE ~w.err
    <3>1. /\ w \in Results /\ Turn(v, me.reader, w.svc, w.me.reader) /\ SessOK(w.svc, w.me)
          /\ w.me.open = me.open /\ w.me.portal \in {me.portal, NoPortal}
          /\ Shown(v, w.svc, w.tx) /\ Told(v, me.acked, w.svc, w.me.acked)
          /\ Blocks(c, v, h, me.txn_failed, w.svc, w.holder)
      BY <2>2, Zenon DEF Good
    <3>2. PICK k : k = [open |-> TRUE, held |-> w.rows, delivered |-> 0]
      BY Zenon
    <3>3. PICK m : m = [w.me EXCEPT !.cursor = k]
      BY Zenon
    <3>4. r = [w EXCEPT !.me.cursor = k, !.rows = 0]
      BY <2>1, <2>4, <3>2, Zenon
    <3>5. k \in Cursors /\ CursorOK(k) /\ w.rows \in Nat
      BY <3>1, <3>2 DEF Results, Cursors, CursorOK
    <3>6. w.me \in Sessions /\ ViewOK(w.svc, w.me) /\ w.me.acked <= w.svc.tx /\ Fresh(w.svc, w.me.acked)
      BY <3>1, Zenon DEF SessOK
    <3>7. /\ m \in Sessions /\ m.acked = w.me.acked /\ m.reader = w.me.reader
          /\ m.reader_at = w.me.reader_at /\ m.open = w.me.open /\ m.portal = w.me.portal
          /\ m.cursor = k
      BY <3>3, <3>5, <3>6, Zenon DEF Sessions
    <3>8. /\ r \in Results /\ r.svc = w.svc /\ r.holder = w.holder /\ r.me = m /\ r.err = w.err
          /\ r.tx = w.tx /\ r.rows = 0
      <4>1. 0 \in Nat /\ w \in Results
        BY <3>1
      <4> QED
        BY <3>3, <3>4, <3>7, <4>1, Zenon DEF Results
    <3>9. SessOK(r.svc, m)
      BY <3>5, <3>6, <3>7, <3>8, Zenon DEF SessOK, ViewOK
    <3>10. 0 <= AnswerRows
      BY PgAssumption
    <3> QED
      BY <3>1, <3>7, <3>8, <3>9, <3>10, Zenon DEF Good
  <2> QED
    BY <2>3, <2>4, Zenon
<1> QED
  BY <1>1, <1>2, Zenon

(* A statement on the session alone. *)
LEMMA Aside ==
  ASSUME NEW c \in Conns, NEW v, NEW h \in Holders, NEW me, SvcOK(v), SessOK(v, me),
         NEW m \in Sessions, m.reader = me.reader, m.reader_at = me.reader_at, m.open = me.open,
         CursorOK(m.cursor), m.portal \in {me.portal, NoPortal}, m.acked = me.acked,
         NEW rows \in Nat, rows <= AnswerRows
  PROVE  Good(c, v, h, me, Result(v, h, m, FALSE, 0, rows))
  BY Stays, GoodResult, Zenon

LEMMA FetchGood ==
  ASSUME NEW c \in Conns, NEW v, NEW h \in Holders, NEW me, SvcOK(v), SessOK(v, me),
         NEW r \in Fetch(v, h, me)
  PROVE  Good(c, v, h, me, r)
<1>1. CASE ~me.cursor.open
  <2>1. r = Refuse(v, h, me)
    BY <1>1, Zenon DEF Fetch
  <2> QED
    BY <2>1, Stays, Zenon
<1>2. CASE me.cursor.open
  <2>1. PICK n \in 1..AnswerRows :
          r = LET end == Slice(me.cursor.held, me.cursor.delivered, n)
              IN  Result(v, h, [me EXCEPT !.cursor.delivered = end], FALSE, 0, end - me.cursor.delivered)
    BY <1>2, Zenon DEF Fetch
  <2>2. PICK end : end = Slice(me.cursor.held, me.cursor.delivered, n)
    BY Zenon
  <2>3. PICK m : m = [me EXCEPT !.cursor.delivered = end]
    BY Zenon
  <2>4. PICK k : k = end - me.cursor.delivered
    BY Zenon
  <2>5. r = Result(v, h, m, FALSE, 0, k)
    BY <2>1, <2>2, <2>3, <2>4, Zenon
  <2>6. me \in Sessions /\ me.cursor \in Cursors /\ me.cursor.delivered <= me.cursor.held
    BY Zenon DEF SessOK, CursorOK, Sessions
  <2>7. me.cursor.delivered \in Nat /\ me.cursor.held \in Nat /\ n \in Nat /\ n <= AnswerRows /\ AnswerRows \in Nat
    BY <2>6, PgAssumption DEF Cursors
  <2>8. end \in Nat /\ end <= me.cursor.held /\ k \in Nat /\ k <= AnswerRows
    BY <2>2, <2>4, <2>6, <2>7 DEF Slice
  <2>9. PICK d : d = [me.cursor EXCEPT !.delivered = end]
    BY Zenon
  <2>10. d \in Cursors /\ CursorOK(d)
    BY <2>6, <2>8, <2>9, Zenon DEF Cursors, CursorOK
  <2>11. /\ m \in Sessions /\ m.acked = me.acked /\ m.reader = me.reader
         /\ m.reader_at = me.reader_at /\ m.open = me.open /\ m.portal = me.portal /\ m.cursor = d
    BY <2>3, <2>6, <2>9, <2>10, Zenon DEF Sessions
  <2> QED
    BY <2>5, <2>8, <2>10, <2>11, Aside, Zenon
<1> QED
  BY <1>1, <1>2, Zenon

LEMMA CloseCursorGood ==
  ASSUME NEW c \in Conns, NEW v, NEW h \in Holders, NEW me, SvcOK(v), SessOK(v, me),
         NEW r \in CloseCursor(v, h, me)
  PROVE  Good(c, v, h, me, r)
<1>1. PICK m : m = [me EXCEPT !.cursor = NoCursor]
  BY Zenon
<1>2. r = Refuse(v, h, me) \/ r = Result(v, h, m, FALSE, 0, 0)
  BY <1>1, Zenon DEF CloseCursor, Done
<1>3. NoCursor \in Cursors /\ CursorOK(NoCursor) /\ 0 \in Nat /\ 0 <= AnswerRows
  BY PgAssumption DEF NoCursor, Cursors, CursorOK
<1>4. me \in Sessions
  BY Zenon DEF SessOK
<1>5. /\ m \in Sessions /\ m.acked = me.acked /\ m.reader = me.reader
      /\ m.reader_at = me.reader_at /\ m.open = me.open /\ m.portal = me.portal /\ m.cursor = NoCursor
  BY <1>1, <1>3, <1>4, Zenon DEF Sessions
<1> QED
  BY <1>2, <1>3, <1>5, Aside, Stays, Zenon

LEMMA NothingBound ==
  NoPortal \in Portals /\ PortalOK(NoPortal) /\ NoCursor \in Cursors /\ CursorOK(NoCursor)
  BY PgAssumption DEF NoPortal, NoCursor, Portals, Cursors, PortalOK, CursorOK, Words

LEMMA DiscardGood ==
  ASSUME NEW c \in Conns, NEW v, NEW h \in Holders, NEW me, SvcOK(v), SessOK(v, me),
         NEW r \in Discard(v, h, me)
  PROVE  Good(c, v, h, me, r)
<1>1. PICK m : m = [me EXCEPT !.portal = NoPortal, !.cursor = NoCursor, !.prepared = "none"]
  BY Zenon
<1>2. r = Result(v, h, m, FALSE, 0, 0)
  BY <1>1, Zenon DEF Discard, Done
<1>3. me \in Sessions /\ 0 \in Nat /\ 0 <= AnswerRows
  BY PgAssumption DEF SessOK
<1>4. /\ m \in Sessions /\ m.acked = me.acked /\ m.reader = me.reader
      /\ m.reader_at = me.reader_at /\ m.open = me.open /\ m.portal = NoPortal /\ m.cursor = NoCursor
  BY <1>1, <1>3, NothingBound, Zenon DEF Sessions, Words
<1>5. m.portal \in {me.portal, NoPortal} /\ CursorOK(m.cursor)
  BY <1>4, NothingBound, Zenon
<1> QED
  BY <1>2, <1>3, <1>4, <1>5, Aside, Zenon

(* A read, in a Describe too. *)
LEMMA ReadGood ==
  ASSUME NEW c \in Conns, NEW v, NEW h \in Holders, NEW me, SvcOK(v), SessOK(v, me),
         CanWalk(c, v, h, me), NEW r \in Run(c, v, h, me, "read")
  PROVE  Good(c, v, h, me, r) /\ r.me.acked = me.acked
<1>1. CASE RefusedByBlock(me, "read")
  <2>1. r = Refuse(v, h, me)
    BY <1>1, Zenon DEF Run
  <2>2. r.me = me
    BY <2>1, Zenon DEF Refuse, Result
  <2> QED
    BY <2>1, <2>2, Stays, Zenon
<1>2. CASE ~RefusedByBlock(me, "read")
  <2>1. r \in Walk(c, v, h, me)
    BY <1>2, Zenon DEF Run
  <2> QED
    <3>1. Good(c, v, h, me, r)
      BY <2>1, WalkGood, Zenon
    <3>2. r.me.acked = me.acked
      BY <2>1, WalkGood, SMTT(30)
    <3> QED
      BY <3>1, <3>2, Zenon
<1> QED
  BY <1>1, <1>2, Zenon

(* Any statement. *)
LEMMA RunGood ==
  ASSUME NEW c \in Conns, NEW v, NEW h \in Holders, NEW me, SvcOK(v), SessOK(v, me), Roomy(v),
         NEW s \in Statements, NEW r \in Run(c, v, h, me, s)
  PROVE  Good(c, v, h, me, r)
<1>0. CanWalk(c, v, h, me)
  BY RoomyFits, Zenon DEF CanRefresh, CanWalk
<1>1. CASE RefusedByBlock(me, s)
  <2>1. r = Refuse(v, h, me)
    BY <1>1, Zenon DEF Run
  <2> QED
    BY <2>1, Stays, Zenon
<1>2. CASE ~RefusedByBlock(me, s)
  <2>1. CASE s = "read"
    BY <1>0, <2>1, ReadGood, Zenon
  <2>2. CASE s = "write"
    <3>1. r \in WriteStatement(c, v, h, me, FALSE) /\ ~me.txn_failed
      BY <1>2, <2>2, Zenon DEF Run, RefusedByBlock
    <3> QED
      BY <3>1, WriteGood, Zenon
  <2>3. CASE s = "ddl"
    <3>1. r \in WriteStatement(c, v, h, me, TRUE) /\ ~me.txn_failed
      BY <1>2, <2>3, Zenon DEF Run, RefusedByBlock
    <3> QED
      BY <3>1, WriteGood, Zenon
  <2>4. CASE s = "begin"
    <3>1. r \in Begin(c, v, h, me)
      BY <1>2, <2>4, Zenon DEF Run
    <3> QED
      BY <3>1, BeginGood, Zenon
  <2>5. CASE s = "commit"
    <3>1. r \in Commit(c, v, h, me)
      BY <1>2, <2>5, Zenon DEF Run
    <3> QED
      BY <3>1, CommitGood, Zenon
  <2>6. CASE s = "rollback"
    <3>1. r \in Rollback(c, v, h, me)
      BY <1>2, <2>6 DEF Run
    <3> QED
      BY <3>1, RollbackGood, Zenon
  <2>7. CASE s = "declare"
    <3>1. r \in Declare(c, v, h, me)
      BY <1>2, <2>7, Zenon DEF Run
    <3> QED
      BY <1>0, <3>1, DeclareGood, Zenon
  <2>8. CASE s = "fetch"
    <3>1. r \in Fetch(v, h, me)
      BY <1>2, <2>8, Zenon DEF Run
    <3> QED
      BY <3>1, FetchGood, Zenon
  <2>9. CASE s = "close"
    <3>1. r \in CloseCursor(v, h, me)
      BY <1>2, <2>9, Zenon DEF Run
    <3> QED
      BY <3>1, CloseCursorGood, Zenon
  <2>10. CASE s = "discard"
    <3>1. r \in Discard(v, h, me)
      BY <1>2, <2>10, Zenon DEF Run
    <3> QED
      BY <3>1, DiscardGood, Zenon
  <2> QED
    BY <2>1, <2>2, <2>3, <2>4, <2>5, <2>6, <2>7, <2>8, <2>9, <2>10, Zenon DEF Statements
<1> QED
  BY <1>1, <1>2, Zenon
=============================================================================
