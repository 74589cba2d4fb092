--------------------------- MODULE PgServerProofs ---------------------------
(***************************************************************************)
(* PgServer, for any number of connections, any programs, slots and faults *)
(* and every bound: a message closes a step with the statements it runs,   *)
(* the steps keep the invariant, and what follows from it.                 *)
(***************************************************************************)
EXTENDS PgStatementProofs, TLAPS

USE SMTT(30)
-----------------------------------------------------------------------------
(* Messages. *)

(* What a message may set in a session beside its portal. *)
Kin(m, me) ==
  /\ m \in Sessions /\ m.reader = me.reader /\ m.reader_at = me.reader_at /\ m.acked = me.acked
  /\ m.cursor = me.cursor /\ m.open = me.open

LEMMA KinKin ==
  ASSUME NEW k, NEW m, NEW me, Kin(k, m), Kin(m, me)
  PROVE  Kin(k, me)
  BY Zenon DEF Kin

LEMMA FailKin ==
  ASSUME NEW me \in Sessions, NEW h, NEW c, NEW m, m = Fail(me, h, c)
  PROVE  Kin(m, me) /\ m.portal = me.portal /\ m.reply = 0
<1>1. PICK b : b = (me.txn_failed \/ h = c)
  BY Zenon
<1>2. b \in BOOLEAN /\ TRUE \in BOOLEAN /\ 0 \in Nat
  BY <1>1
<1>3. m = [me EXCEPT !.txn_failed = b, !.skip_until_sync = TRUE, !.reply = 0]
  BY <1>1, Zenon DEF Fail
<1> QED
  BY <1>2, <1>3, Zenon DEF Kin, Sessions

LEMMA SkipKin ==
  ASSUME NEW me \in Sessions, NEW m, m = [me EXCEPT !.skip_until_sync = FALSE]
  PROVE  Kin(m, me) /\ m.portal = me.portal /\ m.reply = me.reply
  BY Zenon DEF Kin, Sessions

(* A session as the invariant has it. *)
LEMMA SessionIs ==
  ASSUME Inv, NEW c \in Conns
  PROVE  /\ SvcOK(svc) /\ holder \in Holders /\ conn[c] \in Sessions /\ SessOK(svc, conn[c])
         /\ ViewOK(svc, conn[c]) /\ PortalOK(conn[c].portal) /\ conn[c].portal \in Portals
         /\ conn[c].prepared \in Words /\ Mine(svc, conn[c].reader)
         /\ (~conn[c].open => conn[c] = Closed)
<1>1. /\ SvcOK(svc) /\ holder \in Holders /\ SessOK(svc, conn[c]) /\ PortalOK(conn[c].portal)
      /\ (~conn[c].open => conn[c] = Closed)
  BY Zenon DEF Inv, SessionOK
<1>2. conn[c] \in Sessions /\ ViewOK(svc, conn[c])
  BY <1>1, Zenon DEF SessOK
<1>3. conn[c].portal \in Portals /\ conn[c].prepared \in Words
  BY <1>2 DEF Sessions
<1>4. Mine(svc, conn[c].reader)
  BY <1>1, <1>2, MineOf, Zenon
<1> QED
  BY <1>1, <1>2, <1>3, <1>4, Zenon

(* A good statement, and what the message then leaves in the session. *)
LEMMA Closes ==
  ASSUME Inv, NEW c \in Conns, NEW me, me.reader = conn[c].reader, me.acked = conn[c].acked,
         me.txn_failed = conn[c].txn_failed, me.open,
         NEW g, Good(c, svc, holder, me, g), NEW m, Kin(m, g.me), PortalOK(m.portal),
         m.reply = 0 \/ m.reply = g.tx
  PROVE  Step(c, g.svc, g.holder, m) /\ m.open
<1>1. /\ g \in Results /\ Turn(svc, me.reader, g.svc, g.me.reader) /\ SessOK(g.svc, g.me)
      /\ g.me.open = me.open /\ Shown(svc, g.svc, g.tx) /\ Told(svc, me.acked, g.svc, g.me.acked)
      /\ Blocks(c, svc, holder, me.txn_failed, g.svc, g.holder)
  BY Zenon DEF Good
<1>2. g.holder \in Holders
  BY <1>1 DEF Results
<1>3. SessOK(g.svc, m) /\ m.open
  BY <1>1, Zenon DEF SessOK, ViewOK, Kin
<1>4. Shown(svc, g.svc, m.reply)
  BY <1>1, Zenon DEF Shown
<1>5. Turn(svc, conn[c].reader, g.svc, m.reader) /\ Told(svc, conn[c].acked, g.svc, m.acked)
  BY <1>1, Zenon DEF Kin
<1> QED
  BY <1>1, <1>2, <1>3, <1>4, <1>5, Zenon DEF Step

LEMMA StepNone ==
  ASSUME Inv, NEW c \in Conns, conn[c].open
  PROVE  Step(c, svc, holder, conn[c])
<1>1. /\ SvcOK(svc) /\ holder \in Holders /\ conn[c] \in Sessions /\ SessOK(svc, conn[c])
      /\ PortalOK(conn[c].portal)
  BY SessionIs, Zenon
<1>2. Turn(svc, conn[c].reader, svc, conn[c].reader) /\ Blocks(c, svc, holder, conn[c].txn_failed, svc, holder)
  BY <1>1, Stays, Zenon
<1>3. Told(svc, conn[c].acked, svc, conn[c].acked)
  <2>1. ~(conn[c].acked < conn[c].acked)
    BY <1>1 DEF Sessions
  <2> QED
    BY <2>1, Zenon DEF Told
<1> QED
  BY <1>1, <1>2, <1>3, Zenon DEF Step

(* A step of c, as the variables show it. *)
Moved(c) == \E m : Step(c, svc', holder', m) /\ conn' = [conn EXCEPT ![c] = m]

(* The view is let go of. *)
LEMMA LetGoSteps ==
  ASSUME Inv, NEW c \in Conns, NEW w, NEW h2, NEW m, Step(c, w, h2, m), m.open, NEW e, e = LetGo(c, w, m)
  PROVE  Step(c, e.svc, h2, e.me)
<1>1. CASE ~(w.fold_wanted /\ m.reader # 0)
  <2>1. e.svc = w /\ e.me = m
    BY <1>1, Zenon DEF LetGo
  <2> QED
    BY <2>1, Zenon
<1>2. CASE w.fold_wanted /\ m.reader # 0
  <2>1. PICK u : u = Dropped(w, m.reader)
    BY Zenon
  <2>2. PICK k : k = [m EXCEPT !.reader = 0, !.reader_at = 0]
    BY Zenon
  <2>3. e.svc = u /\ e.me = k
    BY <1>2, <2>1, <2>2, Zenon DEF LetGo
  <2>4. /\ h2 \in Holders /\ Turn(svc, conn[c].reader, w, m.reader) /\ SessOK(w, m) /\ PortalOK(m.portal)
        /\ m.reply = conn[c].reply \/ Shown(svc, w, m.reply)
        /\ Told(svc, conn[c].acked, w, m.acked)
        /\ Blocks(c, svc, holder, conn[c].txn_failed, w, h2)
    BY Zenon DEF Step
  <2>5. m \in Sessions /\ ViewOK(w, m) /\ SvcOK(w) /\ CursorOK(m.cursor)
    BY <2>4, Zenon DEF SessOK, Turn
  <2>6. Mine(w, m.reader) /\ m.reader \in Serials
    BY <1>2, <2>5, MineOf, Zenon
  <2>7. /\ Turn(w, m.reader, u, 0) /\ Beside(w, u) /\ u.published = w.published /\ u.dirty = w.dirty
        /\ u.at[w.published] = w.at[w.published]
    BY <2>1, <2>5, <2>6, DropTurns, Zenon
  <2>8. Turn(svc, conn[c].reader, u, 0)
    BY <2>4, <2>7, SessionIs, TurnTurn, Zenon
  <2>9. k \in Sessions /\ Alike(k, m) /\ k.reader = 0 /\ k.reader_at = 0
    <3>1. 0 \in Nat
      OBVIOUS
    <3> QED
      BY <2>2, <2>5, <3>1, Zenon DEF Sessions, Alike
  <2>10. SessOK(u, k)
    <3>1. ViewOK(u, k)
      BY <2>9, Zenon DEF ViewOK
    <3> QED
      BY <2>4, <2>5, <2>7, <2>9, <3>1, SessMoves, Zenon DEF Alike
  <2>11. k.reply = conn[c].reply \/ Shown(svc, u, k.reply)
    BY <2>4, <2>7, <2>9, Zenon DEF Shown, Alike
  <2>12. Told(svc, conn[c].acked, u, k.acked)
    BY <2>4, <2>7, <2>9, Zenon DEF Told, Beside, Alike
  <2>13. Blocks(c, svc, holder, conn[c].txn_failed, u, h2)
    BY <2>4, <2>7, Zenon DEF Blocks, Clean, Beside
  <2>14. k.open /\ PortalOK(k.portal)
    BY <2>4, <2>9, Zenon DEF Alike
  <2> QED
    BY <2>3, <2>4, <2>8, <2>9, <2>10, <2>11, <2>12, <2>13, <2>14, Zenon DEF Step
<1> QED
  BY <1>1, <1>2, Zenon

LEMMA ChunkMoves ==
  ASSUME Inv, NEW c \in Conns, NEW w, NEW h2, NEW m, Step(c, w, h2, m), m.open, EndOfChunk(c, w, h2, m)
  PROVE  Moved(c)
<1>1. PICK e \in {LetGo(c, w, m), [svc |-> w, me |-> m]} :
        svc' = e.svc /\ holder' = h2 /\ conn' = [conn EXCEPT ![c] = e.me]
  BY Zenon DEF EndOfChunk
<1>2. CASE e = LetGo(c, w, m)
  <2>1. Step(c, e.svc, h2, e.me)
    BY <1>2, LetGoSteps, Zenon
  <2> QED
    BY <1>1, <2>1, Zenon DEF Moved
<1>3. CASE e = [svc |-> w, me |-> m]
  <2>1. e.svc = w /\ e.me = m
    BY <1>3, Zenon
  <2> QED
    BY <1>1, <2>1, Zenon DEF Moved
<1> QED
  BY <1>1, <1>2, <1>3, Zenon

LEMMA ClosedIs ==
  /\ Closed \in Sessions /\ Closed.reader = 0 /\ Closed.reader_at = 0 /\ Closed.reply = 0
  /\ Closed.acked = 0 /\ ~Closed.open /\ Closed.portal = NoPortal /\ Closed.cursor = NoCursor
  /\ NewConnection \in Sessions /\ NewConnection.reader = 0 /\ NewConnection.reader_at = 0
  /\ NewConnection.reply = 0 /\ NewConnection.acked = 0 /\ NewConnection.open
  /\ NewConnection.portal = NoPortal /\ NewConnection.cursor = NoCursor
<1>1. NoPortal \in Portals /\ NoCursor \in Cursors /\ 0 \in Nat /\ "none" \in Words
  BY NothingBound DEF Words
<1>2. /\ NewConnection \in Sessions /\ NewConnection.reader = 0 /\ NewConnection.reader_at = 0
      /\ NewConnection.reply = 0 /\ NewConnection.acked = 0 /\ NewConnection.open
      /\ NewConnection.portal = NoPortal /\ NewConnection.cursor = NoCursor
  BY <1>1, Zenon DEF NewConnection, Sessions
<1>3. /\ Closed \in Sessions /\ Closed.reader = 0 /\ Closed.reader_at = 0 /\ Closed.reply = 0
      /\ Closed.acked = 0 /\ ~Closed.open /\ Closed.portal = NoPortal /\ Closed.cursor = NoCursor
  BY <1>2, Zenon DEF Closed, Sessions
<1> QED
  BY <1>2, <1>3, Zenon

(* A session without a view or a commit. *)
LEMMA NewSession ==
  ASSUME NEW w, SvcOK(w), NEW m \in Sessions, m.reader = 0, m.reader_at = 0, m.acked = 0, m.cursor = NoCursor
  PROVE  SessOK(w, m)
<1>1. 0 <= w.tx /\ 0 <= w.at[w.published]
  BY Numbers
<1>2. CursorOK(m.cursor)
  BY NothingBound, Zenon
<1>3. ViewOK(w, m)
  BY Zenon DEF ViewOK
<1> QED
  BY <1>1, <1>2, <1>3, Zenon DEF SessOK, Fresh

(* finish: the view goes, and the block. *)
LEMMA HangupSteps ==
  ASSUME Inv, NEW c \in Conns, NEW v, NEW h, NEW m, Step(c, v, h, m), NEW me, me.reader = m.reader,
         NEW d \in Hangup(c, v, h, me)
  PROVE  Step(c, d.svc, d.holder, d.me)
<1>0. c # NoOne /\ NoOne \in Holders /\ 0 <= 1
  BY ConnIs
<1>1. PICK w : w = IF me.reader = 0 THEN v ELSE Dropped(v, me.reader)
  BY Zenon
<1>2. PICK u \in IF h = c THEN RollbackOutcomes(w) ELSE {w} :
        d = [svc |-> u, holder |-> Free(h, c), me |-> Closed]
  BY <1>1, Zenon DEF Hangup
<1>3. d.svc = u /\ d.holder = Free(h, c) /\ d.me = Closed
  BY <1>2, Zenon
<1>4. /\ h \in Holders /\ Turn(svc, conn[c].reader, v, m.reader) /\ SessOK(v, m)
      /\ Blocks(c, svc, holder, conn[c].txn_failed, v, h)
  BY Zenon DEF Step
<1>5. m \in Sessions /\ ViewOK(v, m) /\ SvcOK(v)
  BY <1>4, Zenon DEF SessOK, Turn
<1>6. Mine(v, m.reader) /\ (m.reader # 0 => m.reader \in Serials)
  BY <1>5, MineOf, Zenon
<1>7. Turn(v, m.reader, w, 0) /\ Beside(v, w)
  <2>1. CASE m.reader = 0
    <3>1. w = v
      BY <1>1, <2>1, Zenon
    <3> QED
      BY <1>5, <1>6, <2>1, <3>1, NoTurn, Zenon DEF Beside
  <2>2. CASE m.reader # 0
    <3>1. w = Dropped(v, m.reader) /\ m.reader \in Serials
      BY <1>1, <1>6, <2>2, Zenon
    <3> QED
      BY <1>5, <1>6, <3>1, DropTurns, Zenon
  <2> QED
    BY <2>1, <2>2, Zenon
<1>8. SvcOK(w) /\ Mine(w, 0)
  <2>1. SvcOK(w)
    BY <1>7, Zenon DEF Turn
  <2>2. 0 \in Nat /\ 0 < w.next_serial /\ 0 # w.published
    BY <2>1, Numbers
  <2> QED
    BY <2>1, <2>2, Zenon DEF Mine
<1>9. Turn(w, 0, u, 0) /\ u.tx = w.tx /\ (h = c => u.work = 0) /\ (h # c => u = w)
  <2>1. CASE h = c
    <3>1. Undone(w, u) /\ u.work = 0
      BY <1>2, <1>8, <2>1, RollbackUndoes, Zenon
    <3> QED
      BY <1>0, <1>8, <2>1, <3>1, UndoneTurns, Zenon DEF Undone
  <2>2. CASE h # c
    <3>1. u = w
      BY <1>2, <2>2, Zenon
    <3> QED
      BY <1>8, <2>2, <3>1, NoTurn, Zenon
  <2> QED
    BY <2>1, <2>2, Zenon
<1>10. Turn(v, m.reader, u, 0)
  BY <1>5, <1>6, <1>7, <1>9, TurnTurn, Zenon
<1>11. Turn(svc, conn[c].reader, u, 0)
  BY <1>4, <1>10, SessionIs, TurnTurn, Zenon
<1>12. SessOK(u, Closed)
  BY <1>11, ClosedIs, NewSession, Zenon DEF Turn
<1>13. Told(svc, conn[c].acked, u, Closed.acked)
  <2>1. ~(conn[c].acked < 0)
    BY SessionIs DEF Sessions
  <2> QED
    BY <2>1, ClosedIs, Zenon DEF Told
<1>14. Shown(svc, u, Closed.reply)
  BY ClosedIs, Zenon DEF Shown
<1>15. Free(h, c) \in Holders /\ Free(h, c) # c
  BY <1>0, <1>4, Zenon DEF Free
<1>16. Blocks(c, svc, holder, conn[c].txn_failed, u, Free(h, c))
  <2>1. u.tx = v.tx /\ (h # c => u.work = v.work /\ u.failed = v.failed)
    BY <1>7, <1>9, Zenon DEF Beside
  <2>2. CASE h = c
    BY <1>0, <1>4, <1>9, <2>1, <2>2, Zenon DEF Blocks, Clean, Free
  <2>3. CASE h # c
    BY <1>0, <1>4, <2>1, <2>3, Zenon DEF Blocks, Clean, Free
  <2> QED
    BY <2>2, <2>3, Zenon
<1>17. PortalOK(Closed.portal) /\ Closed.reader = 0
  BY ClosedIs, NothingBound, Zenon
<1> QED
  BY <1>3, <1>11, <1>12, <1>13, <1>14, <1>15, <1>16, <1>17, Zenon DEF Step
-----------------------------------------------------------------------------
(* Portals. *)

(* What a portal is before its statement runs. *)
Unrun(p) == ~p.executed /\ ~p.refused /\ p.statement # "none"

(* w answers for the statement g: only the portal of its session may differ. *)
AnswersFor(w, g) ==
  /\ w.svc = g.svc /\ w.holder = g.holder /\ w.tx = g.tx /\ w.err = g.err /\ w \in Results
  /\ Kin(w.me, g.me) /\ PortalOK(w.me.portal) /\ w.me.portal \in Portals

(* The portal after the run of its statement that answered g. *)
Put(g, q) == [g EXCEPT !.me.portal = q]

LEMMA PortalRan ==
  ASSUME NEW c, NEW v, NEW h, NEW me, me.portal \in Portals, PortalOK(me.portal), Unrun(me.portal),
         me.portal.asked \/ me.portal.statement = "read",
         NEW g, Good(c, v, h, me, g), g.me.portal # NoPortal,
         NEW q, q \in {Held(me.portal, g), Sent(me.portal, g)},
         NEW w, w = Put(g, q)
  PROVE  AnswersFor(w, g)
<1>1. g \in Results /\ g.me.portal = me.portal /\ g.rows <= AnswerRows
  BY Zenon DEF Good
<1>2. g.me \in Sessions /\ g.rows \in Nat /\ g.err \in BOOLEAN
  BY <1>1, Zenon DEF Results
<1>3. PICK p : p = me.portal
  BY Zenon
<1>4. /\ p \in Portals /\ p.runs = 0 /\ p.held = 0 /\ p.sent = 0 /\ p.delivered = 0
      /\ (p.asked \/ p.statement = "read") /\ AnswerRows \in Nat
  BY <1>3, PgAssumption DEF Unrun, PortalOK, Portals
<1> DEFINE kept == IF g.err THEN 0 ELSE g.rows
<1>5. \/ q = [p EXCEPT !.executed = TRUE, !.refused = g.err, !.runs = @ + 1, !.held = kept]
      \/ q = [p EXCEPT !.executed = TRUE, !.refused = g.err, !.runs = @ + 1, !.sent = g.rows]
  BY <1>3, Zenon DEF Held, Sent
<1>6. /\ q \in Portals /\ q.executed = TRUE /\ q.refused = g.err /\ q.runs = p.runs + 1
      /\ q.delivered = p.delivered /\ q.asked = p.asked /\ q.statement = p.statement
      /\ (q.held = kept /\ q.sent = p.sent) \/ (q.held = p.held /\ q.sent = g.rows)
  <2>1. p.runs + 1 \in Nat /\ TRUE \in BOOLEAN /\ kept \in Nat
    BY <1>2, <1>4
  <2> HIDE DEF kept
  <2>2. CASE q = [p EXCEPT !.executed = TRUE, !.refused = g.err, !.runs = @ + 1, !.held = kept]
    BY <1>2, <1>4, <2>1, <2>2, Zenon DEF Portals
  <2>3. CASE q = [p EXCEPT !.executed = TRUE, !.refused = g.err, !.runs = @ + 1, !.sent = g.rows]
    BY <1>2, <1>4, <2>1, <2>3, Zenon DEF Portals
  <2> QED
    BY <1>5, <2>2, <2>3, Zenon
<1>7. PortalOK(q)
  BY <1>1, <1>2, <1>4, <1>6 DEF PortalOK
<1>8. PICK m : m = [g.me EXCEPT !.portal = q]
  BY Zenon
<1>9. Kin(m, g.me) /\ m.portal = q
  BY <1>2, <1>6, <1>8, Zenon DEF Kin, Sessions
<1>10. w = [g EXCEPT !.me = m]
  BY <1>8 DEF Put
<1>11. w \in Results /\ w.me = m /\ w.svc = g.svc /\ w.holder = g.holder /\ w.tx = g.tx /\ w.err = g.err
  <2>1. m \in Sessions
    BY <1>9, Zenon DEF Kin
  <2> QED
    BY <1>1, <1>10, <2>1, Zenon DEF Results
<1> QED
  BY <1>6, <1>7, <1>9, <1>11, Zenon DEF AnswersFor

LEMMA AnswersItself ==
  ASSUME NEW c, NEW v, NEW h, NEW me, me.portal \in Portals, PortalOK(me.portal),
         NEW g, Good(c, v, h, me, g)
  PROVE  AnswersFor(g, g)
<1>1. g \in Results /\ g.me.portal \in {me.portal, NoPortal}
  BY Zenon DEF Good
<1>2. g.me \in Sessions
  BY <1>1 DEF Results
<1> QED
  BY <1>1, <1>2, NothingBound, Zenon DEF AnswersFor, Kin

(* portal_answer. *)
LEMMA PortalAnswers ==
  ASSUME NEW c \in Conns, NEW v, NEW h \in Holders, NEW me, SvcOK(v), SessOK(v, me),
         me.portal \in Portals, PortalOK(me.portal),
         Unrun(me.portal) => /\ me.portal.asked \/ me.portal.statement = "read"
                             /\ \A g \in Run(c, v, h, me, me.portal.statement) : Good(c, v, h, me, g),
         NEW w \in PortalAnswer(c, v, h, me)
  PROVE  \E g : AnswersFor(w, g) /\ Good(c, v, h, me, g)
                /\ \/ g \in {Refuse(v, h, me), Done(v, h, me)}
                   \/ Unrun(me.portal) /\ g \in Run(c, v, h, me, me.portal.statement)
<1>1. CASE me.portal.statement = "none" \/ me.portal.refused
  <2>1. w = Refuse(v, h, me)
    BY <1>1, Zenon DEF PortalAnswer
  <2> QED
    BY <2>1, Stays, AnswersItself, Zenon
<1>2. CASE ~(me.portal.statement = "none" \/ me.portal.refused) /\ me.portal.executed
  <2>1. w = Done(v, h, me)
    BY <1>2, Zenon DEF PortalAnswer
  <2> QED
    BY <2>1, Stays, AnswersItself, Zenon
<1>3. CASE Unrun(me.portal)
  <2>1. PICK g \in Run(c, v, h, me, me.portal.statement) :
          w = IF g.me.portal = NoPortal THEN g
              ELSE [g EXCEPT !.me.portal = Held(@, g)]
    BY <1>3, Zenon DEF PortalAnswer, Unrun
  <2>2. Good(c, v, h, me, g) /\ (me.portal.asked \/ me.portal.statement = "read")
    BY <1>3, Zenon
  <2>3. CASE g.me.portal = NoPortal
    <3>1. w = g
      BY <2>1, <2>3, Zenon
    <3>2. AnswersFor(w, g)
      BY <2>2, <3>1, AnswersItself, Zenon
    <3> QED
      BY <1>3, <2>2, <3>2, Zenon
  <2>4. CASE g.me.portal # NoPortal
    <3>1. g.me.portal = me.portal
      BY <2>2, <2>4, Zenon DEF Good
    <3>2. PICK q : q = Held(me.portal, g)
      BY Zenon
    <3>3. w = Put(g, q)
      BY <2>1, <2>4, <3>1, <3>2 DEF Put
    <3>4. q \in {Held(me.portal, g), Sent(me.portal, g)}
      BY <3>2, Zenon
    <3>5. AnswersFor(w, g)
      BY <1>3, <2>2, <2>4, <3>3, <3>4, PortalRan
    <3> QED
      BY <1>3, <2>2, <3>5, Zenon
  <2> QED
    BY <2>3, <2>4, Zenon
<1> QED
  BY <1>1, <1>2, <1>3, Zenon DEF Unrun

(* A slice of the held answer. *)
LEMMA SlicedKin ==
  ASSUME NEW w \in Results, PortalOK(w.me.portal), NEW max \in 0..1, NEW s, s = Sliced(w, max)
  PROVE  Kin(s.me, w.me) /\ PortalOK(s.me.portal)
<1>1. PICK p : p = w.me.portal
  BY Zenon
<1>2. PICK end : end = IF max = 0 THEN p.held ELSE Slice(p.held, p.delivered, max)
  BY Zenon
<1>3. s = [w EXCEPT !.me.portal = [p EXCEPT !.delivered = end, !.sent = @ + end - p.delivered]]
  BY <1>1, <1>2, Zenon DEF Sliced
<1>4. w.me \in Sessions
  BY DEF Results
<1>5. p \in Portals
  BY <1>1, <1>4 DEF Sessions
<1>6. /\ p.held \in Nat /\ p.delivered \in Nat /\ p.sent \in Nat /\ AnswerRows \in Nat /\ max \in Nat
      /\ p.delivered <= p.held /\ p.held <= AnswerRows /\ p.sent <= AnswerRows
      /\ (p.held > 0 => p.sent = p.delivered)
  BY <1>1, <1>5, PgAssumption DEF Portals, PortalOK
<1>7. end \in Nat /\ end <= p.held /\ p.delivered <= end
  BY <1>2, <1>6 DEF Slice
<1>8. PICK q : q = [p EXCEPT !.delivered = end, !.sent = @ + end - p.delivered]
  BY Zenon
<1>9. /\ q \in Portals /\ q.delivered = end /\ q.sent = p.sent + end - p.delivered /\ q.held = p.held
      /\ q.executed = p.executed /\ q.refused = p.refused /\ q.runs = p.runs
      /\ q.statement = p.statement /\ q.asked = p.asked
  <2>1. p.sent + end - p.delivered \in Nat
    BY <1>6, <1>7
  <2> QED
    BY <1>5, <1>7, <1>8, <2>1, Zenon DEF Portals
<1>10. PortalOK(q)
  <2>1. q.sent <= AnswerRows /\ (p.held > 0 => q.sent = q.delivered) /\ (p.held = 0 => q.sent = p.sent)
    BY <1>6, <1>7, <1>9
  <2> QED
    BY <1>1, <1>6, <1>7, <1>9, <2>1 DEF PortalOK
<1>11. PICK m : m = [w.me EXCEPT !.portal = q]
  BY Zenon
<1>12. s.me = m
  <2>1. s = [w EXCEPT !.me = m]
    BY <1>3, <1>8, <1>11
  <2> QED
    BY <2>1, Zenon DEF Results
<1>13. Kin(m, w.me) /\ m.portal = q
  BY <1>4, <1>9, <1>11 DEF Kin, Sessions
<1> QED
  BY <1>10, <1>12, <1>13, Zenon
-----------------------------------------------------------------------------
(* Each message is a step of its connection. *)

LEMMA RoomIs ==
  ASSUME NEW s, Room(s)
  PROVE  Roomy(svc)
  BY DEF Room, Roomy

LEMMA ConnectMoves ==
  ASSUME Inv, NEW c \in Conns, Connect(c)
  PROVE  Moved(c)
<1>1. conn[c] = Closed /\ svc' = svc /\ holder' = holder /\ conn' = [conn EXCEPT ![c] = NewConnection]
  BY SessionIs, Zenon DEF Connect
<1>2. SvcOK(svc) /\ holder \in Holders /\ Mine(svc, conn[c].reader)
  BY SessionIs, Zenon
<1>3. Turn(svc, conn[c].reader, svc, NewConnection.reader)
  BY <1>1, <1>2, NoTurn, ClosedIs, Zenon
<1>4. SessOK(svc, NewConnection) /\ PortalOK(NewConnection.portal)
  BY <1>2, ClosedIs, NewSession, NothingBound, Zenon
<1>5. Told(svc, conn[c].acked, svc, NewConnection.acked)
  <2>1. ~(0 < 0)
    OBVIOUS
  <2> QED
    BY <1>1, <2>1, ClosedIs, Zenon DEF Told
<1>6. Blocks(c, svc, holder, conn[c].txn_failed, svc, holder)
  BY <1>2, BlocksBeside, Zenon
<1>7. Step(c, svc, holder, NewConnection)
  BY <1>1, <1>2, <1>3, <1>4, <1>5, <1>6, ClosedIs, Zenon DEF Step
<1> QED
  BY <1>1, <1>7, Zenon DEF Moved

LEMMA QueryMoves ==
  ASSUME Inv, NEW c \in Conns, NEW s \in Statements, Query(c, s)
  PROVE  Moved(c)
<1>1. conn[c].open /\ Roomy(svc)
  BY RoomIs, Zenon DEF Query
<1>2. PICK r \in Run(c, svc, holder, conn[c], s) :
        EndOfChunk(c, r.svc, r.holder,
          IF r.err THEN [Fail(r.me, r.holder, c) EXCEPT !.skip_until_sync = FALSE]
                   ELSE [r.me EXCEPT !.reply = r.tx])
  BY Zenon DEF Query
<1>3. SvcOK(svc) /\ SessOK(svc, conn[c]) /\ holder \in Holders /\ PortalOK(conn[c].portal)
  BY SessionIs, Zenon
<1>4. Good(c, svc, holder, conn[c], r)
  BY <1>1, <1>3, RunGood, Zenon
<1>5. r \in Results /\ r.me.portal \in {conn[c].portal, NoPortal}
  BY <1>4, Zenon DEF Good
<1>6. r.me \in Sessions /\ r.tx \in Nat
  BY <1>5 DEF Results
<1>7. PICK m : m = IF r.err THEN [Fail(r.me, r.holder, c) EXCEPT !.skip_until_sync = FALSE]
                   ELSE [r.me EXCEPT !.reply = r.tx]
  BY Zenon
<1>8. Kin(m, r.me) /\ m.portal = r.me.portal /\ (m.reply = 0 \/ m.reply = r.tx)
  <2>1. CASE r.err
    <3>1. PICK k : k = Fail(r.me, r.holder, c)
      BY Zenon
    <3>2. Kin(k, r.me) /\ k.portal = r.me.portal /\ k.reply = 0
      BY <1>6, <3>1, FailKin
    <3>3. m = [k EXCEPT !.skip_until_sync = FALSE]
      BY <1>7, <2>1, <3>1, Zenon
    <3>4. Kin(m, k) /\ m.portal = k.portal /\ m.reply = k.reply
      BY <3>2, <3>3, SkipKin, Zenon DEF Kin
    <3> QED
      BY <3>2, <3>4, KinKin, Zenon
  <2>2. CASE ~r.err
    <3>1. m = [r.me EXCEPT !.reply = r.tx]
      BY <1>7, <2>2, Zenon
    <3> QED
      BY <1>6, <3>1, Zenon DEF Kin, Sessions
  <2> QED
    BY <2>1, <2>2, Zenon
<1>9. PortalOK(m.portal)
  BY <1>3, <1>5, <1>8, NothingBound, Zenon
<1>10. Step(c, r.svc, r.holder, m) /\ m.open
  BY <1>1, <1>4, <1>8, <1>9, Closes, Zenon
<1> QED
  BY <1>2, <1>7, <1>10, ChunkMoves, Zenon

(* A message that only sets something in the session. *)
LEMMA AsideMoves ==
  ASSUME Inv, NEW c \in Conns, conn[c].open, NEW m, Kin(m, conn[c]), PortalOK(m.portal), m.reply = 0,
         EndOfChunk(c, svc, holder, m)
  PROVE  Moved(c)
<1>1. SvcOK(svc) /\ SessOK(svc, conn[c]) /\ holder \in Holders
  BY SessionIs, Zenon
<1>2. PICK g : g = Done(svc, holder, conn[c])
  BY Zenon
<1>3. Good(c, svc, holder, conn[c], g)
  BY <1>1, <1>2, Stays, Zenon
<1>4. g.svc = svc /\ g.holder = holder /\ g.me = conn[c]
  BY <1>2, Zenon DEF Done, Result
<1>5. Step(c, g.svc, g.holder, m) /\ m.open
  BY <1>3, <1>4, Closes, Zenon
<1> QED
  BY <1>4, <1>5, ChunkMoves, Zenon

LEMMA ParseMoves ==
  ASSUME Inv, NEW c \in Conns, NEW s \in Statements, Parse(c, s)
  PROVE  Moved(c)
<1>1. PICK m : m = [conn[c] EXCEPT !.prepared = s, !.reply = 0]
  BY Zenon
<1>2. conn[c].open /\ EndOfChunk(c, svc, holder, m)
  BY <1>1, Zenon DEF Parse
<1>3. conn[c] \in Sessions /\ PortalOK(conn[c].portal)
  BY SessionIs, Zenon
<1>4. Kin(m, conn[c]) /\ m.portal = conn[c].portal /\ m.reply = 0
  <2>1. s \in Words /\ 0 \in Nat
    BY DEF Words
  <2> QED
    BY <1>1, <1>3, <2>1, Zenon DEF Kin, Sessions
<1> QED
  BY <1>2, <1>3, <1>4, AsideMoves, Zenon

LEMMA BindMoves ==
  ASSUME Inv, NEW c \in Conns, Bind(c)
  PROVE  Moved(c)
<1>1. PICK m : m = IF conn[c].prepared = "none" THEN Fail(conn[c], holder, c)
                   ELSE [conn[c] EXCEPT !.portal = Bound(conn[c].prepared), !.reply = 0]
  BY Zenon
<1>2. conn[c].open /\ EndOfChunk(c, svc, holder, m)
  BY <1>1, Zenon DEF Bind
<1>3. conn[c] \in Sessions /\ PortalOK(conn[c].portal) /\ conn[c].prepared \in Words
  BY SessionIs, Zenon
<1>4. CASE conn[c].prepared = "none"
  <2>1. m = Fail(conn[c], holder, c)
    BY <1>1, <1>4, Zenon
  <2>2. Kin(m, conn[c]) /\ m.portal = conn[c].portal /\ m.reply = 0
    BY <1>3, <2>1, FailKin
  <2> QED
    BY <1>2, <1>3, <2>2, AsideMoves, Zenon
<1>5. CASE conn[c].prepared # "none"
  <2>1. PICK p : p = Bound(conn[c].prepared)
    BY Zenon
  <2>2. p \in Portals /\ PortalOK(p)
    <3>1. p = [NoPortal EXCEPT !.statement = conn[c].prepared] /\ NoPortal \in Portals
      BY <2>1, NothingBound, Zenon DEF Bound
    <3>2. /\ p \in Portals /\ p.executed = NoPortal.executed /\ p.refused = NoPortal.refused
          /\ p.held = NoPortal.held /\ p.delivered = NoPortal.delivered /\ p.runs = NoPortal.runs
          /\ p.asked = NoPortal.asked /\ p.sent = NoPortal.sent
      BY <1>3, <3>1, Zenon DEF Portals
    <3>3. /\ p.executed = FALSE /\ p.refused = FALSE /\ p.held = 0 /\ p.delivered = 0 /\ p.runs = 0
          /\ p.sent = 0
      BY <3>2, Zenon DEF NoPortal
    <3>4. 0 <= 1 /\ 0 <= 0 /\ 0 <= AnswerRows /\ ~(0 > 0)
      BY PgAssumption
    <3> QED
      BY <3>2, <3>3, <3>4, Zenon DEF PortalOK
  <2>3. m = [conn[c] EXCEPT !.portal = p, !.reply = 0]
    BY <1>1, <1>5, <2>1, Zenon
  <2>4. Kin(m, conn[c]) /\ m.portal = p /\ m.reply = 0
    <3>1. 0 \in Nat
      OBVIOUS
    <3> QED
      BY <1>3, <2>2, <2>3, <3>1, Zenon DEF Kin, Sessions
  <2> QED
    BY <1>2, <2>2, <2>4, AsideMoves, Zenon
<1> QED
  BY <1>4, <1>5, Zenon

LEMMA CloseMoves ==
  ASSUME Inv, NEW c \in Conns, CloseMessage(c)
  PROVE  Moved(c)
<1>1. conn[c] \in Sessions /\ PortalOK(conn[c].portal)
  BY SessionIs, Zenon
<1>2. PICK me \in {[conn[c] EXCEPT !.prepared = "none"], [conn[c] EXCEPT !.portal = NoPortal]} :
        conn[c].open /\ EndOfChunk(c, svc, holder, [me EXCEPT !.reply = 0])
  BY Zenon DEF CloseMessage
<1>3. PICK m : m = [me EXCEPT !.reply = 0]
  BY Zenon
<1>4. Kin(me, conn[c]) /\ me.portal \in {conn[c].portal, NoPortal}
  <2>1. NoPortal \in Portals /\ "none" \in Words
    BY NothingBound DEF Words
  <2>2. CASE me = [conn[c] EXCEPT !.prepared = "none"]
    BY <1>1, <2>1, <2>2, Zenon DEF Kin, Sessions
  <2>3. CASE me = [conn[c] EXCEPT !.portal = NoPortal]
    BY <1>1, <2>1, <2>3, Zenon DEF Kin, Sessions
  <2> QED
    BY <1>2, <2>2, <2>3, Zenon
<1>5. Kin(m, me) /\ m.portal = me.portal /\ m.reply = 0
  <2>1. 0 \in Nat /\ me \in Sessions
    BY <1>4 DEF Kin
  <2> QED
    BY <1>3, <2>1, Zenon DEF Kin, Sessions
<1>6. Kin(m, conn[c]) /\ PortalOK(m.portal)
  BY <1>1, <1>4, <1>5, KinKin, NothingBound, Zenon
<1> QED
  BY <1>2, <1>3, <1>5, <1>6, AsideMoves, Zenon

LEMMA SyncMoves ==
  ASSUME Inv, NEW c \in Conns, Sync(c)
  PROVE  Moved(c)
<1>1. PICK m : m = [conn[c] EXCEPT !.skip_until_sync = FALSE, !.reply = 0]
  BY Zenon
<1>2. conn[c].open /\ EndOfChunk(c, svc, holder, m)
  BY <1>1, Zenon DEF Sync
<1>3. conn[c] \in Sessions /\ PortalOK(conn[c].portal)
  BY SessionIs, Zenon
<1>4. Kin(m, conn[c]) /\ m.portal = conn[c].portal /\ m.reply = 0
  <2>1. 0 \in Nat
    OBVIOUS
  <2> QED
    BY <1>1, <1>3, <2>1, Zenon DEF Kin, Sessions
<1> QED
  BY <1>2, <1>3, <1>4, AsideMoves, Zenon

LEMMA TerminateMoves ==
  ASSUME Inv, NEW c \in Conns, Terminate(c)
  PROVE  Moved(c)
<1>1. PICK d \in Hangup(c, svc, holder, conn[c]) :
        svc' = d.svc /\ holder' = d.holder /\ conn' = [conn EXCEPT ![c] = d.me]
  BY Zenon DEF Terminate
<1>2. Step(c, svc, holder, conn[c])
  BY StepNone, Zenon DEF Terminate
<1>3. Step(c, d.svc, d.holder, d.me)
  BY <1>2, HangupSteps, Zenon
<1> QED
  BY <1>1, <1>3, Zenon DEF Moved

LEMMA IdleMoves ==
  ASSUME Inv, NEW c \in Conns, Idle(c)
  PROVE  Moved(c)
<1>1. PICK e : e = LetGo(c, svc, conn[c])
  BY Zenon
<1>2. conn[c].open /\ svc' = e.svc /\ conn' = [conn EXCEPT ![c] = e.me] /\ holder' = holder
  BY <1>1, Zenon DEF Idle
<1>3. Step(c, e.svc, holder, e.me)
  BY <1>1, <1>2, StepNone, LetGoSteps, Zenon
<1> QED
  BY <1>2, <1>3, Zenon DEF Moved

(* The refresh of a Describe is a statement that answers nothing. *)
LEMMA DescribedGood ==
  ASSUME Inv, NEW c \in Conns, Roomy(svc), NEW s, NEW r, r = Described(c, s)
  PROVE  /\ \E g : /\ Good(c, svc, holder, conn[c], g) /\ g.svc = r.svc /\ g.holder = holder
                   /\ g.me = r.me
         /\ r.me \in Sessions /\ Alike(r.me, conn[c]) /\ Beside(svc, r.svc)
<1>1. SvcOK(svc) /\ SessOK(svc, conn[c]) /\ holder \in Holders /\ conn[c] \in Sessions /\ ViewOK(svc, conn[c])
  BY SessionIs, Zenon
<1>2. PICK d : d = Done(svc, holder, conn[c])
  BY Zenon
<1>3. Good(c, svc, holder, conn[c], d) /\ d.svc = svc /\ d.holder = holder /\ d.me = conn[c]
  BY <1>1, <1>2, Stays, Zenon DEF Done, Result
<1>4. CASE s \in {"read", "write"}
  <2>1. r = Refreshed(svc, conn[c])
    BY <1>4, Zenon DEF Described
  <2>2. PICK g : g = Result(r.svc, holder, r.me, FALSE, 0, 1)
    BY Zenon
  <2>3. g \in Answered(d, FALSE)
    BY <1>3, <2>1, <2>2, Zenon DEF Answered
  <2>4. Fits(svc)
    BY <1>1, RoomyFits, Zenon
  <2>5. Good(c, svc, holder, conn[c], g)
    BY <1>1, <1>3, <2>3, <2>4, AnsweredGood, Zenon
  <2>6. g.svc = r.svc /\ g.holder = holder /\ g.me = r.me
    BY <2>2, Zenon DEF Result
  <2>7. r.me \in Sessions /\ Alike(r.me, conn[c]) /\ Beside(svc, r.svc)
    BY <1>1, <2>1, <2>4, Refreshes, Zenon DEF CanRefresh
  <2> QED
    BY <2>5, <2>6, <2>7, Zenon
<1>5. CASE ~(s \in {"read", "write"})
  <2>1. r.svc = svc /\ r.me = conn[c]
    BY <1>5, Zenon DEF Described
  <2> QED
    BY <1>1, <1>3, <2>1, Zenon DEF Alike, Beside
<1> QED
  BY <1>4, <1>5, Zenon

(* A Describe that only refreshes the view. *)
LEMMA LooksMoves ==
  ASSUME Inv, NEW c \in Conns, conn[c].open, Roomy(svc), NEW s, NEW r, r = Described(c, s),
         NEW m, m = Fail(r.me, holder, c) \/ m = [r.me EXCEPT !.reply = 0],
         EndOfChunk(c, r.svc, holder, m)
  PROVE  Moved(c)
<1>1. PICK g : Good(c, svc, holder, conn[c], g) /\ g.svc = r.svc /\ g.holder = holder /\ g.me = r.me
  BY DescribedGood
<1>2. r.me \in Sessions /\ r.me.portal = conn[c].portal /\ PortalOK(conn[c].portal) /\ 0 \in Nat
  <2>1. r.me \in Sessions /\ Alike(r.me, conn[c])
    BY DescribedGood
  <2>2. PortalOK(conn[c].portal) /\ 0 \in Nat
    BY SessionIs
  <2> QED
    BY <2>1, <2>2, Zenon DEF Alike
<1>3. Kin(m, r.me) /\ m.portal = r.me.portal /\ m.reply = 0
  <2>1. CASE m = Fail(r.me, holder, c)
    BY <1>2, <2>1, FailKin
  <2>2. CASE m = [r.me EXCEPT !.reply = 0]
    BY <1>2, <2>2, Zenon DEF Kin, Sessions
  <2> QED
    BY <2>1, <2>2, Zenon
<1>4. Step(c, g.svc, g.holder, m) /\ m.open
  BY <1>1, <1>2, <1>3, Closes, Zenon
<1> QED
  BY <1>1, <1>4, ChunkMoves, Zenon

LEMMA DescribeStatementMoves ==
  ASSUME Inv, NEW c \in Conns, DescribeStatement(c)
  PROVE  Moved(c)
<1>1. PICK r : r = Described(c, conn[c].prepared)
  BY Zenon
<1>2. PICK m : m = IF conn[c].prepared = "none" THEN Fail(r.me, holder, c)
                   ELSE [r.me EXCEPT !.reply = 0]
  BY Zenon
<1>3. conn[c].open /\ Room("read") /\ EndOfChunk(c, r.svc, holder, m)
  BY <1>1, <1>2, Zenon DEF DescribeStatement
<1>4. m = Fail(r.me, holder, c) \/ m = [r.me EXCEPT !.reply = 0]
  BY <1>2, Zenon
<1>5. Roomy(svc)
  BY <1>3, RoomIs, Zenon
<1> QED
  BY <1>1, <1>3, <1>4, <1>5, LooksMoves, Zenon

(* A Describe of a portal that has run, or of none. *)
LEMMA DescribeAgain ==
  ASSUME Inv, NEW c \in Conns, conn[c].open, ~Unrun(conn[c].portal),
         NEW w \in PortalAnswer(c, svc, holder, conn[c]),
         NEW m, m = Fail(w.me, w.holder, c) \/ m = [w.me EXCEPT !.reply = 0],
         EndOfChunk(c, w.svc, w.holder, m)
  PROVE  Moved(c)
<1>1. /\ SvcOK(svc) /\ SessOK(svc, conn[c]) /\ holder \in Holders /\ PortalOK(conn[c].portal)
      /\ conn[c].portal \in Portals /\ 0 \in Nat
  BY SessionIs, Zenon
<1>2. PICK g : AnswersFor(w, g) /\ Good(c, svc, holder, conn[c], g)
  BY <1>1, PortalAnswers, Zenon
<1>3. w.me \in Sessions /\ Kin(w.me, g.me) /\ w.svc = g.svc /\ w.holder = g.holder /\ PortalOK(w.me.portal)
  BY <1>2, Zenon DEF AnswersFor, Kin
<1>4. Kin(m, w.me) /\ m.portal = w.me.portal /\ m.reply = 0
  <2>1. CASE m = Fail(w.me, w.holder, c)
    BY <1>3, <2>1, FailKin
  <2>2. CASE m = [w.me EXCEPT !.reply = 0]
    BY <1>1, <1>3, <2>2, Zenon DEF Kin, Sessions
  <2> QED
    BY <2>1, <2>2, Zenon
<1>5. Step(c, g.svc, g.holder, m) /\ m.open
  BY <1>2, <1>3, <1>4, KinKin, Closes, Zenon
<1> QED
  BY <1>3, <1>5, ChunkMoves, Zenon

(* A Describe that runs a read: the view could not be had, or the block    *)
(* has its own.                                                            *)
LEMMA DescribeRuns ==
  ASSUME Inv, NEW c \in Conns, conn[c].open, Roomy(svc), Unrun(conn[c].portal),
         conn[c].portal.statement = "read", NEW r, r = Refreshed(svc, conn[c]), r.err \/ holder = c,
         NEW w \in PortalAnswer(c, r.svc, holder, r.me),
         NEW m, m = Fail(w.me, w.holder, c) \/ m = [w.me EXCEPT !.reply = 0],
         EndOfChunk(c, w.svc, w.holder, m)
  PROVE  Moved(c)
<1>1. /\ SvcOK(svc) /\ SessOK(svc, conn[c]) /\ holder \in Holders /\ PortalOK(conn[c].portal)
      /\ conn[c].portal \in Portals /\ 0 \in Nat /\ conn[c] \in Sessions /\ ViewOK(svc, conn[c])
      /\ Mine(svc, conn[c].reader) /\ CursorOK(conn[c].cursor)
  BY SessionIs, Zenon DEF SessOK
<1>2. CanRefresh(svc, conn[c])
  BY <1>1, RoomyFits, Zenon DEF CanRefresh
<1>3. /\ Turn(svc, conn[c].reader, r.svc, r.me.reader) /\ Beside(svc, r.svc) /\ ViewOK(r.svc, r.me)
      /\ r.me \in Sessions /\ Alike(r.me, conn[c])
      /\ r.err => ~SlotFree(r.svc) /\ r.me.reader = 0
      /\ r.svc.next_serial <= svc.next_serial + 2
  BY <1>1, <1>2, Refreshes, Zenon
<1>4. SvcOK(r.svc) /\ SessOK(r.svc, r.me)
  <2>1. SvcOK(r.svc)
    BY <1>3, Zenon DEF Turn
  <2>2. CursorOK(r.me.cursor) /\ r.me.acked = conn[c].acked
    BY <1>1, <1>3, Zenon DEF Alike
  <2>3. SessOK(r.svc, r.me)
    BY <1>1, <1>3, <2>2, SessMoves, Zenon
  <2> QED
    BY <2>1, <2>3, Zenon
<1>5. CanWalk(c, r.svc, holder, r.me)
  <2>1. r.svc.next_serial \in Serials
    <3>1. r.svc.next_serial \in Nat /\ r.svc.published \in Nat /\ r.svc.published < r.svc.next_serial
      BY <1>4, Numbers, Zenon
    <3>2. svc.next_serial \in Nat /\ MaxSerial \in Nat
      BY <1>1, Numbers, Zenon
    <3> QED
      BY <1>3, <3>1, <3>2 DEF Roomy, Serials
  <2> QED
    BY <1>3, <2>1, Zenon DEF CanRefresh, CanWalk
<1>6. r.me.portal = conn[c].portal
  BY <1>3, Zenon DEF Alike
<1>7. \A g \in Run(c, r.svc, holder, r.me, "read") : Good(c, r.svc, holder, r.me, g) /\ g.me.acked = r.me.acked
  BY <1>1, <1>4, <1>5, ReadGood
<1>8. PICK g : /\ AnswersFor(w, g) /\ Good(c, r.svc, holder, r.me, g)
               /\ \/ g \in {Refuse(r.svc, holder, r.me), Done(r.svc, holder, r.me)}
                  \/ g \in Run(c, r.svc, holder, r.me, "read")
  <2>1. r.me.portal \in Portals /\ PortalOK(r.me.portal) /\ r.me.portal.statement = "read"
    BY <1>1, <1>6, Zenon
  <2>2. \A g \in Run(c, r.svc, holder, r.me, r.me.portal.statement) : Good(c, r.svc, holder, r.me, g)
    BY <1>7, <2>1, Zenon
  <2>3. \E g : /\ AnswersFor(w, g) /\ Good(c, r.svc, holder, r.me, g)
               /\ \/ g \in {Refuse(r.svc, holder, r.me), Done(r.svc, holder, r.me)}
                  \/ Unrun(r.me.portal) /\ g \in Run(c, r.svc, holder, r.me, r.me.portal.statement)
    BY <1>1, <1>4, <2>1, <2>2, PortalAnswers
  <2> QED
    BY <2>1, <2>3, Zenon
<1>9. g.me.acked = conn[c].acked
  <2>1. Refuse(r.svc, holder, r.me).me = r.me /\ Done(r.svc, holder, r.me).me = r.me
    BY Zenon DEF Refuse, Done, Result
  <2> QED
    BY <1>3, <1>7, <1>8, <2>1, Zenon DEF Alike
<1>10. /\ w.me \in Sessions /\ Kin(w.me, g.me) /\ w.svc = g.svc /\ w.holder = g.holder
       /\ PortalOK(w.me.portal)
  BY <1>8, Zenon DEF AnswersFor, Kin
<1>11. Kin(m, w.me) /\ m.portal = w.me.portal /\ m.reply = 0
  <2>1. CASE m = Fail(w.me, w.holder, c)
    BY <1>10, <2>1, FailKin
  <2>2. CASE m = [w.me EXCEPT !.reply = 0]
    BY <1>1, <1>10, <2>2, Zenon DEF Kin, Sessions
  <2> QED
    BY <2>1, <2>2, Zenon
<1>12. Kin(m, g.me)
  BY <1>10, <1>11, KinKin, Zenon
<1>13. /\ g \in Results /\ Turn(r.svc, r.me.reader, g.svc, g.me.reader) /\ SessOK(g.svc, g.me)
       /\ g.me.open = r.me.open /\ Blocks(c, r.svc, holder, r.me.txn_failed, g.svc, g.holder)
  BY <1>8, Zenon DEF Good
<1>14. Turn(svc, conn[c].reader, g.svc, m.reader)
  <2>1. m.reader = g.me.reader
    BY <1>12, Zenon DEF Kin
  <2> QED
    BY <1>1, <1>3, <1>13, <2>1, TurnTurn
<1>15. Blocks(c, svc, holder, conn[c].txn_failed, g.svc, g.holder)
  BY <1>3, <1>13, Zenon DEF Blocks, Clean, Beside, Alike
<1>16. Told(svc, conn[c].acked, g.svc, m.acked)
  <2>1. ~(conn[c].acked < conn[c].acked)
    BY <1>1 DEF Sessions
  <2> QED
    BY <1>9, <1>12, <2>1, Zenon DEF Told, Kin
<1>17. SessOK(g.svc, m) /\ m.open
  BY <1>3, <1>12, <1>13, Zenon DEF SessOK, ViewOK, Kin, Alike
<1>18. g.holder \in Holders
  BY <1>13 DEF Results
<1>19. Shown(svc, g.svc, m.reply)
  BY <1>11, Zenon DEF Shown
<1>20. Step(c, w.svc, w.holder, m)
  BY <1>10, <1>11, <1>14, <1>15, <1>16, <1>17, <1>18, <1>19, Zenon DEF Step
<1> QED
  BY <1>17, <1>20, ChunkMoves, Zenon

LEMMA DescribeMoves ==
  ASSUME Inv, NEW c \in Conns, Describe(c)
  PROVE  Moved(c)
<1>1. PICK p : p = conn[c].portal
  BY Zenon
<1> DEFINE fresh == p.statement # "none" /\ ~p.executed /\ ~p.refused
<1>3. PICK r : r = Described(c, IF fresh THEN p.statement ELSE "none")
  BY Zenon
<1>4. conn[c].open /\ Roomy(svc)
  BY RoomIs, Zenon DEF Describe
<1>5. \/ EndOfChunk(c, r.svc, holder, [r.me EXCEPT !.reply = 0])
      \/ /\ RunsToDescribe(fresh, p.statement, r.err, holder = c)
         /\ \E w \in PortalAnswer(c, r.svc, holder, r.me) :
              EndOfChunk(c, w.svc, w.holder,
                IF w.err THEN Fail(w.me, w.holder, c)
                         ELSE [w.me EXCEPT !.reply = 0])
  BY <1>1, <1>3, Zenon DEF Describe
<1>6. CASE EndOfChunk(c, r.svc, holder, [r.me EXCEPT !.reply = 0])
  BY <1>3, <1>4, <1>6, LooksMoves, Zenon
<1>7. CASE /\ RunsToDescribe(fresh, p.statement, r.err, holder = c)
           /\ \E w \in PortalAnswer(c, r.svc, holder, r.me) :
                EndOfChunk(c, w.svc, w.holder,
                  IF w.err THEN Fail(w.me, w.holder, c)
                           ELSE [w.me EXCEPT !.reply = 0])
  <2>1. PICK w \in PortalAnswer(c, r.svc, holder, r.me) :
          EndOfChunk(c, w.svc, w.holder,
            IF w.err THEN Fail(w.me, w.holder, c) ELSE [w.me EXCEPT !.reply = 0])
    BY <1>7, Zenon
  <2>2. PICK m : m = IF w.err THEN Fail(w.me, w.holder, c) ELSE [w.me EXCEPT !.reply = 0]
    BY Zenon
  <2>3. EndOfChunk(c, w.svc, w.holder, m)
        /\ (m = Fail(w.me, w.holder, c) \/ m = [w.me EXCEPT !.reply = 0])
    BY <2>1, <2>2, Zenon
  <2>4. CASE ~fresh
    <3>1. r.svc = svc /\ r.me = conn[c]
      <4>1. r = Described(c, "none")
        BY <1>3, <2>4, Zenon
      <4> QED
        BY <4>1 DEF Described
    <3>2. ~Unrun(conn[c].portal)
      BY <1>1, <2>4, Zenon DEF Unrun
    <3> QED
      BY <1>4, <2>1, <2>3, <3>1, <3>2, DescribeAgain, Zenon
  <2>5. CASE fresh
    <3>1. p.statement = "read" /\ (r.err \/ holder = c)
      BY <1>7, <2>5, Zenon DEF RunsToDescribe
    <3>2. r = Refreshed(svc, conn[c])
      BY <1>3, <2>5, <3>1, Zenon DEF Described
    <3>3. Unrun(conn[c].portal)
      BY <1>1, <2>5, Zenon DEF Unrun
    <3> QED
      BY <1>1, <1>4, <2>1, <2>3, <3>1, <3>2, <3>3, DescribeRuns, Zenon
  <2> QED
    BY <2>4, <2>5, Zenon
<1> QED
  BY <1>5, <1>6, <1>7, Zenon

(* Execute asks for the run of a portal that has not run. *)
Asking(s, p) == [s EXCEPT !.portal.asked = p.asked \/ (p.statement # "none" /\ ~p.executed)]

LEMMA ExecuteAsks ==
  ASSUME Inv, NEW c \in Conns, NEW p, p = conn[c].portal, NEW me, me = Asking(conn[c], p)
  PROVE  /\ Kin(me, conn[c]) /\ me.txn_failed = conn[c].txn_failed /\ SessOK(svc, me)
         /\ me.portal \in Portals /\ PortalOK(me.portal)
         /\ (Unrun(me.portal) => me.portal.asked) /\ me.portal.statement = p.statement
         /\ me.portal.executed = p.executed
<1>1. /\ SessOK(svc, conn[c]) /\ PortalOK(p) /\ p \in Portals /\ conn[c] \in Sessions
  BY SessionIs, Zenon
<1>2. PICK q : q = [p EXCEPT !.asked = p.asked \/ (p.statement # "none" /\ ~p.executed)]
  BY Zenon
<1>3. /\ q \in Portals /\ q.statement = p.statement /\ q.executed = p.executed /\ q.refused = p.refused
      /\ q.held = p.held /\ q.delivered = p.delivered /\ q.runs = p.runs /\ q.sent = p.sent
      /\ q.asked = (p.asked \/ (p.statement # "none" /\ ~p.executed))
  <2>1. PICK b : b = (p.asked \/ (p.statement # "none" /\ ~p.executed))
    BY Zenon
  <2>2. b \in BOOLEAN
    BY <2>1
  <2>3. q = [p EXCEPT !.asked = b]
    BY <1>2, <2>1, Zenon
  <2>4. /\ q \in Portals /\ q.statement = p.statement /\ q.executed = p.executed /\ q.refused = p.refused
        /\ q.held = p.held /\ q.delivered = p.delivered /\ q.runs = p.runs /\ q.sent = p.sent /\ q.asked = b
    BY <1>1, <2>2, <2>3, Zenon DEF Portals
  <2> QED
    BY <2>1, <2>4, Zenon
<1>4. /\ me \in Sessions /\ me.portal = q /\ me.txn_failed = conn[c].txn_failed /\ Kin(me, conn[c])
  <2>1. me = [conn[c] EXCEPT !.portal = q]
    BY <1>1, <1>2 DEF Sessions, Asking
  <2> QED
    BY <1>1, <1>3, <2>1, Zenon DEF Sessions, Kin
<1>5. PortalOK(q)
  BY <1>1, <1>3, Zenon DEF PortalOK
<1>6. SessOK(svc, me)
  BY <1>1, <1>4, Zenon DEF SessOK, ViewOK, Kin
<1>7. Unrun(q) => q.asked
  BY <1>3, Zenon DEF Unrun
<1> QED
  BY <1>3, <1>4, <1>5, <1>6, <1>7, Zenon

LEMMA ExecuteMoves ==
  ASSUME Inv, NEW c \in Conns, NEW max \in 0..1, Execute(c, max)
  PROVE  Moved(c)
<1>1. PICK p : p = conn[c].portal
  BY Zenon
<1>2. PICK me : me = Asking(conn[c], p)
  BY Zenon
<1>3. conn[c].open /\ Roomy(svc)
  BY RoomIs, Zenon DEF Execute
<1>4. /\ Kin(me, conn[c]) /\ me.txn_failed = conn[c].txn_failed /\ SessOK(svc, me)
      /\ me.portal \in Portals /\ PortalOK(me.portal)
      /\ (Unrun(me.portal) => me.portal.asked)
  BY <1>1, <1>2, ExecuteAsks
<1>5. /\ me.reader = conn[c].reader /\ me.acked = conn[c].acked /\ me.txn_failed = conn[c].txn_failed
      /\ me.open /\ SvcOK(svc) /\ holder \in Holders /\ 0 \in Nat
  BY <1>3, <1>4, SessionIs, Zenon DEF Kin
<1>6. IF Streams(me, max) /\ me.portal.statement # "none"
      THEN \E w \in Run(c, svc, holder, me, me.portal.statement) :
             EndOfChunk(c, w.svc, w.holder,
               IF w.err THEN Fail(Streamed(w).me, w.holder, c)
               ELSE [Streamed(w).me EXCEPT !.reply = w.tx])
      ELSE \E w \in PortalAnswer(c, svc, holder, me) :
             IF w.err
             THEN EndOfChunk(c, w.svc, w.holder, Fail(w.me, w.holder, c))
             ELSE IF w.me.portal = NoPortal
             THEN \E d \in Hangup(c, w.svc, w.holder, w.me) :
                    svc' = d.svc /\ holder' = d.holder /\ conn' = [conn EXCEPT ![c] = d.me]
             ELSE EndOfChunk(c, w.svc, w.holder,
                    [Sliced(w, max).me EXCEPT !.reply = w.tx])
  BY <1>1, <1>2, Zenon DEF Execute, Asking
<1>7. ASSUME Unrun(me.portal) PROVE \A g \in Run(c, svc, holder, me, me.portal.statement) : Good(c, svc, holder, me, g)
  <2>1. me.portal.statement \in Statements
    BY <1>4, <1>7 DEF Unrun, Portals, Words
  <2> QED
    BY <1>3, <1>4, <1>5, <2>1, RunGood, Zenon
<1>8. ASSUME NEW w, NEW g, AnswersFor(w, g), Good(c, svc, holder, me, g), NEW k, Kin(k, w.me),
             PortalOK(k.portal), k.reply = 0 \/ k.reply = w.tx
      PROVE  Step(c, w.svc, w.holder, k) /\ k.open
  <2>1. /\ w.svc = g.svc /\ w.holder = g.holder /\ w.tx = g.tx /\ Kin(w.me, g.me)
    BY <1>8, Zenon DEF AnswersFor
  <2>2. Kin(k, g.me)
    BY <1>8, <2>1, KinKin, Zenon
  <2> QED
    BY <1>5, <1>8, <2>1, <2>2, Closes, Zenon
<1>9. CASE Streams(me, max) /\ me.portal.statement # "none"
  <2>1. PICK g \in Run(c, svc, holder, me, me.portal.statement) :
          EndOfChunk(c, g.svc, g.holder,
            IF g.err THEN Fail(Streamed(g).me, g.holder, c)
            ELSE [Streamed(g).me EXCEPT !.reply = g.tx])
    BY <1>6, <1>9, Zenon
  <2>2. Unrun(me.portal)
    BY <1>4, <1>9, Zenon DEF Streams, Unrun, PortalOK
  <2>3. Good(c, svc, holder, me, g) /\ me.portal.asked
    BY <1>4, <1>7, <2>2, Zenon
  <2>4. PICK w : w = Streamed(g)
    BY Zenon
  <2>5. AnswersFor(w, g)
    <3>1. CASE g.me.portal = NoPortal
      <4>1. w = g
        BY <2>4, <3>1, Zenon DEF Streamed
      <4> QED
        BY <1>4, <2>3, <4>1, AnswersItself, Zenon
    <3>2. CASE g.me.portal # NoPortal
      <4>1. g.me.portal = me.portal
        BY <2>3, <3>2, Zenon DEF Good
      <4>2. PICK q : q = Sent(me.portal, g)
        BY Zenon
      <4>3. w = Put(g, q)
        BY <2>4, <3>2, <4>1, <4>2 DEF Streamed, Put
      <4>4. q \in {Held(me.portal, g), Sent(me.portal, g)}
        BY <4>2, Zenon
      <4> QED
        BY <1>4, <2>2, <2>3, <3>2, <4>3, <4>4, PortalRan
    <3> QED
      BY <3>1, <3>2, Zenon
  <2>6. PICK k : k = IF g.err THEN Fail(w.me, g.holder, c) ELSE [w.me EXCEPT !.reply = g.tx]
    BY Zenon
  <2>7. EndOfChunk(c, g.svc, g.holder, k)
    BY <2>1, <2>4, <2>6, Zenon
  <2>8. /\ w.me \in Sessions /\ w.svc = g.svc /\ w.holder = g.holder /\ w.tx = g.tx
        /\ PortalOK(w.me.portal)
    BY <2>5, Zenon DEF AnswersFor, Kin
  <2>9. g.tx \in Nat
    BY <2>3 DEF Good, Results
  <2>10. Kin(k, w.me) /\ k.portal = w.me.portal /\ (k.reply = 0 \/ k.reply = w.tx)
    <3>1. CASE g.err
      <4>1. k = Fail(w.me, g.holder, c)
        BY <2>6, <3>1, Zenon
      <4> QED
        BY <2>8, <4>1, FailKin
    <3>2. CASE ~g.err
      <4>1. k = [w.me EXCEPT !.reply = g.tx]
        BY <2>6, <3>2, Zenon
      <4> QED
        BY <2>8, <2>9, <4>1, Zenon DEF Kin, Sessions
    <3> QED
      BY <3>1, <3>2, Zenon
  <2>11. Step(c, w.svc, w.holder, k) /\ k.open
    BY <1>8, <2>3, <2>5, <2>8, <2>10, Zenon
  <2> QED
    BY <2>7, <2>8, <2>11, ChunkMoves, Zenon
<1>10. CASE ~(Streams(me, max) /\ me.portal.statement # "none")
  <2>1. PICK w \in PortalAnswer(c, svc, holder, me) :
          IF w.err
          THEN EndOfChunk(c, w.svc, w.holder, Fail(w.me, w.holder, c))
          ELSE IF w.me.portal = NoPortal
          THEN \E d \in Hangup(c, w.svc, w.holder, w.me) :
                 svc' = d.svc /\ holder' = d.holder /\ conn' = [conn EXCEPT ![c] = d.me]
          ELSE EndOfChunk(c, w.svc, w.holder, [Sliced(w, max).me EXCEPT !.reply = w.tx])
    BY <1>6, <1>10, Zenon
  <2>2. PICK g : AnswersFor(w, g) /\ Good(c, svc, holder, me, g)
    BY <1>4, <1>5, <1>7, PortalAnswers, Zenon
  <2>3. w.me \in Sessions /\ w \in Results /\ PortalOK(w.me.portal)
    BY <2>2, Zenon DEF AnswersFor, Kin
  <2>4. w.tx \in Nat
    BY <2>3 DEF Results
  <2>5. CASE w.err
    <3>1. PICK k : k = Fail(w.me, w.holder, c)
      BY Zenon
    <3>2. EndOfChunk(c, w.svc, w.holder, k)
      BY <2>1, <2>5, <3>1, Zenon
    <3>3. Kin(k, w.me) /\ k.portal = w.me.portal /\ k.reply = 0
      BY <2>3, <3>1, FailKin
    <3>4. Step(c, w.svc, w.holder, k) /\ k.open
      BY <1>8, <2>2, <2>3, <3>3, Zenon
    <3> QED
      BY <3>2, <3>4, ChunkMoves, Zenon
  <2>6. CASE ~w.err /\ w.me.portal = NoPortal
    <3>1. PICK d \in Hangup(c, w.svc, w.holder, w.me) :
            svc' = d.svc /\ holder' = d.holder /\ conn' = [conn EXCEPT ![c] = d.me]
      BY <2>1, <2>6, Zenon
    <3>2. PICK k : k = [w.me EXCEPT !.reply = 0]
      BY Zenon
    <3>3. Kin(k, w.me) /\ k.portal = w.me.portal /\ k.reply = 0
      BY <1>5, <2>3, <3>2, Zenon DEF Kin, Sessions
    <3>4. Step(c, w.svc, w.holder, k) /\ w.me.reader = k.reader
      BY <1>8, <2>2, <2>3, <3>3, Zenon DEF Kin
    <3>5. Step(c, d.svc, d.holder, d.me)
      BY <3>4, HangupSteps, Zenon
    <3> QED
      BY <3>1, <3>5, Zenon DEF Moved
  <2>7. CASE ~w.err /\ w.me.portal # NoPortal
    <3>1. PICK s : s = Sliced(w, max)
      BY Zenon
    <3>2. PICK k : k = [s.me EXCEPT !.reply = w.tx]
      BY Zenon
    <3>3. EndOfChunk(c, w.svc, w.holder, k)
      BY <2>1, <2>7, <3>1, <3>2, Zenon
    <3>4. Kin(s.me, w.me) /\ PortalOK(s.me.portal)
      BY <2>3, <3>1, SlicedKin, Zenon
    <3>5. Kin(k, s.me) /\ k.portal = s.me.portal /\ k.reply = w.tx
      BY <2>4, <3>2, <3>4, Zenon DEF Kin, Sessions
    <3>6. Kin(k, w.me) /\ PortalOK(k.portal)
      BY <3>4, <3>5, KinKin, Zenon
    <3>7. Step(c, w.svc, w.holder, k) /\ k.open
      BY <1>8, <2>2, <3>5, <3>6, Zenon
    <3> QED
      BY <3>3, <3>7, ChunkMoves, Zenon
  <2> QED
    BY <2>5, <2>6, <2>7, Zenon
<1> QED
  BY <1>9, <1>10, Zenon
-----------------------------------------------------------------------------
(* The invariant and the steps. *)

LEMMA NextMoves ==
  ASSUME Inv, Next
  PROVE  \E c \in Conns : Moved(c)
<1>1. PICK c \in Conns : Connect(c) \/ Message(c) \/ Terminate(c) \/ Idle(c)
  BY Zenon DEF Next
<1>2. Programs[c] \subseteq Statements /\ Prepares[c] \subseteq Statements
  BY PgAssumption
<1>3. ASSUME Message(c) PROVE Moved(c)
  <2>1. CASE \E s \in Programs[c] : Query(c, s)
    BY <1>2, <2>1, QueryMoves, Zenon
  <2>2. CASE \E s \in Prepares[c] : Parse(c, s)
    BY <1>2, <2>2, ParseMoves, Zenon
  <2>3. CASE \E max \in 0..1 : Execute(c, max)
    BY <2>3, ExecuteMoves, Zenon
  <2> QED
    BY <1>3, <2>1, <2>2, <2>3, BindMoves, DescribeStatementMoves, DescribeMoves, CloseMoves, SyncMoves, Zenon
       DEF Message
<1> QED
  BY <1>1, <1>3, ConnectMoves, TerminateMoves, IdleMoves, Zenon

(* Connections beside the one that moved, and the one that did. *)
LEMMA Beheld ==
  ASSUME Inv, NEW c \in Conns, NEW m, Step(c, svc', holder', m), conn' = [conn EXCEPT ![c] = m]
  PROVE  /\ m \in Sessions /\ Turn(svc, conn[c].reader, svc', m.reader)
         /\ conn'[c] = m /\ conn' \in [Conns -> Sessions]
         /\ \A d \in Conns : d # c => conn'[d] = conn[d]
<1>1. m \in Sessions /\ Turn(svc, conn[c].reader, svc', m.reader)
  BY Zenon DEF Step, SessOK
<1>2. conn \in [Conns -> Sessions]
  BY Zenon DEF Inv
<1> QED
  BY <1>1, <1>2

LEMMA Others ==
  ASSUME Inv, NEW c \in Conns, NEW y, Turn(svc, conn[c].reader, svc', y), NEW d \in Conns, d # c
  PROVE  /\ SessOK(svc', conn[d]) /\ (conn[d].reader # 0 => svc'.at[conn[d].reader] = svc.at[conn[d].reader])
         /\ (conn[d].reader = y => y = 0)
<1>1. /\ SvcOK(svc) /\ SessOK(svc, conn[d]) /\ conn[d] \in Sessions /\ ViewOK(svc, conn[d])
      /\ Mine(svc, conn[d].reader) /\ ViewOK(svc, conn[c]) /\ conn[c] \in Sessions
  BY SessionIs, Zenon
<1>2. conn[d].reader = conn[c].reader => conn[d].reader = 0
  BY Zenon DEF Inv, OwnViews
<1>3. ViewOK(svc', conn[d]) /\ (conn[d].reader # 0 => svc'.at[conn[d].reader] = svc.at[conn[d].reader])
  <2>1. CASE conn[d].reader = 0
    <3>1. conn[d].reader_at = 0
      BY <1>1, <2>1, Numbers, Zenon DEF ViewOK
    <3> QED
      BY <2>1, <3>1, Zenon DEF ViewOK
  <2>2. CASE conn[d].reader # 0
    BY <1>1, <1>2, <2>2, ViewKept, Zenon
  <2> QED
    BY <2>1, <2>2, Zenon
<1>4. SessOK(svc', conn[d])
  BY <1>1, <1>3, SessMoves, Zenon DEF SessOK
<1>5. ASSUME conn[d].reader = y, y # 0 PROVE FALSE
  <2>1. y \in {0, conn[c].reader} \/ svc.next_serial <= y
    BY Zenon DEF Turn
  <2>2. y < svc.next_serial /\ y \in Nat /\ svc.next_serial \in Nat
    BY <1>1, <1>5, Numbers, Zenon DEF Mine
  <2> QED
    BY <1>2, <1>5, <2>1, <2>2
<1> QED
  BY <1>3, <1>4, <1>5, Zenon

LEMMA MovedKeeps ==
  ASSUME Inv, NEW c \in Conns, Moved(c)
  PROVE  Inv'
<1>1. PICK m : Step(c, svc', holder', m) /\ conn' = [conn EXCEPT ![c] = m]
  BY Zenon DEF Moved
<1>2. /\ m \in Sessions /\ Turn(svc, conn[c].reader, svc', m.reader) /\ conn'[c] = m
      /\ conn' \in [Conns -> Sessions]
      /\ \A d \in Conns : d # c => conn'[d] = conn[d]
  BY <1>1, Beheld, Zenon
<1>3. SvcOK(svc') /\ holder' \in Holders
  BY <1>1, <1>2, Zenon DEF Step, Turn
<1>4. \A d \in Conns : SessOK(svc', conn'[d]) /\ PortalOK(conn'[d].portal) /\ (~conn'[d].open => conn'[d] = Closed)
  <2>1. ASSUME NEW d \in Conns, d # c
        PROVE  SessOK(svc', conn'[d]) /\ PortalOK(conn'[d].portal) /\ (~conn'[d].open => conn'[d] = Closed)
    BY <1>2, <2>1, Others, SessionIs, Zenon
  <2>2. SessOK(svc', m) /\ PortalOK(m.portal) /\ (~m.open => m = Closed)
    BY <1>1, Zenon DEF Step
  <2> QED
    BY <1>2, <2>1, <2>2, Zenon
<1>5. \A d, e \in Conns : d # e /\ conn'[d].reader = conn'[e].reader => conn'[d].reader = 0
  <2>1. \A d, e \in Conns : d # e /\ conn[d].reader = conn[e].reader => conn[d].reader = 0
    BY Zenon DEF Inv, OwnViews
  <2>2. \A d \in Conns : d # c /\ conn[d].reader = m.reader => m.reader = 0
    BY <1>2, Others, Zenon
  <2> QED
    BY <1>2, <2>1, <2>2, Zenon
<1>6. ASSUME NEW n \in Serials, svc'.at[n] # 0
      PROVE  n = svc'.published \/ \E d \in Conns : conn'[d].reader = n
  <2>1. CASE n = m.reader
    BY <1>2, <2>1, Zenon
  <2>2. CASE n < svc.next_serial /\ n # svc.published /\ n # conn[c].reader
    <3>1. svc.at[n] # 0
      BY <1>2, <1>6, <2>2, Zenon DEF Turn
    <3>2. PICK d \in Conns : conn[d].reader = n
      BY <2>2, <3>1, Zenon DEF Inv, OwnViews
    <3> QED
      BY <1>2, <2>2, <3>2, Zenon
  <2> QED
    BY <1>2, <1>6, <2>1, <2>2, Zenon DEF Turn
<1>7. holder' # NoOne => conn'[holder'].open
  <2>1. holder # NoOne => conn[holder].open
    BY Zenon DEF Inv, WriterLeftClean
  <2>2. holder' = holder \/ holder' = c \/ holder' = NoOne
    BY <1>1, Zenon DEF Step, Blocks
  <2>3. holder' = c => m.open
    BY <1>1, Zenon DEF Step
  <2>4. holder' # NoOne => holder' \in Conns
    BY <1>3, Zenon DEF Holders
  <2> QED
    BY <1>2, <2>1, <2>2, <2>3, <2>4, Zenon
<1>8. holder' = NoOne => svc'.work = 0 \/ svc'.failed
  <2>1. Clean(svc, holder)
    BY Zenon DEF Inv, WriterLeftClean, Clean
  <2>2. Clean(svc', holder')
    BY <1>1, <2>1, Zenon DEF Step, Blocks
  <2> QED
    BY <2>2, Zenon DEF Clean
<1> QED
  BY <1>2, <1>3, <1>4, <1>5, <1>6, <1>7, <1>8, Zenon DEF Inv, SessionOK, OwnViews, WriterLeftClean

LEMMA MovedAtomic ==
  ASSUME Inv, NEW c \in Conns, Moved(c)
  PROVE  Atomic
<1>1. Blocks(c, svc, holder, conn[c].txn_failed, svc', holder')
  BY Zenon DEF Moved, Step
<1>2. c # NoOne /\ \A d \in Conns : d # NoOne
  BY ConnIs, Zenon
<1>3. \A d \in Conns : holder = d /\ conn[d].txn_failed => svc'.tx = svc.tx
  BY <1>1, <1>2, Zenon DEF Blocks
<1>4. ASSUME holder # NoOne, holder' = holder, svc.work > 0
      PROVE  svc'.tx = svc.tx /\ svc.work <= svc'.work
  <2>1. CASE holder = c
    BY <1>1, <1>4, <2>1, Zenon DEF Blocks
  <2>2. CASE holder # c
    <3>1. svc'.tx = svc.tx /\ svc'.work = svc.work
      BY <1>1, <1>4, <2>2 DEF Blocks
    <3>2. svc.work <= svc.work
      BY Numbers DEF Inv
    <3> QED
      BY <3>1, <3>2, Zenon
  <2> QED
    BY <2>1, <2>2, Zenon
<1> QED
  BY <1>3, <1>4 DEF Atomic

LEMMA MovedForward ==
  ASSUME Inv, NEW c \in Conns, Moved(c)
  PROVE  Forward
<1>1. PICK m : Step(c, svc', holder', m) /\ conn' = [conn EXCEPT ![c] = m]
  BY Zenon DEF Moved
<1>2. /\ m \in Sessions /\ Turn(svc, conn[c].reader, svc', m.reader) /\ conn'[c] = m
      /\ conn' \in [Conns -> Sessions]
      /\ \A d \in Conns : d # c => conn'[d] = conn[d]
  BY <1>1, Beheld, Zenon
<1>3. SvcOK(svc) /\ SvcOK(svc')
  BY <1>2, SessionIs, Zenon DEF Turn
<1>4. /\ svc.at \in [Serials -> Nat] /\ svc'.at \in [Serials -> Nat] /\ svc.tx \in Nat
      /\ \A n \in Serials : svc.at[n] <= svc.tx /\ svc.at[n] \in Nat /\ svc'.at[n] \in Nat
  BY <1>3, Numbers DEF SvcOK
<1>5. ASSUME NEW d \in Conns, conn[d].reader # 0, conn'[d].reader # 0
      PROVE  svc.at[conn[d].reader] <= svc'.at[conn'[d].reader]
  <2>1. conn[d].reader \in Serials
    BY <1>3, <1>5, SessionIs, MineOf, Zenon
  <2>2. svc.at[conn[d].reader] <= svc.tx /\ svc.at[conn[d].reader] \in Nat /\ svc.tx \in Nat
        /\ svc.at[conn[d].reader] <= svc.at[conn[d].reader]
    BY <1>4, <2>1
  <2>3. CASE d # c
    BY <1>2, <1>5, <2>2, <2>3, Others, Zenon
  <2>4. CASE d = c /\ m.reader = conn[c].reader
    <3>1. svc'.at[m.reader] = svc.at[m.reader]
      BY <1>2, <2>1, <2>4, Zenon DEF Turn
    <3> QED
      BY <1>2, <2>2, <2>4, <3>1, Zenon
  <2>5. CASE d = c /\ m.reader # conn[c].reader
    <3>1. svc.tx <= svc'.at[m.reader] /\ m.reader \in Serials
      BY <1>2, <1>5, <2>5 DEF Turn
    <3>2. svc'.at[m.reader] \in Nat
      BY <1>4, <3>1
    <3>3. svc.at[conn[d].reader] <= svc'.at[m.reader]
      BY <2>2, <3>1, <3>2
    <3> QED
      BY <1>2, <2>5, <3>3, Zenon
  <2> QED
    BY <2>3, <2>4, <2>5, Zenon
<1>6. ASSUME NEW d \in Conns, Shows(d)
      PROVE  /\ svc'.at[svc'.published] <= conn'[d].reply
             /\ svc'.dirty \/ \A e \in Conns : conn[e].acked <= conn'[d].reply
  <2>1. d = c
    BY <1>2, <1>6 DEF Shows
  <2>2. m.reply # 0 /\ m.reply # conn[c].reply
    BY <1>2, <1>6, <2>1 DEF Shows
  <2>3. Shown(svc, svc', m.reply)
    BY <1>1, <2>2, Zenon DEF Step
  <2>4. \A e \in Conns : conn[e].acked \in Nat /\ conn[e].acked <= svc.tx /\ Fresh(svc, conn[e].acked)
    <3>1. \A e \in Conns : conn[e] \in Sessions /\ SessOK(svc, conn[e])
      BY SessionIs, Zenon
    <3>2. \A e \in Conns : conn[e].acked \in Nat
      BY <3>1 DEF Sessions
    <3> QED
      BY <3>1, <3>2, Zenon DEF SessOK
  <2> QED
    BY <1>2, <2>1, <2>2, <2>3, <2>4, Zenon DEF Shown
<1>7. \A d \in Conns : conn'[d].reply \in Nat /\ conn[d].acked \in Nat
  BY <1>2 DEF Inv, Sessions
<1> QED
  BY <1>5, <1>6 DEF Forward

LEMMA MovedFolds ==
  ASSUME Inv, NEW c \in Conns, Moved(c)
  PROVE  Folds
<1>1. PICK m : Step(c, svc', holder', m) /\ conn' = [conn EXCEPT ![c] = m]
  BY Zenon DEF Moved
<1>2. /\ conn'[c] = m /\ \A d \in Conns : d # c => conn'[d] = conn[d]
  BY <1>1, Beheld, Zenon
<1>3. \A d \in Conns : conn[d].acked \in Nat
  BY DEF Inv, Sessions
<1>4. ASSUME \E d \in Conns : conn'[d].acked > conn[d].acked, \A d \in Conns : conn[d].reader = 0, ~svc'.failed
      PROVE  svc'.log < FoldAt
  <2>1. conn[c].acked < m.acked
    <3>1. PICK d \in Conns : conn'[d].acked > conn[d].acked
      BY <1>4
    <3>2. d = c
      BY <1>2, <1>3, <3>1
    <3> QED
      BY <1>2, <3>1, <3>2
  <2>2. Lone(svc)
    <3>1. 0 \notin Serials
      BY DEF Serials
    <3> QED
      BY <1>4, <3>1, Zenon DEF Lone, Inv, OwnViews
  <2> QED
    BY <1>1, <1>4, <2>1, <2>2, Zenon DEF Step, Told
<1> QED
  BY <1>4, Zenon DEF Folds

(* Nothing has happened yet. *)
LEMMA InitInv ==
  ASSUME Init
  PROVE  Inv
<1>1. svc = Service0(0) /\ holder = NoOne /\ conn = [c \in Conns |-> Closed]
  BY DEF Init
<1>2. /\ svc \in ServiceState /\ svc.elapsed /\ svc.work = 0 /\ svc.published = 1 /\ svc.next_serial = 2
      /\ svc.tx = 1 /\ MaxSerial \in Nat /\ 1 \in Serials
      /\ \A n \in Serials : svc.at[n] = IF n = 1 THEN 1 ELSE 0
  BY <1>1, ServiceOpsAssumption, PgAssumption DEF Service0, ServiceState, Serials
<1>3. Cardinality(Open(svc)) <= Slots
  <2>1. Open(svc) \subseteq {} \union {1} /\ Open(svc) \in SUBSET Serials /\ {} \union {1} \in SUBSET Serials
        /\ {} \in SUBSET Serials
    BY <1>2 DEF Open
  <2>2. PICK a, b : a = Cardinality(Open(svc)) /\ b = Cardinality({} \union {1})
    BY Zenon
  <2>3. a \in Nat /\ b \in Nat /\ a <= b /\ b <= Cardinality({}) + 1
    BY <1>2, <2>1, <2>2, Counted, Zenon
  <2>4. Cardinality({}) = 0
    BY FS_EmptySet, Zenon
  <2> QED
    BY <2>2, <2>3, <2>4, ServiceOpsAssumption
<1>4. SvcOK(svc)
  <2>1. svc.work <= 1 /\ svc.published < svc.next_serial /\ svc.next_serial <= MaxSerial + 1
    BY <1>2 DEF Serials
  <2>2. \A n \in Serials : svc.at[n] <= svc.tx /\ (svc.next_serial <= n => svc.at[n] = 0)
    BY <1>2 DEF Serials
  <2> QED
    BY <1>2, <1>3, <2>1, <2>2, Zenon DEF SvcOK
<1>5. \A c \in Conns : conn[c] = Closed
  BY <1>1, Zenon
<1>6. conn \in [Conns -> Sessions] /\ holder \in Holders
  BY <1>1, ClosedIs DEF Holders
<1>7. \A c \in Conns : SessionOK(c)
  BY <1>4, <1>5, ClosedIs, NewSession, NothingBound, Zenon DEF SessionOK
<1>8. OwnViews
  <2>1. \A n \in Serials : svc.at[n] # 0 => n = svc.published
    BY <1>2
  <2> QED
    BY <1>5, <2>1, ClosedIs, Zenon DEF OwnViews
<1>9. WriterLeftClean
  BY <1>1, <1>2, Zenon DEF WriterLeftClean
<1> QED
  BY <1>4, <1>6, <1>7, <1>8, <1>9, Zenon DEF Inv

LEMMA Stutters ==
  ASSUME Inv, UNCHANGED vars
  PROVE  Inv'
  BY Zenon DEF vars, Inv, SessionOK, OwnViews, WriterLeftClean

LEMMA InvAlways == Spec => []Inv
<1>1. Init => Inv
  BY InitInv
<1>2. Inv /\ [Next]_vars => Inv'
  BY NextMoves, MovedKeeps, Stutters, Zenon
<1> QED
  BY <1>1, <1>2, PTL DEF Spec
-----------------------------------------------------------------------------
(* The writer of the service is never left behind by a session: only an    *)
(* open connection holds it, and nothing uncommitted is left when nobody   *)
(* does, or the handle refuses writes (WriterGuard's drop, Connection's    *)
(* finish, COMMIT and the statements outside a block).                     *)
THEOREM WriterIsLeftClean == Spec => []WriterLeftClean
<1>1. Inv => WriterLeftClean
  BY DEF Inv
<1> QED
  BY <1>1, InvAlways, PTL

(* A portal's statement runs at most once over any sequence of Describe    *)
(* and Execute, a write only for an Execute; the slices of a kept answer   *)
(* add up, and one whose walk failed, with rows sent or not, keeps none    *)
(* (portal_answer, execute).                                               *)
THEOREM PortalsRunOnce == Spec => []PortalRunsOnce
<1>1. ASSUME Inv PROVE PortalRunsOnce
  <2>1. \A c \in Conns : PortalOK(conn[c].portal)
    BY <1>1, SessionIs, Zenon
  <2> QED
    BY <2>1, Zenon DEF PortalOK, PortalRunsOnce
<1> QED
  BY <1>1, InvAlways, PTL

(* The reader slots in use are the published view's and one for each       *)
(* connection that keeps a view, and never more than there are             *)
(* (refresh_reader drops the old view before it opens the new one).        *)
THEOREM OneViewForEach == Spec => []OneViewEach
<1>1. ASSUME Inv PROVE OneViewEach
  <2>1. \A c \in Conns : /\ conn[c] \in Sessions /\ conn[c].portal \in Portals
                         /\ PortalOK(conn[c].portal) /\ SessOK(svc, conn[c]) /\ conn[c].prepared \in Words
    BY <1>1, SessionIs, Zenon
  <2>2. \A c \in Conns : conn[c].portal.statement \in Words
    BY <2>1 DEF Portals
  <2>3. SvcOK(svc) /\ holder \in Holders
    BY <1>1, Zenon DEF Inv
  <2>4. \A c \in Conns : conn[c].reader # 0 => svc.at[conn[c].reader] # 0
    BY <2>1, <2>3, MineOf, Zenon DEF SessOK
  <2>5. TypeOK
    BY <2>1, <2>2, <2>3, <2>4, Zenon DEF TypeOK, PortalOK, SessOK, CursorOK, SvcOK, Holders, Words
  <2>6. Open(svc) \subseteq {svc.published} \union {conn[c].reader : c \in Conns}
    BY <1>1, Zenon DEF Open, Inv, OwnViews
  <2> QED
    BY <2>3, <2>5, <2>6, Zenon DEF OneViewEach, SvcOK
<1> QED
  BY <1>1, InvAlways, PTL

(* A block is published whole by its COMMIT or not at all, whatever the    *)
(* other sessions do (write_statement, the transaction arms of             *)
(* session_statement, `fail`).                                             *)
THEOREM BlocksAreAtomic == Spec => BlockIsAtomic
<1>1. Inv /\ [Next]_vars => [Atomic]_vars
  BY NextMoves, MovedAtomic, Zenon
<1> QED
  BY <1>1, InvAlways, PTL DEF Spec, BlockIsAtomic

(* Reads outside a block go forward, and show what any client was told of  *)
(* before, or the service is left marked dirty (refresh_reader over        *)
(* publish_if_due).                                                        *)
THEOREM ReadsGoForward == Spec => ReadsForward
<1>1. Inv /\ [Next]_vars => [Forward]_vars
  BY NextMoves, MovedForward, Zenon
<1> QED
  BY <1>1, InvAlways, PTL DEF Spec, ReadsForward

(* A commit that finds no session with a view leaves no log that is due,   *)
(* unless its checkpoint failed (fold_if_due and the idle poll).           *)
THEOREM FoldsOnceLetGo == Spec => FoldsWhenLetGo
<1>1. Inv /\ [Next]_vars => [Folds]_vars
  BY NextMoves, MovedFolds, Zenon
<1> QED
  BY <1>1, InvAlways, PTL DEF Spec, FoldsWhenLetGo
=============================================================================
