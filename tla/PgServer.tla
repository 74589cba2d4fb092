------------------------------ MODULE PgServer ------------------------------
(***************************************************************************)
(* Sessions of the PostgreSQL wire surface (dist/src/pg) over one          *)
(* ServiceDatabase: transaction blocks as the held writer, the private     *)
(* read view a connection keeps between statements, prepared statements,   *)
(* portals, cursors, and the recovery rule of the extended protocol.       *)
(*                                                                         *)
(* A step is one statement or one protocol message of one connection; the  *)
(* writer is taken with try_writer, so no statement waits for another      *)
(* connection.  A statement is told apart by what the session does with    *)
(* it, and its answer by the transaction it shows and its number of rows.  *)
(* The publish interval is the server's own, zero.                         *)
(***************************************************************************)
EXTENDS ServiceOps

CONSTANTS
  Conns,      \* connections
  Programs,   \* the statements a connection's client sends in a Query
  Prepares,   \* the statements it prepares, in the extended protocol
  AnswerRows, \* rows of the answer of a read
  MaxTx,      \* bound: transactions ever published
  Faults      \* what may fail: "read", "write", "commit", "fold", "rollback"

Statements ==
  {"read", "write", "ddl", "begin", "commit", "rollback",
   "declare", "fetch", "close", "discard"}

NoOne == "no one"

ASSUME PgAssumption ==
  /\ Programs \in [Conns -> SUBSET Statements] /\ Prepares \in [Conns -> SUBSET Statements]
  /\ IntervalZero /\ NoOne \notin Conns
  /\ AnswerRows \in Nat \ {0} /\ MaxTx \in Nat

VARIABLES
  svc,     \* ServiceDatabase and the store (ServiceOps)
  holder,  \* the connection whose open block is the held writer
  conn     \* per connection: its Connection

vars == <<svc, holder, conn>>

(* `reader` is the serial of the private view, 0 for none, `reader_at` the *)
(* one published when it was minted (0 without a view).  A portal holds    *)
(* the rows of its answer; `runs`, `asked` and `sent` are history: how     *)
(* often its statement ran, whether for an Execute, rows handed out.       *)
NoPortal == [statement |-> "none", executed |-> FALSE, refused |-> FALSE,
             held |-> 0, delivered |-> 0, runs |-> 0, asked |-> FALSE, sent |-> 0]
Bound(s) == [NoPortal EXCEPT !.statement = s]

NoCursor == [open |-> FALSE, held |-> 0, delivered |-> 0]

(* History: `reply` is the transaction that the last message's rows showed *)
(* (0 when it read nothing, or through the block's writer), `acked` that   *)
(* of the last commit the client was told of.                              *)
NewConnection ==
  [open |-> TRUE, txn_failed |-> FALSE, skip_until_sync |-> FALSE,
   reader |-> 0, reader_at |-> 0, prepared |-> "none", portal |-> NoPortal,
   cursor |-> NoCursor, reply |-> 0,
   acked |-> 0]
Closed == [NewConnection EXCEPT !.open = FALSE]

Init ==
  /\ svc = Service0(0)
  /\ holder = NoOne
  /\ conn = [c \in Conns |-> Closed]
-----------------------------------------------------------------------------
(* The service's calls, each a whole one here: nobody but the service      *)
(* keeps an Arc of the published view (a connection asks its serial).      *)
CanMint(v) == v.next_serial \in Serials

PublishLocked(v) == IF CanMint(v) /\ SlotFree(v) THEN Swapped(Minted(v), FALSE) ELSE v

Reader(v) == IF PublishDue(v) THEN PublishLocked(v) ELSE v

MutAfterCommit(v) ==
  LET w == [v EXCEPT !.fold_wanted = FALSE, !.dirty = TRUE]
  IN  IF w.elapsed THEN PublishLocked(w) ELSE w

AfterCommit(v) ==
  IF Due(v) THEN PublishLocked(Checkpointed(Released(v, FALSE)))
  ELSE LET w == [v EXCEPT !.fold_wanted = FALSE, !.dirty = TRUE]
       IN  IF w.elapsed THEN PublishLocked(w) ELSE w

RollbackOutcomes(v) ==
  {RolledBack(v)} \union
  IF "rollback" \in Faults THEN {[v EXCEPT !.failed = TRUE, !.work = 0]} ELSE {}

MutDropOutcomes(v) == {v}

(* Drop for WriterGuard. *)
DropOutcomes(v) == IF v.work > 0 THEN RollbackOutcomes(v) ELSE {v}

(* WriterGuard::commit and the drop of the guard after it: what is left,   *)
(* and whether the commit returned an error.                               *)
Failed(v) == [v EXCEPT !.failed = TRUE]

CommitOutcomes(v) ==
  IF v.failed THEN {[svc |-> d, err |-> TRUE] : d \in DropOutcomes(v)}
  ELSE (IF Appends(v) THEN {[svc |-> AfterCommit(Committed(v)), err |-> FALSE]} ELSE {})
       \union (IF Appends(v) /\ Due(Committed(v)) /\ "fold" \in Faults
               THEN {[svc |-> PublishLocked(Failed([Released(Committed(v), FALSE)
                                  EXCEPT !.fold_wanted = TRUE, !.dirty = TRUE])),
                      err |-> FALSE]} ELSE {})
       \union {[svc |-> d, err |-> TRUE] :
                 d \in UNION {DropOutcomes(Failed(w)) :
                   w \in (IF ~Appends(v) THEN {v}
                          ELSE IF "commit" \in Faults /\ v.work > 0
                          THEN {v, [v EXCEPT !.tx = @ + 1, !.log = @ + 1]} ELSE {})}}

(* Connection::refresh_reader: a view minted since the service last        *)
(* published, the old one dropped first.  The serial is spent either way.  *)
MutRefreshedStale(v, me) ==
  LET r == Reader(v)
      n == r.next_serial
  IN  IF me.reader # 0 THEN [svc |-> r, me |-> me, err |-> FALSE]
      ELSE IF SlotFree(r)
      THEN [svc |-> [Opened(r, n) EXCEPT !.next_serial = n + 1], err |-> FALSE,
            me |-> [me EXCEPT !.reader = n, !.reader_at = r.published]]
      ELSE [svc |-> [r EXCEPT !.next_serial = n + 1], err |-> TRUE, me |-> me]

MutRefreshedTwice(v, me) ==
  LET r == Reader(v)
      n == r.next_serial
  IN  IF me.reader # 0 /\ me.reader_at = r.published
      THEN [svc |-> r, me |-> me, err |-> FALSE]
      ELSE IF SlotFree(r)
      THEN [svc |-> [Opened(r, n) EXCEPT !.next_serial = n + 1], err |-> FALSE,
            me |-> [me EXCEPT !.reader = n, !.reader_at = r.published]]
      ELSE [svc |-> [r EXCEPT !.next_serial = n + 1], err |-> TRUE, me |-> me]

Refreshed(v, me) ==
  LET r == Reader(v)
      dropped == IF me.reader = 0 THEN r ELSE Dropped(r, me.reader)
      n == r.next_serial
  IN  IF me.reader # 0 /\ me.reader_at = r.published
      THEN [svc |-> r, me |-> me, err |-> FALSE]
      ELSE IF SlotFree(dropped)
      THEN [svc |-> [Opened(dropped, n) EXCEPT !.next_serial = n + 1], err |-> FALSE,
            me |-> [me EXCEPT !.reader = n, !.reader_at = r.published]]
      ELSE [svc |-> [dropped EXCEPT !.next_serial = n + 1], err |-> TRUE,
            me |-> [me EXCEPT !.reader = 0, !.reader_at = 0]]
-----------------------------------------------------------------------------
(* What one statement may do: the service, the holder of the writer, the   *)
(* connection, whether it was refused, and the transaction and the rows it *)
(* showed.                                                                 *)
Result(v, h, me, err, tx, rows) ==
  [svc |-> v, holder |-> h, me |-> me, err |-> err, tx |-> tx, rows |-> rows]

Refuse(v, h, me) == Result(v, h, me, TRUE, 0, 0)
Done(v, h, me)   == Result(v, h, me, FALSE, 0, 0)

(* Rows walked until the walk fails. *)
Broken(v, h, me) ==
  IF "read" \in Faults THEN {Result(v, h, me, TRUE, 0, n) : n \in 0..AnswerRows} ELSE {}

(* Connection::walk: through the held writer inside a block, through the   *)
(* private view outside one.                                               *)
Walk(c, v, h, me) ==
  IF h = c
  THEN IF v.failed THEN {Refuse(v, h, me)}
       ELSE {Result(v, h, me, FALSE, 0, AnswerRows)} \union Broken(v, h, me)
  ELSE LET r == Refreshed(v, me)
       IN  IF r.err THEN {Refuse(r.svc, h, r.me)}
           ELSE {Result(r.svc, h, r.me, FALSE, r.svc.at[r.me.reader], AnswerRows)}
                  \union Broken(r.svc, h, r.me)

(* WriterGuard::sql.  A block only asks whether there is uncommitted work, *)
(* so `work` is 0 or 1.  A statement may find nothing to do.  DDL commits  *)
(* what it did, and what was there before it, in steps of its own.         *)
Working(v) == [v EXCEPT !.work = 1]

Published(v, ddl) ==
  {v} \union IF ddl /\ Appends(Working(v)) THEN {Committed(Working(v))} ELSE {}

(* A refused statement leaves what its steps published, and on top of that *)
(* nothing, the writes it had made (the rows before a duplicate key), or a *)
(* handle that refuses all but a rollback.  So does a full log.            *)
Halfway(v, ddl) ==
  IF "write" \in Faults THEN UNION {{s, Working(s), Failed(Working(s))} : s \in Published(v, ddl)}
  ELSE IF ddl /\ ~Appends(Working(v)) THEN {Failed(Working(v))}
  ELSE {}

Sql(v, ddl) ==
  IF v.failed THEN {[svc |-> v, err |-> TRUE]}
  ELSE {[svc |-> s, err |-> FALSE] : s \in IF ddl THEN Published(v, ddl) ELSE {v, Working(v)}}
         \union {[svc |-> s, err |-> TRUE] : s \in Halfway(v, ddl)}

(* Connection::write_statement. *)
MutDdlInBlock(v, ddl) == FALSE

DdlInBlock(v, ddl) == ddl /\ v.work > 0

(* An INSERT may return the rows it wrote, typed on the refreshed view. *)
Answered(r, ddl) ==
  IF ddl THEN {r}
  ELSE LET f == Refreshed(r.svc, r.me)
       IN  {r, Result(f.svc, r.holder, f.me, FALSE, 0, 1)}

WriteStatement(c, v, h, me, ddl) ==
  IF h = c
  THEN IF DdlInBlock(v, ddl) THEN {Refuse(v, h, me)}
       ELSE UNION {IF s.err THEN {Refuse(s.svc, h, me)}
                   ELSE Answered(Done(s.svc, h, me), ddl) : s \in Sql(v, ddl)}
  ELSE IF h # NoOne THEN {Refuse(v, h, me)}
  ELSE UNION {IF s.err THEN {Refuse(d, h, me) : d \in DropOutcomes(s.svc)}
              ELSE UNION {IF k.err THEN {Refuse(k.svc, h, me)}
                          ELSE Answered(Done(k.svc, h, [me EXCEPT !.acked = k.svc.tx]), ddl)
                            : k \in CommitOutcomes(s.svc)}
              : s \in Sql(v, ddl)}
-----------------------------------------------------------------------------
(* BEGIN, COMMIT and ROLLBACK.  COMMIT of a failed block rolls it back;    *)
(* the guard is taken out of the session first, whatever comes of it.      *)
Begin(c, v, h, me) ==
  IF h = c THEN {Done(v, h, me)}
  ELSE IF h = NoOne THEN {Done(v, c, [me EXCEPT !.txn_failed = FALSE])}
  ELSE {Refuse(v, h, me)}

Free(h, c) == IF h = c THEN NoOne ELSE h

Commit(c, v, h, me) ==
  LET well == [me EXCEPT !.txn_failed = FALSE]
  IN  IF h # c THEN {Done(v, h, well)}
      ELSE IF me.txn_failed THEN {Done(d, NoOne, well) : d \in RollbackOutcomes(v)}
      ELSE {IF k.err THEN Refuse(k.svc, NoOne, me)
            ELSE Done(k.svc, NoOne, [well EXCEPT !.acked = k.svc.tx])
              : k \in CommitOutcomes(v)}

Rollback(c, v, h, me) ==
  LET well == [me EXCEPT !.txn_failed = FALSE]
  IN  IF h # c THEN {Done(v, h, well)}
      ELSE {IF d.failed THEN Refuse(d, NoOne, me) ELSE Done(d, NoOne, well)
              : d \in RollbackOutcomes(v)}

(* DECLARE holds the whole answer, FETCH and MOVE hand out slices of it. *)
Declare(c, v, h, me) ==
  IF me.cursor.open THEN {Refuse(v, h, me)}
  ELSE {IF w.err THEN w
        ELSE [w EXCEPT !.me.cursor = [open |-> TRUE, held |-> w.rows, delivered |-> 0], !.rows = 0]
          : w \in Walk(c, v, h, me)}

Slice(held, delivered, n) == IF delivered + n < held THEN delivered + n ELSE held

Fetch(v, h, me) ==
  IF ~me.cursor.open THEN {Refuse(v, h, me)}
  ELSE {LET end == Slice(me.cursor.held, me.cursor.delivered, n)
        IN  Result(v, h, [me EXCEPT !.cursor.delivered = end], FALSE, 0, end - me.cursor.delivered)
          : n \in 1..AnswerRows}

CloseCursor(v, h, me) ==
  {IF me.cursor.open THEN Done(v, h, [me EXCEPT !.cursor = NoCursor]) ELSE Refuse(v, h, me)}

Discard(v, h, me) ==
  {Done(v, h, [me EXCEPT !.portal = NoPortal, !.cursor = NoCursor, !.prepared = "none"])}

(* session_statement, then run_streaming or run_buffered.  A failed block  *)
(* refuses everything that does not end it.                                *)
RefusedByBlock(me, s) == me.txn_failed /\ s \notin {"commit", "rollback"}

Run(c, v, h, me, s) ==
  IF RefusedByBlock(me, s) THEN {Refuse(v, h, me)}
  ELSE CASE s = "read"     -> Walk(c, v, h, me)
         [] s = "write"    -> WriteStatement(c, v, h, me, FALSE)
         [] s = "ddl"      -> WriteStatement(c, v, h, me, TRUE)
         [] s = "begin"    -> Begin(c, v, h, me)
         [] s = "commit"   -> Commit(c, v, h, me)
         [] s = "rollback" -> Rollback(c, v, h, me)
         [] s = "declare"  -> Declare(c, v, h, me)
         [] s = "fetch"    -> Fetch(v, h, me)
         [] s = "close"    -> CloseCursor(v, h, me)
         [] s = "discard"  -> Discard(v, h, me)
-----------------------------------------------------------------------------
(* Room for what a message may publish, under the bounds. *)
Room(s) ==
  /\ svc.next_serial + 2 <= MaxSerial
  /\ s \in {"write", "ddl", "commit"} => svc.tx < MaxTx

(* `fail`: the block the session is in, if it still is in one, has failed, *)
(* and the extended protocol skips to the next Sync.                       *)
Fail(me, h, c) ==
  [me EXCEPT !.txn_failed = @ \/ h = c, !.skip_until_sync = TRUE, !.reply = 0]

(* The end of `feed` and the server's idle poll: the view goes if a fold   *)
(* waits for it.  A client may have sent more in the same chunk.           *)
LetGo(c, v, me) ==
  IF v.fold_wanted /\ me.reader # 0
  THEN [svc |-> Dropped(v, me.reader), me |-> [me EXCEPT !.reader = 0, !.reader_at = 0]]
  ELSE [svc |-> v, me |-> me]

EndOfChunk(c, v, h, me) ==
  \E e \in {LetGo(c, v, me), [svc |-> v, me |-> me]} :
     svc' = e.svc /\ holder' = h /\ conn' = [conn EXCEPT ![c] = e.me]

Connect(c) ==
  /\ ~conn[c].open
  /\ conn' = [conn EXCEPT ![c] = NewConnection]
  /\ UNCHANGED <<svc, holder>>

(* A statement of a simple Query.  Its error is over with the Query. *)
Query(c, s) ==
  /\ conn[c].open /\ ~conn[c].skip_until_sync /\ Room(s)
  /\ \E r \in Run(c, svc, holder, conn[c], s) :
       EndOfChunk(c, r.svc, r.holder,
         IF r.err THEN [Fail(r.me, r.holder, c) EXCEPT !.skip_until_sync = FALSE]
                  ELSE [r.me EXCEPT !.reply = r.tx])

Parse(c, s) ==
  /\ conn[c].open /\ ~conn[c].skip_until_sync
  /\ EndOfChunk(c, svc, holder, [conn[c] EXCEPT !.prepared = s, !.reply = 0])

Bind(c) ==
  /\ conn[c].open /\ ~conn[c].skip_until_sync
  /\ EndOfChunk(c, svc, holder,
       IF conn[c].prepared = "none" THEN Fail(conn[c], holder, c)
       ELSE [conn[c] EXCEPT !.portal = Bound(conn[c].prepared), !.reply = 0])

(* The portal after the run of its statement: the answer is held, or the   *)
(* rows before an error are thrown away.                                   *)
Held(p, w) ==
  [p EXCEPT !.executed = TRUE, !.refused = w.err, !.runs = @ + 1,
            !.held = IF w.err THEN 0 ELSE w.rows]

(* portal_answer: run the bound statement once and hold what it answered.  *)
(* The statement may have discarded the portal it is bound to, which ends  *)
(* the connection's thread.                                                *)
MutPortalAnswer(c, v, h, me) ==
  IF me.portal.statement = "none" \/ me.portal.refused THEN {Refuse(v, h, me)}
  ELSE {IF w.me.portal = NoPortal THEN w
        ELSE [w EXCEPT !.me.portal = Held(@, w)]
          : w \in Run(c, v, h, me, me.portal.statement)}

PortalAnswer(c, v, h, me) ==
  IF me.portal.statement = "none" \/ me.portal.refused THEN {Refuse(v, h, me)}
  ELSE IF me.portal.executed THEN {Done(v, h, me)}
  ELSE {IF w.me.portal = NoPortal THEN w
        ELSE [w EXCEPT !.me.portal = Held(@, w)]
          : w \in Run(c, v, h, me, me.portal.statement)}

(* `finish` and the drop of a Connection: an open block rolls back, and    *)
(* the view goes.                                                          *)
Hangup(c, v, h, me) == {[svc |-> d, holder |-> Free(h, c), me |-> Closed] :
  d \in LET w == IF me.reader = 0 THEN v ELSE Dropped(v, me.reader)
        IN  IF h = c THEN RollbackOutcomes(w) ELSE {w}}

(* Describe of a portal: from the statement compiled on the connection's   *)
(* own view.  A read that cannot be compiled there (no view to be had, or  *)
(* a table that only the open block knows) is run and held.                *)
RunsToDescribe(fresh, s, err, block) == ~fresh \/ (s = "read" /\ (err \/ block))

Described(c, s) ==
  IF s \in {"read", "write"} THEN Refreshed(svc, conn[c])
  ELSE [svc |-> svc, me |-> conn[c], err |-> FALSE]

DescribeStatement(c) ==
  /\ conn[c].open /\ ~conn[c].skip_until_sync /\ Room("read")
  /\ LET r == Described(c, conn[c].prepared)
     IN  EndOfChunk(c, r.svc, holder,
           IF conn[c].prepared = "none" THEN Fail(r.me, holder, c)
           ELSE [r.me EXCEPT !.reply = 0])

Describe(c) ==
  /\ conn[c].open /\ ~conn[c].skip_until_sync /\ Room(conn[c].portal.statement)
  /\ LET p == conn[c].portal
         fresh == p.statement # "none" /\ ~p.executed /\ ~p.refused
         r == Described(c, IF fresh THEN p.statement ELSE "none")
     IN  \/ /\ fresh /\ (p.statement = "read" => ~r.err)
            /\ EndOfChunk(c, r.svc, holder, [r.me EXCEPT !.reply = 0])
         \/ /\ RunsToDescribe(fresh, p.statement, r.err, holder = c)
            /\ \E w \in PortalAnswer(c, r.svc, holder, r.me) :
                 EndOfChunk(c, w.svc, w.holder,
                   IF w.err THEN Fail(w.me, w.holder, c)
                            ELSE [w.me EXCEPT !.reply = 0])

(* Execute with no row limit on a portal that has not run streams and      *)
(* holds nothing, and the rows before an error have gone out; any other    *)
(* hands out a slice of the held answer.  `max` is the limit, 0 for none.  *)
Streams(me, max) == max = 0 /\ ~me.portal.executed

Sent(p, w) ==
  [p EXCEPT !.executed = TRUE, !.refused = w.err, !.runs = @ + 1, !.sent = w.rows]

Streamed(w) == IF w.me.portal = NoPortal THEN w ELSE [w EXCEPT !.me.portal = Sent(@, w)]

Sliced(w, max) ==
  LET p == w.me.portal
      end == IF max = 0 THEN p.held ELSE Slice(p.held, p.delivered, max)
  IN  [w EXCEPT !.me.portal = [p EXCEPT !.delivered = end, !.sent = @ + end - p.delivered]]

Execute(c, max) ==
  /\ conn[c].open /\ ~conn[c].skip_until_sync /\ Room(conn[c].portal.statement)
  /\ LET p == conn[c].portal
         me == [conn[c] EXCEPT !.portal.asked = p.asked \/ (p.statement # "none" /\ ~p.executed)]
     IN  IF Streams(me, max) /\ me.portal.statement # "none"
         THEN \E w \in Run(c, svc, holder, me, me.portal.statement) :
                EndOfChunk(c, w.svc, w.holder,
                  IF w.err THEN Fail(Streamed(w).me, w.holder, c)
                  ELSE [Streamed(w).me EXCEPT !.reply = w.tx])
         ELSE \E w \in PortalAnswer(c, svc, holder, me) :
                IF w.err
                THEN EndOfChunk(c, w.svc, w.holder, Fail(w.me, w.holder, c))
                ELSE IF w.me.portal = NoPortal
                THEN \E d \in Hangup(c, w.svc, w.holder, w.me) :
                       svc' = d.svc /\ holder' = d.holder /\ conn' = [conn EXCEPT ![c] = d.me]
                ELSE EndOfChunk(c, w.svc, w.holder,
                       [Sliced(w, max).me EXCEPT !.reply = w.tx])

CloseMessage(c) ==
  /\ conn[c].open /\ ~conn[c].skip_until_sync
  /\ \E me \in {[conn[c] EXCEPT !.prepared = "none"], [conn[c] EXCEPT !.portal = NoPortal]} :
       EndOfChunk(c, svc, holder, [me EXCEPT !.reply = 0])

Sync(c) ==
  /\ conn[c].open
  /\ EndOfChunk(c, svc, holder,
       [conn[c] EXCEPT !.skip_until_sync = FALSE, !.reply = 0])

(* Terminate, a dropped socket, a shutdown of the server: finish, and the  *)
(* connection's view and subscriptions go with it.                         *)
Terminate(c) ==
  /\ conn[c].open
  /\ \E d \in Hangup(c, svc, holder, conn[c]) :
       svc' = d.svc /\ holder' = d.holder /\ conn' = [conn EXCEPT ![c] = d.me]

(* The server's read poll on a connection that waits for its client. *)
Idle(c) ==
  /\ conn[c].open
  /\ LET e == LetGo(c, svc, conn[c]) IN svc' = e.svc /\ conn' = [conn EXCEPT ![c] = e.me]
  /\ UNCHANGED holder

Message(c) ==
  \/ \E s \in Programs[c] : Query(c, s)
  \/ /\ Prepares[c] # {}
     /\ \/ \E s \in Prepares[c] : Parse(c, s)
        \/ Bind(c) \/ DescribeStatement(c) \/ Describe(c) \/ CloseMessage(c) \/ Sync(c)
        \/ \E max \in 0..1 : Execute(c, max)

Next == \E c \in Conns : Connect(c) \/ Message(c) \/ Terminate(c) \/ Idle(c)

Spec == Init /\ [][Next]_vars
-----------------------------------------------------------------------------
(* Types; and a view of a connection is an open handle of the store. *)
TypeOK ==
  /\ svc \in ServiceState
  /\ holder \in Conns \union {NoOne}
  /\ \A c \in Conns :
       /\ conn[c].portal.statement \in Statements \union {"none"}
       /\ conn[c].prepared \in Statements \union {"none"}
       /\ conn[c].portal.delivered <= conn[c].portal.held
       /\ conn[c].cursor.delivered <= conn[c].cursor.held
       /\ conn[c].reader # 0 => svc.at[conn[c].reader] # 0

(* Never more views than reader slots, and one connection never has two:   *)
(* the slots are the published view's and one per connection's view.       *)
OneViewEach ==
  /\ TypeOK
  /\ Cardinality(Open(svc)) <= Slots
  /\ Open(svc) \subseteq {svc.published} \union {conn[c].reader : c \in Conns}

(* The writer is never left behind: only an open connection holds it, and  *)
(* whoever takes it next inherits nothing, unless the handle refuses every *)
(* write until a rollback (a dropped socket, a failed COMMIT, a refused    *)
(* statement outside a block).                                             *)
WriterLeftClean ==
  /\ holder # NoOne => conn[holder].open
  /\ holder = NoOne => svc.work = 0 \/ svc.failed

(* What a step may do to an open block. *)
Atomic ==
  /\ \A c \in Conns : holder = c /\ conn[c].txn_failed => svc'.tx = svc.tx
  /\ holder # NoOne /\ holder' = holder /\ svc.work > 0
       => svc'.tx = svc.tx /\ svc'.work >= svc.work

(* A block is published whole by its COMMIT or not at all: once one of its *)
(* statements has failed, no step of that session publishes a transaction  *)
(* until the block is over, its end included (COMMIT answers ROLLBACK);    *)
(* and as long as the block stays open, a transaction published in it had  *)
(* none of its writes (DDL commits on its own, and is refused after one).  *)
BlockIsAtomic == [][Atomic]_vars

Shows(c) == conn'[c].reply \notin {0, conn[c].reply}

(* What a step may do to a session's view and show in a reply. *)
Forward ==
  \A c \in Conns :
    LET was == conn[c].reader  is == conn'[c].reader
    IN  /\ was # 0 /\ is # 0 => svc'.at[is] >= svc.at[was]
        /\ Shows(c) =>
             /\ conn'[c].reply >= svc'.at[svc'.published]
             /\ svc'.dirty \/ \A d \in Conns : conn'[c].reply >= conn[d].acked

(* Reads go forward: the transaction a read outside a block shows is never *)
(* older than what an earlier one of the session showed, nor than the view *)
(* the service publishes.  And read committed, the publish interval being  *)
(* zero: it shows every commit that any client was told of before it,      *)
(* unless the service could not mint a view for want of a slot, which      *)
(* leaves it marked dirty.                                                 *)
ReadsForward == [][Forward]_vars

(* What WIRE_CONTRACT says of a publish interval of zero: a client reads   *)
(* its own writes on the next statement.  Of one client alone, for which   *)
(* every transaction that the store has published is one of its own (DDL   *)
(* included, which no ROLLBACK undoes).                                    *)
OwnWritesRead ==
  [][\A c \in Conns : Conns = {c} /\ Shows(c) => conn'[c].reply = svc.tx]_vars

(* A portal's statement runs at most once, however often the portal is     *)
(* described and executed, and a statement that writes runs only when an   *)
(* Execute asked for it (not in a Describe).  The slices of its answer add *)
(* up: the rows sent so far are the rows delivered, each once.  A walk     *)
(* that fails may have sent rows; the portal then holds none, and sends    *)
(* none of a second run.                                                   *)
PortalRunsOnce ==
  \A c \in Conns :
    LET p == conn[c].portal
    IN  /\ p.runs <= 1
        /\ p.statement # "read" => p.runs = 0 \/ p.asked
        /\ p.sent <= AnswerRows
        /\ p.held > 0 => p.sent = p.delivered
        /\ p.refused => p.held = 0

(* What a commit that is told of leaves of the log. *)
Folds ==
  /\ \E c \in Conns : conn'[c].acked > conn[c].acked
  /\ \A c \in Conns : conn[c].reader = 0
  /\ ~svc'.failed
  => svc'.log < FoldAt

(* The log folds once the sessions have let go: a commit that is told of,  *)
(* and finds no connection with a view, never leaves a log that is due,    *)
(* if the checkpoint does not fail.                                        *)
FoldsWhenLetGo == [][Folds]_vars
=============================================================================
