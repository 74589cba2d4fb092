------------------------------- MODULE Service -------------------------------
(***************************************************************************)
(* ServiceDatabase shared by threads: callers of writer(), commit and      *)
(* rollback on one side, callers of reader(), open_reader and publish_now  *)
(* on the other, and subscribers of the change feed.  A step is what a     *)
(* thread does between two acquisitions of the writer mutex, the publish   *)
(* mutex or the subscriber list; `lock` is the publish mutex.              *)
(***************************************************************************)
EXTENDS ServiceOps

CONSTANTS
  Readers,   \* threads that read
  Subs,      \* subscribers
  LeftLogs,  \* how long a log the last run may have left
  MaxTx,     \* bound: transactions ever published
  MaxBatch,  \* bound: mutations of one transaction
  MaxEvents, \* bound: events ever delivered
  Faults     \* which calls may fail: "put", "commit", "fold", "mint", "rollback"

NoOne  == "no one"
Writer == "the writer"

ASSUME ServiceAssumption ==
  /\ LeftLogs \subseteq Nat /\ MaxTx \in Nat /\ MaxBatch \in Nat /\ MaxEvents \in Nat
  /\ NoOne \notin Readers /\ Writer \notin Readers

VARIABLES
  svc,       \* ServiceDatabase and the store (ServiceOps)
  writer,    \* the writer mutex, and what the thread in it is doing
  lock,      \* who has the publish mutex
  pc, view,  \* per reader: where it is, the serial of the view it holds
  feed,      \* per subscriber: its Receiver (ServiceOps)
  sequence,  \* Subscribers::sequence
  (* History. *)
  acked,     \* the transaction of the last commit that returned
  need,      \* per reader: what the call it is in must show it
  late,      \* the subscribers that came when the open batch had begun
  ledger     \* per subscriber: events it was owed and got, first and last number

vars == <<svc, writer, lock, pc, view, feed, sequence, acked, need, late, ledger>>

wvars == <<acked, late>>
rvars == <<pc, view, need>>
fvars == <<feed, sequence, ledger>>

(* The writer mutex and the batch.  The rest is history, of the batch that *)
(* is open: how much of it barriers inside SQL statements have published,  *)
(* whether a statement that wrote nothing was recorded in it, whether it   *)
(* holds writes that nothing recorded, and how large it was when the       *)
(* running statement began.                                                *)
Idle == [step |-> "free", batch |-> NoBatch,
         early |-> 0, empty |-> FALSE, quiet |-> FALSE, from |-> 0]

InStatement == writer.step \in {"sql", "ddl"}

Made == svc.work + writer.early

NoLedger == [owed |-> 0, got |-> 0, first |-> 0, last |-> 0]

Shared(n) == \E r \in Readers : pc[r] = "hold" /\ view[r] = n

Init ==
  /\ \E l \in LeftLogs : svc = Service0(l)
  /\ writer = Idle /\ lock = NoOne
  /\ pc = [r \in Readers |-> "idle"] /\ view = [r \in Readers |-> 0]
  /\ feed = [c \in Subs |-> NoSubscription] /\ sequence = 0
  /\ acked = 1 /\ need = [r \in Readers |-> 0]
  /\ late = {} /\ ledger = [c \in Subs |-> NoLedger]
-----------------------------------------------------------------------------
(* writer() and try_writer. *)
TakeWriter ==
  /\ writer.step = "free"
  /\ writer' = [Idle EXCEPT !.step = "held"]
  /\ UNCHANGED <<svc, lock, wvars, rvars, fvars>>

(* Database::rollback.  One that fails leaves the handle failed. *)
RollbackOutcomes ==
  {RolledBack(svc)} \union
  IF "rollback" \in Faults THEN {[svc EXCEPT !.failed = TRUE, !.work = w] : w \in {0, svc.work}} ELSE {}

CanWrite == ~svc.failed /\ svc.work < MaxBatch /\ svc.tx < MaxTx

(* A recorded mutation: the engine first, then the record, if anyone       *)
(* listens at that moment.                                                 *)
Noted(batch) == IF Listening(feed) THEN batch ELSE writer.batch

Recorded(batch) ==
  /\ writer.step = "held" /\ CanWrite
  /\ svc' = [svc EXCEPT !.work = @ + 1]
  /\ writer' = [writer EXCEPT !.batch = Noted(batch)]
  /\ UNCHANGED <<lock, wvars, rvars, fvars>>

(* put, and delete of a row that is there. *)
Put == Recorded(NoteKey(writer.batch))

(* put_edge, and delete_edge of an edge that is there. *)
PutEdge == Recorded(NoteUnnamed(writer.batch))

(* A write that fails half way poisons the handle (Database::finish). *)
PutFails ==
  /\ "put" \in Faults
  /\ writer.step = "held" \/ InStatement
  /\ CanWrite
  /\ svc' = [svc EXCEPT !.work = @ + 1, !.failed = TRUE]
  /\ UNCHANGED <<writer, lock, wvars, rvars, fvars>>

(* WriterGuard::sql, and a plan the caller runs through database(): any    *)
(* number of writes, then an answer.  BEGIN, COMMIT and ROLLBACK are       *)
(* refused before this.                                                    *)
BeginSql ==
  /\ writer.step = "held" /\ ~svc.failed
  /\ writer' = [writer EXCEPT !.step = "sql", !.from = Made]
  /\ UNCHANGED <<svc, lock, wvars, rvars, fvars>>

SqlWrite ==
  /\ InStatement /\ CanWrite
  /\ svc' = [svc EXCEPT !.work = @ + 1]
  /\ UNCHANGED <<writer, lock, wvars, rvars, fvars>>

(* A DDL statement, and END BULK, call Database::commit themselves, most   *)
(* of them before anything else: what the guard had pending goes with it.  *)
SqlBarrier ==
  /\ InStatement /\ ~svc.failed /\ Appends(svc)
  /\ svc' = Committed(svc)
  /\ writer' = [writer EXCEPT !.step = "ddl", !.early = Made]
  /\ UNCHANGED <<lock, wvars, rvars, fvars>>

(* An index build goes back to its last commit to try a smaller one, or    *)
(* because the rows break the constraint.                                  *)
SqlUndo ==
  /\ writer.step = "ddl" /\ ~svc.failed /\ svc.work > 0
  /\ svc' \in RollbackOutcomes
  /\ UNCHANGED <<writer, lock, wvars, rvars, fvars>>

(* The statement answers how many rows it affected, or an INSERT the rows  *)
(* it wrote: recorded, were they none.  A DDL has committed everything.    *)
SqlAffected ==
  /\ InStatement /\ ~svc.failed
  /\ writer.step = "ddl" => svc.work = 0
  /\ writer' = [writer EXCEPT !.step = "held", !.batch = Noted(NoteUnnamed(@)),
                              !.empty = @ \/ Made = writer.from, !.from = 0]
  /\ UNCHANGED <<svc, lock, wvars, rvars, fvars>>

(* It answers something else, and nothing is recorded: an error, with what *)
(* it had written left on the handle; the notice of a DDL; or the rows of  *)
(* a SELECT or of an UPDATE ... RETURNING.                                 *)
SqlUnrecorded ==
  /\ InStatement
  /\ writer' = [writer EXCEPT !.step = "held", !.quiet = @ \/ Made # writer.from,
                              !.from = 0]
  /\ UNCHANGED <<svc, lock, wvars, rvars, fvars>>

(* WriterGuard::commit.  The barrier, after which the batch is taken: an   *)
(* event if anything was recorded.                                         *)
Commit ==
  /\ writer.step = "held" /\ ~svc.failed
  /\ Appends(svc) /\ (writer.batch.touched => sequence < MaxEvents)
  /\ svc' = Committed(svc)
  /\ writer' = [Idle EXCEPT !.step = IF writer.batch.touched THEN "deliver" ELSE "fold"]
  /\ ledger' = [c \in Subs |-> IF feed[c].live /\ ~feed[c].gone /\ writer.batch.touched
                               THEN [ledger[c] EXCEPT !.owed = @ + 1] ELSE ledger[c]]
  /\ late' = {}
  /\ UNCHANGED <<lock, acked, rvars, feed, sequence>>

(* A commit that returns an error: refused at the cap of the log, or       *)
(* failed with the transaction lost, or failed with it published (the sync *)
(* after it, or the fold at the end of the store's commit).  The commits   *)
(* inside a statement fail the same way.                                   *)
CommitFails ==
  /\ writer.step = "held" \/ InStatement
  /\ ~svc.failed
  /\ \/ ~Appends(svc)
     \/ "commit" \in Faults /\ svc.work > 0
  /\ \/ svc' = [svc EXCEPT !.failed = TRUE]
     \/ /\ Appends(svc)
        /\ \E left \in {0, svc.work} :
              svc' = [svc EXCEPT !.tx = @ + 1, !.log = @ + 1, !.work = left, !.failed = TRUE]
  /\ UNCHANGED <<writer, lock, wvars, rvars, fvars>>

(* Subscribers::deliver, while the writer mutex is still held.  An event   *)
(* is its number: what it says of the batch is the batch (EventExact).     *)
Deliver ==
  /\ writer.step = "deliver"
  /\ sequence' = sequence + 1
  /\ feed' = Delivered(feed, sequence')
  /\ ledger' = [c \in Subs |->
                  IF Len(feed'[c].queue) > Len(feed[c].queue)
                  THEN [ledger[c] EXCEPT !.first = IF @ = 0 THEN sequence' ELSE @, !.last = sequence']
                  ELSE ledger[c]]
  /\ writer' = [Idle EXCEPT !.step = "fold"]
  /\ UNCHANGED <<svc, lock, wvars, rvars>>

(* fold_if_due. *)
NotDue ==
  /\ writer.step = "fold" /\ (~Due(svc) \/ svc.failed)
  /\ svc' = [svc EXCEPT !.fold_wanted = FALSE]
  /\ writer' = [writer EXCEPT !.step = "mark"]
  /\ UNCHANGED <<lock, wvars, rvars, fvars>>

FoldLock ==
  /\ writer.step = "fold" /\ Due(svc) /\ ~svc.failed
  /\ lock = NoOne
  /\ lock' = Writer
  /\ svc' = Released(svc, Shared(svc.published))
  /\ writer' = [writer EXCEPT !.step = "check"]
  /\ UNCHANGED <<wvars, rvars, fvars>>

Checkpoint ==
  /\ writer.step = "check"
  /\ \/ svc' = Checkpointed(svc)
     \/ /\ "fold" \in Faults
        /\ \E log \in {svc.log} \union (IF NoReader(svc) THEN {0} ELSE {}) :
              svc' = [svc EXCEPT !.failed = TRUE, !.log = log,
                                 !.fold_wanted = TRUE, !.dirty = TRUE]
  /\ writer' = [writer EXCEPT !.step = "mint"]
  /\ UNCHANGED <<lock, wvars, rvars, fvars>>
-----------------------------------------------------------------------------
(* mark_dirty_and_maybe_publish: the caller's commit returns here unless   *)
(* the interval has run out, when the writer pays the mint.                *)
MutMarkedDirty(s) == IF s.elapsed THEN [s EXCEPT !.dirty = TRUE] ELSE s

MarkedDirty(s) == [s EXCEPT !.dirty = TRUE]

MarkDirty ==
  /\ writer.step = "mark" /\ lock = NoOne
  /\ svc' = MarkedDirty(svc)
  /\ IF svc.elapsed
     THEN /\ lock' = Writer /\ acked' = acked
          /\ writer' = [writer EXCEPT !.step = "mint"]
     ELSE /\ lock' = lock /\ acked' = svc.tx
          /\ writer' = [writer EXCEPT !.step = "held"]
  /\ UNCHANGED <<late, rvars, fvars>>

(* publish_locked, called by the writer: the mint, which needs a slot, and *)
(* the swap, in one step, since nothing commits while the writer is here   *)
(* (a reader's own mint and swap are two steps: Mint, Swap).  A mint that  *)
(* fails is counted and otherwise forgotten.                               *)
CanMint == svc.next_serial \in Serials

WriterMint ==
  /\ writer.step = "mint" /\ CanMint /\ SlotFree(svc)
  /\ svc' = Swapped(Minted(svc), Shared(svc.published))
  /\ writer' = [writer EXCEPT !.step = "held"]
  /\ lock' = NoOne /\ acked' = svc.tx
  /\ UNCHANGED <<late, rvars, fvars>>

WriterMintFails ==
  /\ writer.step = "mint" /\ (~CanMint \/ ~SlotFree(svc) \/ "mint" \in Faults)
  /\ writer' = [writer EXCEPT !.step = "held"]
  /\ lock' = NoOne /\ acked' = svc.tx
  /\ UNCHANGED <<svc, late, rvars, fvars>>

(* WriterGuard::rollback, and Drop, which rolls back what the guard        *)
(* recorded or the handle still has.                                       *)
Rollback ==
  /\ writer.step = "held"
  /\ svc' \in RollbackOutcomes
  /\ writer' = [Idle EXCEPT !.step = "held"]
  /\ late' = {}
  /\ UNCHANGED <<lock, acked, rvars, fvars>>

MutLeavesWork == writer.batch.touched

LeavesWork == writer.batch.touched \/ svc.work > 0

DropGuard ==
  /\ writer.step = "held"
  /\ IF LeavesWork THEN svc' \in RollbackOutcomes ELSE UNCHANGED svc
  /\ writer' = Idle
  /\ late' = {}
  /\ UNCHANGED <<lock, acked, rvars, fvars>>
-----------------------------------------------------------------------------
(* reader(): publish_if_due, then a clone of the published Arc. *)
Enter(r) ==
  /\ pc[r] = "idle"
  /\ pc' = [pc EXCEPT ![r] = "enter"]
  /\ need' = [need EXCEPT ![r] = IF svc.elapsed THEN acked ELSE 0]
  /\ UNCHANGED <<svc, writer, lock, view, wvars, fvars>>

PublishIfDue(r) ==
  /\ pc[r] = "enter" /\ lock = NoOne
  /\ IF PublishDue(svc)
     THEN lock' = r /\ pc' = [pc EXCEPT ![r] = "mint"]
     ELSE lock' = lock /\ pc' = [pc EXCEPT ![r] = "clone"]
  /\ UNCHANGED <<svc, writer, view, need, wvars, fvars>>

(* publish_now. *)
PublishNow(r) ==
  /\ pc[r] = "idle" /\ lock = NoOne
  /\ lock' = r
  /\ pc' = [pc EXCEPT ![r] = "mint now"]
  /\ need' = [need EXCEPT ![r] = acked]
  /\ UNCHANGED <<svc, writer, view, wvars, fvars>>

Mint(r) ==
  /\ pc[r] \in {"mint", "mint now"} /\ CanMint /\ SlotFree(svc)
  /\ svc' = Minted(svc)
  /\ pc' = [pc EXCEPT ![r] = IF @ = "mint" THEN "swap" ELSE "swap now"]
  /\ UNCHANGED <<writer, lock, view, need, wvars, fvars>>

MintFails(r) ==
  /\ pc[r] \in {"mint", "mint now"} /\ (~CanMint \/ ~SlotFree(svc) \/ "mint" \in Faults)
  /\ lock' = NoOne
  /\ pc' = [pc EXCEPT ![r] = IF @ = "mint" THEN "clone" ELSE "idle"]
  /\ need' = [need EXCEPT ![r] = 0]
  /\ UNCHANGED <<svc, writer, view, wvars, fvars>>

Swap(r) ==
  /\ pc[r] \in {"swap", "swap now"}
  /\ svc' = Swapped(svc, Shared(svc.published))
  /\ lock' = NoOne
  /\ pc' = [pc EXCEPT ![r] = IF @ = "swap" THEN "clone" ELSE "idle"]
  /\ need' = [need EXCEPT ![r] = IF pc[r] = "swap" THEN @ ELSE 0]
  /\ UNCHANGED <<writer, view, wvars, fvars>>

Clone(r) ==
  /\ pc[r] = "clone"
  /\ view' = [view EXCEPT ![r] = svc.published]
  /\ pc' = [pc EXCEPT ![r] = "hold"]
  /\ need' = [need EXCEPT ![r] = 0]
  /\ UNCHANGED <<svc, writer, lock, wvars, fvars>>

(* Snapshot::lock and a walk under it.  A view the fold released re-opens, *)
(* if a slot is free; a walk refused for want of one changes nothing.      *)
Walk(r) ==
  /\ pc[r] = "hold"
  /\ svc.at[view[r]] # 0 \/ SlotFree(svc)
  /\ svc' = IF svc.at[view[r]] # 0 THEN svc ELSE Opened(svc, view[r])
  /\ UNCHANGED <<writer, lock, pc, view, need, wvars, fvars>>

(* The reader lets its view go; the last Arc closes the handle. *)
LetGo(r) ==
  /\ pc[r] = "hold"
  /\ LET n == view[r]
         last == n # svc.published /\ \A q \in Readers \ {r} : ~(pc[q] = "hold" /\ view[q] = n)
     IN  svc' = IF last THEN Dropped(svc, n) ELSE svc
  /\ pc' = [pc EXCEPT ![r] = "idle"]
  /\ view' = [view EXCEPT ![r] = 0]
  /\ UNCHANGED <<writer, lock, need, wvars, fvars>>

(* open_reader: a serial under the mutex, the mint outside it. *)
OpenReader(r) ==
  /\ pc[r] = "idle" /\ lock = NoOne /\ CanMint
  /\ view' = [view EXCEPT ![r] = svc.next_serial]
  /\ svc' = [svc EXCEPT !.next_serial = @ + 1]
  /\ pc' = [pc EXCEPT ![r] = "private"]
  /\ UNCHANGED <<writer, lock, need, wvars, fvars>>

PrivateMint(r) ==
  /\ pc[r] = "private"
  /\ \/ /\ SlotFree(svc)
        /\ svc' = Opened(svc, view[r])
        /\ pc' = [pc EXCEPT ![r] = "hold"] /\ UNCHANGED view
     \/ /\ ~SlotFree(svc) \/ "mint" \in Faults
        /\ pc' = [pc EXCEPT ![r] = "idle"] /\ view' = [view EXCEPT ![r] = 0]
        /\ UNCHANGED svc
  /\ UNCHANGED <<writer, lock, need, wvars, fvars>>

(* The publish interval runs out. *)
Tick ==
  /\ ~svc.elapsed
  /\ svc' = [svc EXCEPT !.elapsed = TRUE]
  /\ UNCHANGED <<writer, lock, wvars, rvars, fvars>>
-----------------------------------------------------------------------------
(* The change feed: subscribe_changes, try_recv, unsubscribe, and a        *)
(* Receiver dropped without it, which the next delivery finds.             *)
Subscribe(c) ==
  /\ ~feed[c].live
  /\ feed' = [feed EXCEPT ![c] = Subscribed]
  /\ ledger' = [ledger EXCEPT ![c].owed = IF writer.step = "deliver" THEN 1 ELSE 0]
  /\ late' = IF Made > 0 \/ writer.empty THEN late \union {c} ELSE late
  /\ UNCHANGED <<svc, writer, lock, sequence, acked, rvars>>

Recv(c) ==
  /\ feed[c].queue # <<>> /\ ~feed[c].gone
  /\ feed' = [feed EXCEPT ![c].queue = Tail(@)]
  /\ ledger' = [ledger EXCEPT ![c].got = @ + 1]
  /\ UNCHANGED <<svc, writer, lock, sequence, wvars, rvars>>

Unsubscribe(c) ==
  /\ feed[c].live /\ ~feed[c].gone
  /\ feed' = [feed EXCEPT ![c] = NoSubscription]
  /\ ledger' = [ledger EXCEPT ![c] = NoLedger] /\ late' = late \ {c}
  /\ UNCHANGED <<svc, writer, lock, sequence, acked, rvars>>

DropReceiver(c) ==
  /\ feed[c].live /\ ~feed[c].gone
  /\ feed' = [feed EXCEPT ![c] = [Subscribed EXCEPT !.gone = TRUE]]
  /\ ledger' = [ledger EXCEPT ![c] = NoLedger] /\ late' = late \ {c}
  /\ UNCHANGED <<svc, writer, lock, sequence, acked, rvars>>

SqlStep ==
  BeginSql \/ SqlWrite \/ SqlBarrier \/ SqlUndo \/ SqlAffected \/ SqlUnrecorded

WriterStep ==
  \/ Deliver \/ NotDue \/ FoldLock \/ Checkpoint
  \/ MarkDirty \/ WriterMint \/ WriterMintFails

ReaderStep(r) ==
  PublishIfDue(r) \/ Mint(r) \/ MintFails(r) \/ Swap(r) \/ Clone(r) \/ PrivateMint(r)

Next ==
  \/ TakeWriter \/ Put \/ PutEdge \/ PutFails \/ SqlStep \/ Commit \/ CommitFails
  \/ Rollback \/ DropGuard \/ WriterStep
  \/ \E r \in Readers : Enter(r) \/ PublishNow(r) \/ Walk(r) \/ LetGo(r) \/ OpenReader(r)
                        \/ ReaderStep(r)
  \/ \E c \in Subs : Subscribe(c) \/ Recv(c) \/ Unsubscribe(c) \/ DropReceiver(c)
  \/ Tick

Spec == Init /\ [][Next]_vars
-----------------------------------------------------------------------------
(* Types, and who may be where: the publish mutex is held exactly by the   *)
(* thread between its test and its swap.                                   *)
TypeOK ==
  /\ svc \in ServiceState
  /\ writer \in [step : {"free", "held", "sql", "ddl", "deliver", "fold", "check", "mark", "mint"},
                 batch : Batches, early : Nat, empty : BOOLEAN, quiet : BOOLEAN, from : Nat]
  /\ lock \in Readers \union {NoOne, Writer}
  /\ (lock = Writer) <=> writer.step \in {"check", "mint"}
  /\ \A r \in Readers :
       (lock = r) <=> pc[r] \in {"mint", "mint now", "swap", "swap now"}
  /\ pc \in [Readers -> {"idle", "enter", "mint", "mint now", "swap", "swap now",
                         "clone", "private", "hold"}]
  /\ view \in [Readers -> 0..MaxSerial]
  /\ need \in [Readers -> Nat] /\ acked \in Nat /\ sequence \in Nat
  /\ late \subseteq Subs

(* A view shows what it showed: while a reader holds it, neither a commit, *)
(* nor a fold, nor a publication moves or closes its handle (snapshot.rs:  *)
(* "byte-stable for its life"; the fold releases only a view nobody        *)
(* holds, and the handle closes with the last Arc).  And the log folds only *)
(* when no view is open: the pages a view reads through it stay there.     *)
HeldViewStable ==
  [][/\ \A r \in Readers : pc[r] = "hold" /\ pc'[r] = "hold" /\ svc.at[view[r]] # 0
          => svc'.at[view[r]] = svc.at[view[r]]
     /\ svc'.log < svc.log => Open(svc) = {}]_vars

(* The staleness window: a reader() that begins when the interval has run  *)
(* out, or a publish_now, ends with a view that shows every commit that    *)
(* had returned when it began, unless its own mint was refused.  A view    *)
(* the fold released shows the newest transaction there is.                *)
StalenessBound ==
  [][\A r \in Readers :
       /\ pc[r] = "clone" /\ pc'[r] = "hold"
            => svc.at[svc.published] = 0 \/ svc.at[svc.published] >= need[r]
       /\ pc[r] = "swap now" /\ pc'[r] = "idle"
            => svc'.at[svc'.published] >= need[r]]_vars

(* The dirty flag loses no commit: when it is down, the published view     *)
(* shows every commit that has returned, so nothing is owed to a reader    *)
(* that will not republish.  And never more open views than reader slots:  *)
(* the published one, private ones and re-opened ones.                     *)
PublishedSound ==
  /\ TypeOK
  /\ Cardinality(Open(svc)) <= Slots
  /\ ~svc.dirty => svc.at[svc.published] = 0 \/ svc.at[svc.published] >= acked

(* A writer guard commits its own writes and nobody else's: what an        *)
(* earlier guard left behind without committing was rolled back when it    *)
(* was dropped, whether or not the feed recorded it, or the handle refuses *)
(* every commit until a rollback has discarded it (Drop for WriterGuard).  *)
GuardCommitsItsOwn ==
  writer.step \notin {"held", "sql", "ddl"} => svc.work = 0 \/ svc.failed

(* The event is exact for a subscriber that was there when the batch       *)
(* began: it counts every key put or deleted, lists all of them up to the  *)
(* cap and none past it, and says whether there was anything else.  A      *)
(* batch that says nothing made nothing, unless a statement changed rows   *)
(* without an answer that sql() records; and one that says something made  *)
(* something, unless a statement affected no row.  What DDL published in   *)
(* between is still in the batch.                                          *)
EventExact ==
  \A c \in Subs : writer.step = "held" /\ ~svc.failed /\ feed[c].live /\ ~feed[c].gone /\ c \notin late =>
    LET named == writer.batch.keys_total
    IN  /\ named <= Made
        /\ writer.batch.unnamed => named < Made \/ writer.empty
        /\ writer.empty => writer.batch.unnamed
        /\ named < Made => writer.batch.unnamed \/ writer.quiet
        /\ writer.batch.keys = IF named > KeyCap THEN 0 ELSE named
        /\ writer.batch.keys_truncated <=> named > KeyCap
        /\ writer.batch.touched <=> named > 0 \/ writer.batch.unnamed

(* The feed loses nothing silently: the events a subscriber received, has  *)
(* queued and is told it lost are the recorded batches that                *)
(* WriterGuard::commit committed since it subscribed, and the gaps in the  *)
(* numbers it received are events it lost, all of them unless the last one *)
(* was.  What each event says is exact.                                    *)
FeedAddsUp ==
  EventExact /\ \A c \in Subs : feed[c].live /\ ~feed[c].gone =>
    LET in == ledger[c].got + Len(feed[c].queue)
        pending == IF writer.step = "deliver" THEN 1 ELSE 0
        gaps == IF in = 0 THEN 0 ELSE ledger[c].last - ledger[c].first + 1 - in
    IN  /\ in + feed[c].lagged + pending = ledger[c].owed
        /\ gaps <= feed[c].lagged
        /\ ledger[c].last = sequence => gaps = feed[c].lagged

(* The event and the durability barrier are the same point (WriterGuard::  *)
(* sql refuses COMMIT so that nothing crosses the barrier behind the       *)
(* feed): a step that publishes a batch with something recorded in it is   *)
(* the commit whose event comes next.                                      *)
BarrierIsEvent ==
  [][svc'.tx > svc.tx /\ ~svc'.failed /\ writer.batch.touched => writer'.step = "deliver"]_vars
=============================================================================
