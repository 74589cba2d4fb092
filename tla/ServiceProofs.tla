---------------------------- MODULE ServiceProofs ----------------------------
(***************************************************************************)
(* Service, for every number of readers, subscribers, slots and faults and *)
(* every bound: its invariants and its two action properties.  The         *)
(* invariants are proved in the order they rest on each other: types,      *)
(* serials, freshness, the guard and its batch, the feed, the open slots.  *)
(***************************************************************************)
EXTENDS Service, TLAPS

USE SMTT(30)

Steps   == {"free", "held", "sql", "ddl", "deliver", "fold", "check", "mark", "mint"}
InHand  == {"held", "sql", "ddl"}
Minting == {"mint", "mint now"}
Swapping == {"swap", "swap now"}
Holding == {"hold", "private"}
Places  == {"idle", "enter", "clone"} \cup Minting \cup Swapping \cup Holding

Subscription == [live : BOOLEAN, gone : BOOLEAN, queue : Seq(Nat), lagged : Nat]
Ledger       == [owed : Nat, got : Nat, first : Nat, last : Nat]

(* Types, and who has the publish mutex. *)
WriterOK == writer \in [step : Steps, batch : Batches,
                         early : Nat, empty : BOOLEAN, quiet : BOOLEAN, from : Nat]

LockOK ==
  /\ lock \in Readers \union {NoOne, Writer}
  /\ (lock = Writer) <=> writer.step \in {"check", "mint"}
  /\ \A r \in Readers : (lock = r) <=> pc[r] \in Minting \cup Swapping

ReadersOK ==
  /\ pc \in [Readers -> Places] /\ view \in [Readers -> 0..MaxSerial]
  /\ need \in [Readers -> Nat] /\ acked \in Nat

FeedOK ==
  /\ feed \in [Subs -> Subscription] /\ ledger \in [Subs -> Ledger]
  /\ sequence \in Nat /\ late \subseteq Subs

(* Serials: the next one is past every one in use, a view that is swapped   *)
(* in has one left, and a private view is nobody else's.                    *)
SerialsOK ==
  /\ svc.next_serial <= MaxSerial + 1 /\ svc.published < svc.next_serial
  /\ \A r \in Readers :
       /\ pc[r] \in Swapping => svc.next_serial \in Serials
       /\ view[r] < svc.next_serial
       /\ pc[r] \in Holding <=> view[r] # 0
       /\ pc[r] = "private" => view[r] # svc.published
       /\ \A q \in Readers \ {r} : pc[r] = "private" => view[q] # view[r]

ControlInv == svc \in ServiceState /\ WriterOK /\ LockOK /\ ReadersOK /\ SerialsOK
-----------------------------------------------------------------------------
(* What the operations on the service leave in each field. *)

LEMMA OpenedFields ==
  ASSUME NEW s \in ServiceState, NEW n \in Serials
  PROVE  /\ Opened(s, n) \in ServiceState
         /\ Opened(s, n) = [s EXCEPT !.at = [s.at EXCEPT ![n] = s.tx]]
BY Zenon DEF Opened, ServiceState

LEMMA DroppedFields ==
  ASSUME NEW s \in ServiceState, NEW n \in Serials
  PROVE  /\ Dropped(s, n) \in ServiceState
         /\ Dropped(s, n) = [s EXCEPT !.at = [s.at EXCEPT ![n] = 0]]
BY Zenon DEF Dropped, ServiceState

LEMMA CommittedFields ==
  ASSUME NEW s \in ServiceState
  PROVE  LET t == Committed(s)
         IN  /\ t \in ServiceState
             /\ t.tx >= s.tx /\ t.work = 0 /\ (t.log < s.log => Open(s) = {})
             /\ t.at = s.at /\ t.failed = s.failed /\ t.published = s.published
             /\ t.next_serial = s.next_serial /\ t.dirty = s.dirty /\ t.elapsed = s.elapsed
<1> DEFINE u == [s EXCEPT !.tx = @ + 1, !.log = @ + 1, !.work = 0]
<1>a. s.tx + 1 \in Nat \ {0} /\ s.log + 1 \in Nat
  BY DEF ServiceState
<1>0. u \in ServiceState /\ u.at = s.at
  BY <1>a, Zenon DEF ServiceState
<1>1. Open(u) = Open(s)
  BY <1>0, Zenon DEF Open
<1>2. CASE s.work = 0
  BY <1>2 DEF Committed, ServiceState
<1>3. CASE s.work # 0 /\ Due(u) /\ NoReader(u)
  <2>1. Committed(s) = [u EXCEPT !.log = 0]
    BY <1>3, Zenon DEF Committed
  <2>2. [u EXCEPT !.log = 0] \in ServiceState
    BY <1>0, Zenon DEF ServiceState
  <2> QED
    BY <1>1, <1>3, <2>1, <2>2 DEF NoReader, ServiceState
<1>4. CASE s.work # 0 /\ ~(Due(u) /\ NoReader(u))
  <2>1. Committed(s) = u
    BY <1>4, Zenon DEF Committed
  <2> QED
    BY <1>0, <2>1 DEF ServiceState
<1> QED
  BY <1>2, <1>3, <1>4, Zenon

LEMMA RollbackFields ==
  ASSUME svc \in ServiceState, NEW t \in RollbackOutcomes
  PROVE  /\ t \in ServiceState
         /\ (t.work = 0 \/ t.failed = TRUE)
         /\ t.tx = svc.tx /\ t.log = svc.log /\ t.at = svc.at /\ t.published = svc.published
         /\ t.next_serial = svc.next_serial /\ t.dirty = svc.dirty /\ t.elapsed = svc.elapsed
<1>1. CASE t = RolledBack(svc)
  BY <1>1, Zenon DEF RolledBack, ServiceState
<1>2. ASSUME NEW w \in {0, svc.work}, t = [svc EXCEPT !.failed = TRUE, !.work = w]
      PROVE  /\ t \in ServiceState
             /\ (t.work = 0 \/ t.failed = TRUE)
             /\ t.tx = svc.tx /\ t.log = svc.log /\ t.at = svc.at /\ t.published = svc.published
             /\ t.next_serial = svc.next_serial /\ t.dirty = svc.dirty /\ t.elapsed = svc.elapsed
  <2>1. w \in Nat
    BY DEF ServiceState
  <2> QED
    BY <1>2, <2>1, Zenon DEF ServiceState
<1> QED
  BY <1>1, <1>2, Zenon DEF RollbackOutcomes
-----------------------------------------------------------------------------
(* Types, the mutex and the serials hold at the start and after every step. *)

LEMMA ControlInit == Init => ControlInv
<1> SUFFICES ASSUME Init PROVE ControlInv
  BY Zenon
<1> USE ServiceOpsAssumption, ServiceAssumption DEF Init
<1>1. svc \in ServiceState /\ svc.next_serial = 2 /\ svc.published = 1
  BY DEF Service0, ServiceState, Serials
<1>2. WriterOK /\ LockOK
  BY Zenon DEF WriterOK, LockOK, Idle, NoBatch, Batches, Steps, Minting, Swapping, NoOne, Writer
<1>3. ReadersOK
  BY DEF ReadersOK, Places
<1>4. SerialsOK
  BY <1>1 DEF SerialsOK, Swapping, Holding
<1> QED
  BY <1>1, <1>2, <1>3, <1>4, Zenon DEF ControlInv

LEMMA NotesAreBatches ==
  ASSUME NEW b \in Batches
  PROVE  NoteKey(b) \in Batches /\ NoteUnnamed(b) \in Batches
<1>1. b.keys_total + 1 \in Nat /\ b.keys + 1 \in Nat
  BY DEF Batches
<1>2. (b.keys_truncated \/ b.keys = KeyCap) \in BOOLEAN
  BY Zenon
<1> QED
  BY <1>1, <1>2, Zenon DEF NoteKey, NoteUnnamed, Batches

LEMMA WriterStepOK == svc \in ServiceState /\ WriterOK /\ Next => WriterOK'
<1> SUFFICES ASSUME svc \in ServiceState, WriterOK, Next PROVE WriterOK'
  BY Zenon
<1>0. Made \in Nat
  BY DEF Made, ServiceState, WriterOK
<1>1. CASE TakeWriter \/ Commit \/ Deliver \/ Rollback \/ DropGuard
  <2>1. PICK s \in Steps : writer' = [step |-> s, batch |-> NoBatch, early |-> 0, empty |-> FALSE,
                                     quiet |-> FALSE, from |-> 0]
    BY <1>1, Zenon DEF TakeWriter, Commit, Deliver, Rollback, DropGuard, Idle, Steps
  <2>2. NoBatch \in Batches /\ 0 \in Nat /\ FALSE \in BOOLEAN
    BY DEF NoBatch, Batches
  <2> QED
    BY <2>1, <2>2, Zenon DEF WriterOK
<1>2. CASE Put \/ PutEdge
  <2>1. \E b \in Batches : writer' = [writer EXCEPT !.batch = b]
    BY <1>2, NotesAreBatches, Zenon DEF Put, PutEdge, Recorded, Noted, WriterOK
  <2> QED
    BY <2>1, Zenon DEF WriterOK
<1>7. CASE SqlStep
  <2>1. CASE SqlWrite \/ SqlUndo
    BY <2>1, Zenon DEF SqlWrite, SqlUndo, WriterOK
  <2>2. CASE BeginSql
    BY <1>0, <2>2, Zenon DEF BeginSql, WriterOK, Steps
  <2>3. CASE SqlBarrier
    BY <1>0, <2>3, Zenon DEF SqlBarrier, WriterOK, Steps
  <2>4. CASE SqlAffected
    <3>1. Noted(NoteUnnamed(writer.batch)) \in Batches
      BY NotesAreBatches, Zenon DEF Noted, WriterOK
    <3>2. (writer.empty \/ Made = writer.from) \in BOOLEAN /\ 0 \in Nat /\ "held" \in Steps
      BY DEF Steps
    <3> QED
      BY <2>4, <3>1, <3>2, Zenon DEF SqlAffected, WriterOK
  <2>5. CASE SqlUnrecorded
    <3>2. (writer.quiet \/ Made # writer.from) \in BOOLEAN /\ 0 \in Nat /\ "held" \in Steps
      BY DEF Steps
    <3> QED
      BY <2>5, <3>2, Zenon DEF SqlUnrecorded, WriterOK
  <2> QED
    BY <1>7, <2>1, <2>2, <2>3, <2>4, <2>5, Zenon DEF SqlStep
<1>3. CASE NotDue \/ FoldLock \/ Checkpoint \/ MarkDirty \/ WriterMint \/ WriterMintFails
  <2>1. \E s \in Steps : writer' = [writer EXCEPT !.step = s]
    BY <1>3, Zenon DEF NotDue, FoldLock, Checkpoint, MarkDirty, WriterMint, WriterMintFails, Steps
  <2> QED
    BY <2>1, Zenon DEF WriterOK
<1>4. CASE PutFails \/ CommitFails \/ Tick
  BY <1>4, Zenon DEF PutFails, CommitFails, Tick, WriterOK
<1>5. ASSUME NEW r \in Readers,
             Enter(r) \/ PublishNow(r) \/ Walk(r) \/ LetGo(r) \/ OpenReader(r) \/ ReaderStep(r)
      PROVE  WriterOK'
  BY <1>5, Zenon DEF Enter, PublishNow, Walk, LetGo, OpenReader, ReaderStep, PublishIfDue, Mint,
              MintFails, Swap, Clone, PrivateMint, WriterOK
<1>6. ASSUME NEW c \in Subs, Subscribe(c) \/ Recv(c) \/ Unsubscribe(c) \/ DropReceiver(c)
      PROVE  WriterOK'
  BY <1>6, Zenon DEF Subscribe, Recv, Unsubscribe, DropReceiver, WriterOK
<1> QED
  BY <1>1, <1>2, <1>3, <1>4, <1>5, <1>6, <1>7, Zenon DEF Next, WriterStep

(* A step of a statement is between the writer and its store. *)
LEMMA SqlApart ==
  ASSUME WriterOK, SqlStep
  PROVE  /\ UNCHANGED <<lock, acked, late, pc, view, need, feed, sequence, ledger>>
         /\ writer.step \in InHand /\ writer'.step \in InHand
<1>1. UNCHANGED <<lock, acked, late, pc, view, need, feed, sequence, ledger>>
  BY Zenon DEF SqlStep, BeginSql, SqlWrite, SqlBarrier, SqlUndo, SqlAffected, SqlUnrecorded,
               wvars, rvars, fvars
<1>2. writer.step \in InHand
  BY Zenon DEF SqlStep, BeginSql, SqlWrite, SqlBarrier, SqlUndo, SqlAffected, SqlUnrecorded,
               InStatement, InHand
<1>3. writer'.step \in {writer.step, "held", "sql", "ddl"}
  BY Zenon DEF SqlStep, BeginSql, SqlWrite, SqlBarrier, SqlUndo, SqlAffected, SqlUnrecorded, WriterOK
<1> QED
  BY <1>1, <1>2, <1>3, Zenon DEF InHand

(* Where each step takes the thread that has the writer mutex. *)
Moves(from, to) == writer.step = from /\ writer'.step = to
KeepsBatch == UNCHANGED <<writer.batch, writer.early, writer.empty, writer.quiet>>
Blank(w) == w.batch = NoBatch /\ w.early = 0 /\ w.empty = FALSE /\ w.quiet = FALSE

LEMMA WriterMoves ==
  ASSUME WriterOK
  PROVE  /\ TakeWriter => Moves("free", "held") /\ Blank(writer')
         /\ Put \/ PutEdge => Moves("held", "held")
         /\ PutFails \/ CommitFails => UNCHANGED writer /\ writer.step \in InHand
         /\ Commit => /\ Moves("held", IF writer.batch.touched THEN "deliver" ELSE "fold")
                      /\ Blank(writer')
         /\ Rollback => Moves("held", "held") /\ Blank(writer')
         /\ DropGuard => Moves("held", "free") /\ Blank(writer')
         /\ Deliver => Moves("deliver", "fold") /\ Blank(writer')
         /\ NotDue => Moves("fold", "mark") /\ KeepsBatch
         /\ FoldLock => Moves("fold", "check") /\ KeepsBatch
         /\ Checkpoint => Moves("check", "mint") /\ KeepsBatch
         /\ MarkDirty => Moves("mark", IF svc.elapsed THEN "mint" ELSE "held") /\ KeepsBatch
         /\ WriterMint \/ WriterMintFails => Moves("mint", "held") /\ KeepsBatch
<1> USE DEF WriterOK, Moves, KeepsBatch, Blank
<1>1. TakeWriter => Moves("free", "held") /\ Blank(writer')
  BY Zenon DEF TakeWriter, Idle
<1>2. Put \/ PutEdge => Moves("held", "held")
  <2>1. Put \/ PutEdge => writer.step = "held" /\ \E b : writer' = [writer EXCEPT !.batch = b]
    BY Zenon DEF Put, PutEdge, Recorded
  <2> QED
    BY <2>1, Zenon
<1>3. PutFails \/ CommitFails => UNCHANGED writer /\ writer.step \in InHand
  BY Zenon DEF PutFails, CommitFails, InStatement, InHand
<1>4. Commit => /\ Moves("held", IF writer.batch.touched THEN "deliver" ELSE "fold")
                /\ Blank(writer')
  <2> DEFINE s == IF writer.batch.touched THEN "deliver" ELSE "fold"
  <2>1. Commit => writer.step = "held" /\ writer' = [Idle EXCEPT !.step = s]
    BY Zenon DEF Commit
  <2> HIDE DEF s
  <2>2. [Idle EXCEPT !.step = s].step = s /\ Blank([Idle EXCEPT !.step = s])
    BY Zenon DEF Idle
  <2>3. Commit => writer.step = "held" /\ writer'.step = s /\ Blank(writer')
    BY <2>1, <2>2, Zenon
  <2> QED
    BY <2>3, Zenon DEF s
<1>5. Rollback => Moves("held", "held") /\ Blank(writer')
  BY Zenon DEF Rollback, Idle
<1>6. DropGuard => Moves("held", "free") /\ Blank(writer')
  <2>1. DropGuard => writer.step = "held" /\ writer' = Idle
    BY Zenon DEF DropGuard
  <2>2. Idle.step = "free" /\ Blank(Idle)
    BY Zenon DEF Idle
  <2> QED
    BY <2>1, <2>2, Zenon
<1>7. Deliver => Moves("deliver", "fold") /\ Blank(writer')
  BY Zenon DEF Deliver, Idle
<1>8. NotDue => Moves("fold", "mark") /\ KeepsBatch
  BY Zenon DEF NotDue
<1>9. FoldLock => Moves("fold", "check") /\ KeepsBatch
  BY Zenon DEF FoldLock
<1>10. Checkpoint => Moves("check", "mint") /\ KeepsBatch
  BY Zenon DEF Checkpoint
<1>11. MarkDirty => Moves("mark", IF svc.elapsed THEN "mint" ELSE "held") /\ KeepsBatch
  BY Zenon DEF MarkDirty
<1>12. WriterMint \/ WriterMintFails => Moves("mint", "held") /\ KeepsBatch
  BY Zenon DEF WriterMint, WriterMintFails
<1> QED
  BY <1>1, <1>2, <1>3, <1>4, <1>5, <1>6, <1>7, <1>8, <1>9, <1>10, <1>11, <1>12, Zenon

LEMMA LockStepOK == WriterOK /\ ReadersOK /\ LockOK /\ Next => LockOK'
<1> SUFFICES ASSUME WriterOK, ReadersOK, LockOK, Next PROVE LockOK'
  BY Zenon
<1> USE ServiceAssumption DEF WriterOK, NoOne, Writer
<1>1. CASE UNCHANGED <<lock, pc>>
           /\ (writer.step \in {"check", "mint"} <=> writer'.step \in {"check", "mint"})
  BY <1>1, Zenon DEF LockOK
<1>2. CASE FoldLock \/ MarkDirty
  BY <1>2, Zenon DEF FoldLock, MarkDirty, LockOK, rvars
<1>3. CASE WriterMint \/ WriterMintFails
  <2>1. lock' = NoOne /\ UNCHANGED pc
    BY <1>3, Zenon DEF WriterMint, WriterMintFails, rvars
  <2>2. Moves("mint", "held")
    BY <1>3, WriterMoves, Zenon
  <2> QED
    BY <2>1, <2>2, Zenon DEF LockOK, Moves
<1>4. ASSUME NEW r \in Readers, PublishIfDue(r) \/ PublishNow(r)
      PROVE  LockOK'
  BY <1>4, ZenonT(30) DEF PublishIfDue, PublishNow, LockOK, ReadersOK, Minting, Swapping, wvars
<1>5. ASSUME NEW r \in Readers, Mint(r)
      PROVE  LockOK'
  BY <1>5, Zenon DEF Mint, LockOK, ReadersOK, Minting, Swapping, wvars
<1>6. ASSUME NEW r \in Readers, MintFails(r) \/ Swap(r)
      PROVE  LockOK'
  BY <1>6, Zenon DEF MintFails, Swap, LockOK, ReadersOK, Minting, Swapping, wvars
<1>7. ASSUME NEW r \in Readers,
             Enter(r) \/ Walk(r) \/ LetGo(r) \/ OpenReader(r) \/ Clone(r) \/ PrivateMint(r)
      PROVE  LockOK'
  BY <1>7, Zenon DEF Enter, Walk, LetGo, OpenReader, Clone, PrivateMint, LockOK, ReadersOK,
              Minting, Swapping, wvars
<1>8. CASE \/ TakeWriter \/ Put \/ PutEdge \/ PutFails \/ Commit \/ CommitFails
           \/ Rollback \/ DropGuard \/ Deliver \/ NotDue \/ Checkpoint
  <2>1. UNCHANGED <<lock, pc>>
    BY <1>8, Zenon DEF TakeWriter, Put, PutEdge, Recorded, PutFails, Commit, CommitFails, Rollback,
                DropGuard, Deliver, NotDue, Checkpoint, rvars
  <2> QED
    BY <1>1, <1>8, <2>1, WriterMoves, Zenon DEF Moves
<1>11. CASE SqlStep
  BY <1>1, <1>11, SqlApart, Zenon DEF InHand
<1>10. CASE Tick
  BY <1>1, <1>10, Zenon DEF Tick, rvars
<1>9. ASSUME NEW c \in Subs, Subscribe(c) \/ Recv(c) \/ Unsubscribe(c) \/ DropReceiver(c)
      PROVE  LockOK'
  BY <1>1, <1>9, Zenon DEF Subscribe, Recv, Unsubscribe, DropReceiver, rvars
<1> QED
  BY <1>2, <1>3, <1>4, <1>5, <1>6, <1>7, <1>8, <1>9, <1>10, <1>11, Zenon DEF Next, WriterStep, ReaderStep

LEMMA ReadersStepOK ==
  svc \in ServiceState /\ WriterOK /\ ReadersOK /\ SerialsOK /\ Next => ReadersOK'
<1> SUFFICES ASSUME svc \in ServiceState, WriterOK, ReadersOK, SerialsOK, Next PROVE ReadersOK'
  BY Zenon
<1>1. CASE UNCHANGED <<rvars, acked>>
  BY <1>1, Zenon DEF ReadersOK, rvars
<1>2. CASE MarkDirty \/ WriterMint \/ WriterMintFails
  BY <1>2, Zenon DEF MarkDirty, WriterMint, WriterMintFails, ReadersOK, ServiceState, rvars
<1>3. ASSUME NEW r \in Readers, Enter(r) \/ PublishNow(r) \/ MintFails(r) \/ Swap(r)
      PROVE  ReadersOK'
  <2>1. \E p \in Places, n \in Nat : pc' = [pc EXCEPT ![r] = p] /\ need' = [need EXCEPT ![r] = n]
    BY <1>3, Zenon DEF Enter, PublishNow, MintFails, Swap, ReadersOK, Places, Minting, Swapping
  <2>2. UNCHANGED <<view, acked>>
    BY <1>3, Zenon DEF Enter, PublishNow, MintFails, Swap, wvars
  <2> QED
    BY <2>1, <2>2, Zenon DEF ReadersOK
<1>4. ASSUME NEW r \in Readers, PublishIfDue(r) \/ Mint(r)
      PROVE  ReadersOK'
  <2>1. \E p \in Places : pc' = [pc EXCEPT ![r] = p]
    BY <1>4, Zenon DEF PublishIfDue, Mint, Places, Minting, Swapping
  <2>2. UNCHANGED <<need, view, acked>>
    BY <1>4, Zenon DEF PublishIfDue, Mint, wvars
  <2> QED
    BY <2>1, <2>2, Zenon DEF ReadersOK
<1>5. ASSUME NEW r \in Readers, Clone(r) \/ LetGo(r) \/ OpenReader(r)
      PROVE  ReadersOK'
  <2>0. svc.published \in 0..MaxSerial /\ (CanMint => svc.next_serial \in 0..MaxSerial) /\ 0 \in 0..MaxSerial
    BY ServiceOpsAssumption DEF ServiceState, Serials, CanMint
  <2>1. \E p \in Places, n \in 0..MaxSerial : pc' = [pc EXCEPT ![r] = p] /\ view' = [view EXCEPT ![r] = n]
    BY <1>5, <2>0, Zenon DEF Clone, LetGo, OpenReader, Places, Holding
  <2>2. acked' = acked /\ (need' = need \/ need' = [need EXCEPT ![r] = 0])
    BY <1>5, Zenon DEF Clone, LetGo, OpenReader, wvars
  <2> QED
    BY <2>1, <2>2 DEF ReadersOK
<1>6. ASSUME NEW r \in Readers, PrivateMint(r)
      PROVE  ReadersOK'
  <2>1. \E p \in Places : pc' = [pc EXCEPT ![r] = p]
    BY <1>6, Zenon DEF PrivateMint, Places, Holding
  <2>2. UNCHANGED <<need, acked>> /\ (view' = view \/ view' = [view EXCEPT ![r] = 0])
    BY <1>6, Zenon DEF PrivateMint, wvars
  <2> QED
    BY <2>1, <2>2, ServiceOpsAssumption DEF ReadersOK
<1>7. CASE \/ TakeWriter \/ Put \/ PutEdge \/ PutFails \/ Commit \/ CommitFails \/ Rollback
           \/ DropGuard \/ Deliver \/ NotDue \/ FoldLock \/ Checkpoint \/ Tick
           \/ \E r \in Readers : Walk(r)
  BY <1>1, <1>7, Zenon DEF TakeWriter, Put, PutEdge, Recorded, PutFails, Commit, CommitFails, Rollback,
                    DropGuard, Deliver, NotDue, FoldLock, Checkpoint, Tick, Walk, rvars, wvars
<1>9. CASE SqlStep
  BY <1>1, <1>9, SqlApart, Zenon DEF rvars
<1>8. ASSUME NEW c \in Subs, Subscribe(c) \/ Recv(c) \/ Unsubscribe(c) \/ DropReceiver(c)
      PROVE  ReadersOK'
  BY <1>1, <1>8, Zenon DEF Subscribe, Recv, Unsubscribe, DropReceiver, wvars
<1> QED
  BY <1>2, <1>3, <1>4, <1>5, <1>6, <1>7, <1>8, <1>9, Zenon DEF Next, WriterStep, ReaderStep

(* What each step does to the service and the store under it. *)

SameView(t) == t.at = svc.at /\ t.published = svc.published /\ t.next_serial = svc.next_serial
SameStore(t) == t.tx = svc.tx /\ t.log = svc.log /\ t.work = svc.work /\ t.failed = svc.failed
SameFlags(t) == t.dirty = svc.dirty /\ t.elapsed = svc.elapsed
DropView(shared) == IF shared THEN svc.at ELSE [svc.at EXCEPT ![svc.published] = 0]

LEMMA StoreFields ==
  ASSUME svc \in ServiceState,
         Put \/ PutEdge \/ PutFails \/ SqlStep \/ Commit \/ CommitFails \/ Rollback \/ DropGuard
  PROVE  /\ svc' \in ServiceState /\ SameView(svc') /\ SameFlags(svc')
         /\ svc'.tx >= svc.tx /\ (svc'.log < svc.log => Open(svc) = {})
<1> USE DEF SameView, SameFlags
<1>1. /\ svc.work + 1 \in Nat /\ svc.tx + 1 \in Nat \ {0} /\ svc.log + 1 \in Nat
      /\ svc.tx + 1 >= svc.tx /\ svc.tx >= svc.tx /\ ~(svc.log + 1 < svc.log) /\ ~(svc.log < svc.log)
  BY DEF ServiceState
<1>2. CASE Put \/ PutEdge \/ PutFails \/ SqlWrite
  <2>1. \E f \in BOOLEAN : svc' = [svc EXCEPT !.work = @ + 1, !.failed = f]
    <3>1. svc.failed \in BOOLEAN /\ [svc EXCEPT !.work = @ + 1] = [svc EXCEPT !.work = @ + 1, !.failed = svc.failed]
      BY Zenon DEF ServiceState
    <3> QED
      BY <1>2, <3>1, Zenon DEF Put, PutEdge, Recorded, PutFails, SqlWrite
  <2> QED
    BY <1>1, <2>1, Zenon DEF ServiceState
<1>3. CASE Commit \/ Rollback \/ DropGuard \/ SqlBarrier \/ SqlUndo
  <2>1. svc' = Committed(svc) \/ svc' \in RollbackOutcomes \/ svc' = svc
    BY <1>3, Zenon DEF Commit, Rollback, DropGuard, SqlBarrier, SqlUndo
  <2>2. CASE svc' = Committed(svc)
    BY <1>1, <2>2, CommittedFields, Zenon
  <2>3. CASE svc' \in RollbackOutcomes
    BY <1>1, <2>3, RollbackFields, Zenon
  <2> QED
    BY <1>1, <2>1, <2>2, <2>3, Zenon
<1>4. CASE CommitFails
  <2>1. CASE svc' = [svc EXCEPT !.failed = TRUE]
    BY <1>1, <2>1, Zenon DEF ServiceState
  <2>2. ASSUME NEW left \in {0, svc.work},
               svc' = [svc EXCEPT !.tx = @ + 1, !.log = @ + 1, !.work = left, !.failed = TRUE]
        PROVE  /\ svc' \in ServiceState /\ SameView(svc') /\ SameFlags(svc')
               /\ svc'.tx >= svc.tx /\ (svc'.log < svc.log => Open(svc) = {})
    <3>1. left \in Nat
      BY DEF ServiceState
    <3> QED
      BY <1>1, <2>2, <3>1, Zenon DEF ServiceState
  <2> QED
    BY <1>4, <2>1, <2>2, Zenon DEF CommitFails
<1>5. CASE BeginSql \/ SqlAffected \/ SqlUnrecorded
  BY <1>1, <1>5, Zenon DEF BeginSql, SqlAffected, SqlUnrecorded
<1> QED
  BY <1>2, <1>3, <1>4, <1>5, Zenon DEF SqlStep

LEMMA FoldFields ==
  ASSUME svc \in ServiceState, NotDue \/ Checkpoint \/ MarkDirty
  PROVE  /\ svc' \in ServiceState /\ SameView(svc') /\ svc'.tx = svc.tx /\ svc'.work = svc.work
         /\ svc'.elapsed = svc.elapsed
         /\ (svc.failed => svc'.failed) /\ (svc.dirty => svc'.dirty)
         /\ (writer.step # "fold" => svc'.dirty)
         /\ (svc'.log < svc.log => Open(svc) = {})
         /\ (svc'.failed => svc.failed \/ writer.step = "check")
<1> USE DEF SameView
<1>1. ~(svc.log < svc.log) /\ 0 \in Nat
  BY DEF ServiceState
<1>2. CASE NotDue
  BY <1>1, <1>2, Zenon DEF NotDue, ServiceState
<1>3. CASE MarkDirty
  BY <1>1, <1>3, Zenon DEF MarkDirty, MarkedDirty, ServiceState
<1>4. CASE Checkpoint
  <2>1. writer.step = "check"
    BY <1>4, Zenon DEF Checkpoint
  <2>2. CASE svc' = Checkpointed(svc)
    BY <1>1, <2>1, <2>2, Zenon DEF Checkpointed, NoReader, ServiceState
  <2>3. ASSUME NEW l \in {svc.log} \union (IF NoReader(svc) THEN {0} ELSE {}),
               svc' = [svc EXCEPT !.failed = TRUE, !.log = l, !.fold_wanted = TRUE, !.dirty = TRUE]
        PROVE  /\ svc' \in ServiceState /\ SameView(svc') /\ svc'.tx = svc.tx /\ svc'.work = svc.work
               /\ svc'.failed /\ svc'.dirty /\ svc'.elapsed = svc.elapsed
               /\ (svc'.log < svc.log => Open(svc) = {})
    <3>1. l \in Nat /\ (l < svc.log => Open(svc) = {})
      BY <1>1, Zenon DEF ServiceState, NoReader
    <3> QED
      BY <2>3, <3>1, Zenon DEF ServiceState
  <2> QED
    BY <1>4, <2>1, <2>2, <2>3, Zenon DEF Checkpoint
<1> QED
  BY <1>2, <1>3, <1>4, Zenon

LEMMA TickFields ==
  ASSUME svc \in ServiceState, Tick
  PROVE  svc' \in ServiceState /\ SameView(svc') /\ SameStore(svc') /\ svc'.dirty = svc.dirty /\ svc'.elapsed
BY Zenon DEF Tick, ServiceState, SameView, SameStore

LEMMA FoldLockFields ==
  ASSUME svc \in ServiceState, FoldLock
  PROVE  /\ svc' \in ServiceState /\ SameStore(svc') /\ SameFlags(svc')
         /\ svc'.published = svc.published /\ svc'.next_serial = svc.next_serial
         /\ svc'.at = DropView(Shared(svc.published))
<1>1. CASE Shared(svc.published)
  BY <1>1, Zenon DEF FoldLock, Released, ServiceState, SameStore, SameFlags, DropView
<1>2. CASE ~Shared(svc.published)
  <2>1. svc' = Dropped(svc, svc.published) /\ svc.published \in Serials
    BY <1>2, Zenon DEF FoldLock, Released, ServiceState
  <2> QED
    BY <1>2, <2>1, DroppedFields DEF ServiceState, SameStore, SameFlags, DropView
<1> QED
  BY <1>1, <1>2, Zenon

LEMMA SwappedFields ==
  ASSUME NEW s \in ServiceState, s.next_serial \in Serials, NEW x, svc' = Swapped(s, Shared(x))
  PROVE  /\ svc' \in ServiceState
         /\ svc'.at = IF Shared(x) THEN s.at ELSE [s.at EXCEPT ![s.published] = 0]
         /\ svc'.published = s.next_serial /\ svc'.next_serial = s.next_serial + 1
         /\ svc'.dirty = FALSE /\ svc'.tx = s.tx /\ svc'.log = s.log
         /\ svc'.work = s.work /\ svc'.failed = s.failed
<1>1. IntervalZero \in BOOLEAN /\ s.published \in Serials /\ s.at \in [Serials -> Nat]
  BY ServiceOpsAssumption, Zenon DEF ServiceState
<1>2. s.next_serial + 1 \in Nat
  BY DEF Serials, ServiceState
<1>3. CASE Shared(x)
  BY <1>1, <1>2, <1>3, Zenon DEF Swapped, ServiceState
<1>4. CASE ~Shared(x)
  BY <1>1, <1>2, <1>4, Zenon DEF Swapped, Dropped, ServiceState
<1> QED
  BY <1>3, <1>4, Zenon

LEMMA WriterMintFields ==
  ASSUME svc \in ServiceState, svc.published < svc.next_serial, WriterMint
  PROVE  /\ svc' \in ServiceState /\ SameStore(svc') /\ svc'.dirty = FALSE
         /\ svc.next_serial \in Serials /\ svc'.published = svc.next_serial
         /\ svc'.next_serial = svc.next_serial + 1
         /\ svc'.at = [DropView(Shared(svc.published)) EXCEPT ![svc.next_serial] = svc.tx]
<1> DEFINE m == Minted(svc)
<1>1. svc' = Swapped(m, Shared(svc.published)) /\ svc.next_serial \in Serials
  BY Zenon DEF WriterMint, CanMint
<1>3. /\ m \in ServiceState /\ SameStore(m) /\ m.next_serial = svc.next_serial
      /\ m.published = svc.published /\ m.at = [svc.at EXCEPT ![svc.next_serial] = svc.tx]
  BY <1>1, OpenedFields DEF Minted, ServiceState, SameStore
<1> HIDE DEF m
<1>4. /\ svc' \in ServiceState /\ SameStore(svc') /\ svc'.dirty = FALSE
      /\ svc'.published = svc.next_serial /\ svc'.next_serial = svc.next_serial + 1
      /\ svc'.at = IF Shared(svc.published) THEN m.at ELSE [m.at EXCEPT ![svc.published] = 0]
  <2>1. svc' = Swapped(m, Shared(svc.published)) /\ m \in ServiceState /\ m.next_serial \in Serials
    BY <1>1, <1>3, Zenon
  <2>2. /\ svc' \in ServiceState
        /\ svc'.at = IF Shared(svc.published) THEN m.at ELSE [m.at EXCEPT ![m.published] = 0]
        /\ svc'.published = m.next_serial /\ svc'.next_serial = m.next_serial + 1
        /\ svc'.dirty = FALSE /\ svc'.tx = m.tx /\ svc'.log = m.log
        /\ svc'.work = m.work /\ svc'.failed = m.failed
    BY <2>1, SwappedFields, Zenon
  <2> QED
    BY <1>3, <2>2, Zenon DEF SameStore
<1>5. svc.at \in [Serials -> Nat] /\ svc.published \in Serials /\ svc.published # svc.next_serial
  BY <1>1 DEF ServiceState, Serials
<1> QED
  BY <1>1, <1>3, <1>4, <1>5 DEF DropView

LEMMA SwapFields ==
  ASSUME svc \in ServiceState, NEW r \in Readers, Swap(r), svc.next_serial \in Serials
  PROVE  /\ svc' \in ServiceState /\ SameStore(svc') /\ svc'.dirty = FALSE
         /\ svc'.published = svc.next_serial /\ svc'.next_serial = svc.next_serial + 1
         /\ svc'.at = DropView(Shared(svc.published))
<1>1. svc' = Swapped(svc, Shared(svc.published))
  BY Zenon DEF Swap
<1>2. /\ svc' \in ServiceState
      /\ svc'.at = IF Shared(svc.published) THEN svc.at ELSE [svc.at EXCEPT ![svc.published] = 0]
      /\ svc'.published = svc.next_serial /\ svc'.next_serial = svc.next_serial + 1
      /\ svc'.dirty = FALSE /\ svc'.tx = svc.tx /\ svc'.log = svc.log
      /\ svc'.work = svc.work /\ svc'.failed = svc.failed
  BY <1>1, SwappedFields, Zenon
<1> QED
  BY <1>2, Zenon DEF SameStore, DropView

LEMMA OpenFields ==
  ASSUME svc \in ServiceState, NEW n \in Serials, NEW v \in Nat,
         svc' = [svc EXCEPT !.at = [svc.at EXCEPT ![n] = v]]
  PROVE  /\ svc' \in ServiceState /\ SameStore(svc') /\ SameFlags(svc')
         /\ svc'.published = svc.published /\ svc'.next_serial = svc.next_serial
         /\ svc'.at = [svc.at EXCEPT ![n] = v]
BY Zenon DEF ServiceState, SameStore, SameFlags

(* One view opened at the newest transaction, or closed, or nothing. *)
OneView(n, v) ==
  /\ SameStore(svc') /\ SameFlags(svc')
  /\ svc'.published = svc.published /\ svc'.next_serial = svc.next_serial
  /\ n \in Serials /\ svc'.at = [svc.at EXCEPT ![n] = v]

LEMMA MintFields ==
  ASSUME svc \in ServiceState, NEW r \in Readers, Mint(r)
  PROVE  svc' \in ServiceState /\ OneView(svc.next_serial, svc.tx) /\ SlotFree(svc)
<1>1. svc' = Opened(svc, svc.next_serial) /\ svc.next_serial \in Serials /\ SlotFree(svc) /\ svc.tx \in Nat
  BY Zenon DEF Mint, Minted, CanMint, ServiceState
<1> QED
  BY <1>1, OpenedFields, OpenFields, Zenon DEF OneView

LEMMA WalkFields ==
  ASSUME svc \in ServiceState, NEW r \in Readers, Walk(r), view[r] \in Serials
  PROVE  /\ svc' \in ServiceState
         /\ \/ svc' = svc
            \/ OneView(view[r], svc.tx) /\ svc.at[view[r]] = 0 /\ SlotFree(svc)
<1>1. \/ svc' = svc
      \/ svc' = Opened(svc, view[r]) /\ svc.at[view[r]] = 0 /\ SlotFree(svc)
  BY Zenon DEF Walk
<1>2. svc.tx \in Nat
  BY Zenon DEF ServiceState
<1> QED
  BY <1>1, <1>2, OpenedFields, OpenFields, Zenon DEF OneView

LEMMA PrivateFields ==
  ASSUME svc \in ServiceState, NEW r \in Readers, PrivateMint(r), view[r] \in Serials
  PROVE  /\ svc' \in ServiceState
         /\ \/ svc' = svc
            \/ OneView(view[r], svc.tx) /\ SlotFree(svc)
<1>1. \/ svc' = svc
      \/ svc' = Opened(svc, view[r]) /\ SlotFree(svc)
  BY Zenon DEF PrivateMint
<1>2. svc.tx \in Nat
  BY Zenon DEF ServiceState
<1> QED
  BY <1>1, <1>2, OpenedFields, OpenFields, Zenon DEF OneView

LEMMA LetGoFields ==
  ASSUME svc \in ServiceState, NEW r \in Readers, LetGo(r), view[r] \in Serials
  PROVE  /\ svc' \in ServiceState
         /\ \/ svc' = svc
            \/ /\ OneView(view[r], 0) /\ view[r] # svc.published
               /\ \A q \in Readers \ {r} : ~(pc[q] = "hold" /\ view[q] = view[r])
<1>1. \/ svc' = svc
      \/ /\ svc' = Dropped(svc, view[r]) /\ view[r] # svc.published
         /\ \A q \in Readers \ {r} : ~(pc[q] = "hold" /\ view[q] = view[r])
  BY Zenon DEF LetGo
<1> QED
  BY <1>1, DroppedFields, OpenFields, Zenon DEF OneView

LEMMA OpenReaderFields ==
  ASSUME svc \in ServiceState, NEW r \in Readers, OpenReader(r)
  PROVE  /\ svc' \in ServiceState /\ SameStore(svc') /\ SameFlags(svc')
         /\ svc'.published = svc.published /\ svc'.at = svc.at
         /\ svc.next_serial \in Serials /\ svc'.next_serial = svc.next_serial + 1
<1>1. svc.next_serial + 1 \in Nat
  BY DEF ServiceState
<1> QED
  BY <1>1, Zenon DEF OpenReader, CanMint, ServiceState, SameStore, SameFlags

LEMMA SerialsStepOK == ControlInv /\ Next => svc' \in ServiceState /\ SerialsOK'
<1> SUFFICES ASSUME ControlInv, Next PROVE svc' \in ServiceState /\ SerialsOK'
  BY Zenon
<1> USE DEF ControlInv
<1>1. /\ svc.published \in Nat /\ svc.next_serial \in Nat /\ svc.published < svc.next_serial
      /\ MaxSerial \in Nat /\ svc.next_serial <= MaxSerial + 1
  BY ServiceOpsAssumption DEF SerialsOK, ServiceState, Serials
<1>2. \A r \in Readers : /\ view[r] \in Nat /\ view[r] < svc.next_serial
                         /\ pc[r] \in Holding => view[r] \in Serials
  BY DEF ReadersOK, SerialsOK, Serials
<1>3. ASSUME svc'.next_serial = svc.next_serial, svc'.published = svc.published, UNCHANGED <<pc, view>>
      PROVE  SerialsOK'
  BY <1>3, Zenon DEF SerialsOK
<1>4. CASE Put \/ PutEdge \/ PutFails \/ SqlStep \/ Commit \/ CommitFails \/ Rollback \/ DropGuard
  <2>1. UNCHANGED <<pc, view>>
    BY <1>4, SqlApart, Zenon DEF Put, PutEdge, Recorded, PutFails, Commit, CommitFails, Rollback, DropGuard, rvars
  <2> QED
    BY <1>3, <1>4, <2>1, StoreFields, Zenon DEF SameView
<1>5. CASE NotDue \/ Checkpoint \/ MarkDirty
  <2>1. UNCHANGED <<pc, view>>
    BY <1>5, Zenon DEF NotDue, Checkpoint, MarkDirty, rvars
  <2> QED
    BY <1>3, <1>5, <2>1, FoldFields, Zenon DEF SameView
<1>6. CASE Tick \/ FoldLock
  <2>1. UNCHANGED <<pc, view>>
    BY <1>6, Zenon DEF Tick, FoldLock, rvars
  <2> QED
    BY <1>3, <1>6, <2>1, TickFields, FoldLockFields, Zenon DEF SameView
(* A publication takes the next serial, and nobody has it yet. *)
<1>7. ASSUME svc.next_serial \in Serials, UNCHANGED view,
             svc'.published = svc.next_serial, svc'.next_serial = svc.next_serial + 1,
             \A q \in Readers : /\ pc'[q] \notin Swapping /\ (pc'[q] = "private" <=> pc[q] = "private")
                                /\ pc'[q] \in Holding <=> pc[q] \in Holding
      PROVE  SerialsOK'
  <2>1. svc.next_serial <= MaxSerial
    BY <1>1, <1>7 DEF Serials
  <2> QED
    BY <1>1, <1>2, <1>7, <2>1 DEF SerialsOK
<1>8. CASE WriterMint
  <2>1. UNCHANGED <<pc, view>> /\ \A r \in Readers : pc[r] \notin Swapping
    BY <1>8, ServiceAssumption, Zenon DEF WriterMint, LockOK, WriterOK, rvars
  <2> QED
    BY <1>1, <1>7, <1>8, <2>1, WriterMintFields, Zenon
<1>9. ASSUME NEW r \in Readers, Swap(r)
      PROVE  svc' \in ServiceState /\ SerialsOK'
  <2>1. svc.next_serial \in Serials /\ UNCHANGED view
    BY <1>9, Zenon DEF Swap, SerialsOK, Swapping
  <2>2. \A q \in Readers : /\ pc'[q] \notin Swapping /\ (pc'[q] = "private" <=> pc[q] = "private")
                           /\ pc'[q] \in Holding <=> pc[q] \in Holding
    BY <1>9, ServiceAssumption, Zenon DEF Swap, LockOK, ReadersOK, Swapping, Minting, Holding
  <2> QED
    BY <1>7, <1>9, <2>1, <2>2, SwapFields, Zenon
<1>10. ASSUME NEW r \in Readers, OpenReader(r)
       PROVE  svc' \in ServiceState /\ SerialsOK'
  <2>1. /\ view' = [view EXCEPT ![r] = svc.next_serial] /\ pc' = [pc EXCEPT ![r] = "private"]
        /\ lock = NoOne
    BY <1>10, Zenon DEF OpenReader
  <2>2. \A q \in Readers : pc[q] \notin Swapping
    BY <2>1, ServiceAssumption, Zenon DEF LockOK
  <2>3. /\ svc' \in ServiceState /\ svc'.published = svc.published
        /\ svc'.next_serial = svc.next_serial + 1 /\ svc.next_serial <= MaxSerial
    BY <1>10, <1>1, OpenReaderFields DEF Serials
  <2>4. svc'.next_serial <= MaxSerial + 1 /\ svc'.published < svc'.next_serial
    BY <1>1, <2>3
  <2> SUFFICES ASSUME NEW q \in Readers
               PROVE  /\ pc'[q] \in Swapping => svc'.next_serial \in Serials
                      /\ view'[q] < svc'.next_serial
                      /\ pc'[q] \in Holding <=> view'[q] # 0
                      /\ pc'[q] = "private" => view'[q] # svc'.published
                      /\ \A p \in Readers \ {q} : pc'[q] = "private" => view'[p] # view'[q]
    BY <2>3, <2>4, Zenon DEF SerialsOK
  <2>5. CASE q = r
    BY <1>1, <1>2, <2>1, <2>3, <2>5 DEF ReadersOK, Holding, Swapping
  <2>6. CASE q # r
    BY <1>1, <1>2, <2>1, <2>2, <2>3, <2>6 DEF ReadersOK, SerialsOK
  <2> QED
    BY <2>5, <2>6, Zenon
<1>11. ASSUME NEW r \in Readers, NEW p \in {"hold", "idle"}, NEW n \in {0, view[r], svc.published},
              pc' = [pc EXCEPT ![r] = p], view' = [view EXCEPT ![r] = n], p = "hold" <=> n # 0,
              n = svc.published => pc[r] # "private", n # 0 => pc[r] \in {"clone", "private"},
              svc'.next_serial = svc.next_serial, svc'.published = svc.published
       PROVE  SerialsOK'
  <2>1. n \in Nat /\ n < svc.next_serial
    BY <1>1, <1>2
  <2>3. p \notin Swapping /\ p # "private" /\ (p \in Holding <=> n # 0)
    BY <1>11, Zenon DEF Swapping, Holding
  <2>2. \A q \in Readers \ {r} : pc[q] = "private" => view[q] # n
    BY <1>1, <1>11, Zenon DEF SerialsOK, Holding
  <2> QED
    BY <1>11, <2>1, <2>2, <2>3, Zenon DEF SerialsOK, ReadersOK
<1>12. ASSUME NEW r \in Readers, Clone(r)
       PROVE  svc' \in ServiceState /\ SerialsOK'
  <2>1. svc.published # 0
    BY DEF ServiceState, Serials
  <2> QED
    BY <1>11, <1>12, <2>1, Zenon DEF Clone
<1>13. ASSUME NEW r \in Readers, LetGo(r)
       PROVE  svc' \in ServiceState /\ SerialsOK'
  <2>1. view[r] \in Serials /\ svc.published # 0
    BY <1>2, <1>13 DEF LetGo, Holding, ServiceState, Serials
  <2>2. svc' \in ServiceState /\ svc'.next_serial = svc.next_serial /\ svc'.published = svc.published
    BY <1>13, <2>1, LetGoFields, Zenon DEF OneView
  <2> QED
    BY <1>11, <1>13, <2>1, <2>2, Zenon DEF LetGo
<1>14. ASSUME NEW r \in Readers, PrivateMint(r)
       PROVE  svc' \in ServiceState /\ SerialsOK'
  <2>1. view[r] \in Serials /\ view[r] # 0 /\ pc[r] = "private" /\ view[r] # svc.published /\ svc.published # 0
    BY <1>2, <1>14 DEF PrivateMint, SerialsOK, Holding, ServiceState, Serials
  <2>2. svc' \in ServiceState /\ svc'.next_serial = svc.next_serial /\ svc'.published = svc.published
    BY <1>14, <2>1, PrivateFields, Zenon DEF OneView
  <2>3. view = [view EXCEPT ![r] = view[r]]
    BY Zenon DEF ReadersOK
  <2> QED
    BY <1>11, <1>14, <2>1, <2>2, <2>3, Zenon DEF PrivateMint
<1>15. ASSUME NEW r \in Readers, Walk(r)
       PROVE  svc' \in ServiceState /\ SerialsOK'
  <2>1. view[r] \in Serials /\ UNCHANGED <<pc, view>>
    BY <1>2, <1>15, Zenon DEF Walk, Holding
  <2> QED
    BY <1>3, <1>15, <2>1, WalkFields, Zenon DEF OneView
<1>16. ASSUME NEW r \in Readers, Enter(r) \/ PublishNow(r) \/ Mint(r) \/ MintFails(r) \/ PublishIfDue(r)
       PROVE  svc' \in ServiceState /\ SerialsOK'
  <2>1. UNCHANGED view
    BY <1>16, Zenon DEF Enter, PublishNow, Mint, MintFails, PublishIfDue
  <2>2. \E p \in {"enter", "mint now", "swap", "swap now", "clone", "idle", "mint"} :
          /\ pc' = [pc EXCEPT ![r] = p] /\ pc[r] \notin Holding
          /\ p \in Swapping => svc.next_serial \in Serials
    BY <1>16, Zenon DEF Enter, PublishNow, Mint, CanMint, MintFails, PublishIfDue, Holding, Swapping
  <2>3. svc' \in ServiceState /\ svc'.published = svc.published /\ svc'.next_serial = svc.next_serial
    <3>1. CASE Mint(r)
      BY <3>1, MintFields, Zenon DEF OneView
    <3>2. CASE ~Mint(r)
      BY <1>16, <3>2, Zenon DEF Enter, PublishNow, MintFails, PublishIfDue
    <3> QED
      BY <3>1, <3>2, Zenon
  <2> QED
    BY <2>1, <2>2, <2>3, Zenon DEF SerialsOK, ReadersOK, Holding, Swapping
<1>17. CASE TakeWriter \/ Deliver \/ WriterMintFails
            \/ \E c \in Subs : Subscribe(c) \/ Recv(c) \/ Unsubscribe(c) \/ DropReceiver(c)
  <2>1. UNCHANGED <<svc, pc, view>>
    BY <1>17, Zenon DEF TakeWriter, Deliver, WriterMintFails, Subscribe, Recv, Unsubscribe, DropReceiver, rvars
  <2> QED
    BY <1>3, <2>1, Zenon
<1> QED
  BY <1>4, <1>5, <1>6, <1>8, <1>9, <1>10, <1>12, <1>13, <1>14, <1>15, <1>16, <1>17, Zenon
  DEF Next, WriterStep, ReaderStep

LEMMA ControlStep == ControlInv /\ [Next]_vars => ControlInv'
<1> SUFFICES ASSUME ControlInv, [Next]_vars PROVE ControlInv'
  BY Zenon
<1>1. CASE Next
  BY <1>1, WriterStepOK, LockStepOK, ReadersStepOK, SerialsStepOK, Zenon DEF ControlInv
<1>2. CASE UNCHANGED vars
  BY <1>2, Zenon DEF vars, ControlInv, WriterOK, LockOK, ReadersOK, SerialsOK
<1> QED
  BY <1>1, <1>2, Zenon
-----------------------------------------------------------------------------
(* What a step may do to the open views: close some, or open one when a     *)
(* slot is free; and it never moves or closes one that a reader holds.      *)

LEMMA ViewsMove ==
  ASSUME ControlInv, Next
  PROVE  /\ \/ Open(svc') \subseteq Open(svc)
            \/ SlotFree(svc) /\ \E n : Open(svc') \subseteq Open(svc) \union {n}
         /\ \A q \in Readers : pc[q] = "hold" /\ pc'[q] = "hold" /\ svc.at[view[q]] # 0
              => svc'.at[view[q]] = svc.at[view[q]]
         /\ svc'.log < svc.log => Open(svc) = {}
<1> DEFINE Goal ==
         /\ \/ Open(svc') \subseteq Open(svc)
            \/ SlotFree(svc) /\ \E n : Open(svc') \subseteq Open(svc) \union {n}
         /\ \A q \in Readers : pc[q] = "hold" /\ pc'[q] = "hold" /\ svc.at[view[q]] # 0
              => svc'.at[view[q]] = svc.at[view[q]]
         /\ svc'.log < svc.log => Open(svc) = {}
<1> USE DEF ControlInv
<1>1. /\ svc.at \in [Serials -> Nat] /\ svc.published \in Serials /\ svc.log \in Nat
      /\ svc.published < svc.next_serial /\ svc.published # svc.next_serial
  BY DEF ServiceState, SerialsOK, Serials
<1>2. \A r \in Readers : /\ view[r] < svc.next_serial /\ view[r] # svc.next_serial
                         /\ pc[r] \in Holding => view[r] \in Serials
  <2>1. \A r \in Readers : view[r] \in Nat /\ view[r] < svc.next_serial
    BY DEF ReadersOK, SerialsOK
  <2> QED
    BY <2>1 DEF ReadersOK, SerialsOK, Serials
<1>3. ASSUME svc'.at = svc.at, svc'.log < svc.log => Open(svc) = {}
      PROVE  Goal
  BY <1>3, Zenon DEF Open
<1>4. ASSUME NEW n \in Serials, NEW v, svc'.at = [svc.at EXCEPT ![n] = v], svc'.log = svc.log,
             v = 0 \/ SlotFree(svc),
             \A q \in Readers : pc[q] = "hold" /\ pc'[q] = "hold" /\ view[q] = n => svc.at[n] = 0
      PROVE  Goal
  <2>1. v = 0 => Open(svc') \subseteq Open(svc)
    BY <1>1, <1>4, Zenon DEF Open
  <2>2. Open(svc') \subseteq Open(svc) \union {n}
    BY <1>1, <1>4, Zenon DEF Open
  <2>3. \A q \in Readers : pc[q] = "hold" /\ pc'[q] = "hold" /\ svc.at[view[q]] # 0
              => svc'.at[view[q]] = svc.at[view[q]]
    BY <1>1, <1>2, <1>4, Zenon DEF Holding
  <2> QED
    BY <1>1, <1>4, <2>1, <2>2, <2>3
<1>17. CASE svc' = svc
  BY <1>1, <1>3, <1>17
<1>18. ASSUME NEW r \in Readers, NEW v, OneView(view[r], v), v = 0 \/ SlotFree(svc),
              \A q \in Readers : pc[q] = "hold" /\ pc'[q] = "hold" /\ view[q] = view[r] => svc.at[view[r]] = 0
       PROVE  Goal
  BY <1>4, <1>18, Zenon DEF OneView, SameStore
<1>5. CASE Put \/ PutEdge \/ PutFails \/ SqlStep \/ Commit \/ CommitFails \/ Rollback \/ DropGuard
  BY <1>3, <1>5, StoreFields, Zenon DEF SameView
<1>6. CASE NotDue \/ Checkpoint \/ MarkDirty
  BY <1>3, <1>6, FoldFields, Zenon DEF SameView
<1>7. CASE Tick
  BY <1>1, <1>3, <1>7, TickFields DEF SameView, SameStore
<1>8. CASE FoldLock
  <2>1. svc'.at = DropView(Shared(svc.published)) /\ svc'.log = svc.log
    BY <1>8, FoldLockFields, Zenon DEF SameStore
  <2>2. CASE Shared(svc.published)
    BY <1>1, <1>3, <2>1, <2>2 DEF DropView
  <2>3. CASE ~Shared(svc.published)
    BY <1>1, <1>4, <2>1, <2>3, Zenon DEF DropView, Shared
  <2> QED
    BY <2>2, <2>3, Zenon
<1>9. CASE WriterMint
  <2>1. /\ svc'.at = [DropView(Shared(svc.published)) EXCEPT ![svc.next_serial] = svc.tx]
        /\ svc'.log = svc.log /\ svc.next_serial \in Serials /\ SlotFree(svc)
    BY <1>1, <1>9, WriterMintFields, Zenon DEF SameStore, WriterMint
  <2>2. CASE Shared(svc.published)
    BY <1>1, <1>2, <1>4, <2>1, <2>2 DEF DropView
  <2>3. CASE ~Shared(svc.published)
    <3>1. svc'.at = [[svc.at EXCEPT ![svc.published] = 0] EXCEPT ![svc.next_serial] = svc.tx]
      BY <2>1, <2>3, Zenon DEF DropView
    <3>2. Open(svc') \subseteq Open(svc) \union {svc.next_serial}
      BY <1>1, <2>1, <3>1, Zenon DEF Open
    <3>3. \A q \in Readers : pc[q] = "hold" => view[q] # svc.published /\ view[q] \in Serials
      BY <1>2, <2>3, Zenon DEF Shared, Holding
    <3>4. ~(svc'.log < svc.log)
      BY <1>1, <2>1
    <3> QED
      BY <1>1, <1>2, <2>1, <3>1, <3>2, <3>3, <3>4, Zenon
  <2> QED
    BY <2>2, <2>3, Zenon
<1>10. ASSUME NEW r \in Readers, Swap(r)
       PROVE  Goal
  <2>0. svc.next_serial \in Serials
    BY <1>10, Zenon DEF Swap, SerialsOK, Swapping
  <2>1. svc'.at = DropView(Shared(svc.published)) /\ svc'.log = svc.log
    BY <1>10, <2>0, SwapFields, Zenon DEF SameStore
  <2>2. CASE Shared(svc.published)
    BY <1>1, <1>3, <2>1, <2>2 DEF DropView
  <2>3. CASE ~Shared(svc.published)
    BY <1>1, <1>4, <2>1, <2>3, Zenon DEF DropView, Shared
  <2> QED
    BY <2>2, <2>3, Zenon
<1>11. ASSUME NEW r \in Readers, Mint(r)
       PROVE  Goal
  BY <1>2, <1>4, <1>11, MintFields DEF OneView, SameStore
<1>12. ASSUME NEW r \in Readers, Walk(r)
       PROVE  Goal
  <2>1. view[r] \in Serials
    BY <1>2, <1>12, Zenon DEF Walk, Holding
  <2> QED
    BY <1>12, <1>17, <1>18, <2>1, WalkFields, Zenon
<1>13. ASSUME NEW r \in Readers, PrivateMint(r)
       PROVE  Goal
  <2>1. view[r] \in Serials /\ \A q \in Readers : pc[q] = "hold" => view[q] # view[r]
    BY <1>2, <1>13, Zenon DEF PrivateMint, Holding, SerialsOK
  <2> QED
    BY <1>13, <1>17, <1>18, <2>1, PrivateFields, Zenon
<1>14. ASSUME NEW r \in Readers, LetGo(r)
       PROVE  Goal
  <2>1. view[r] \in Serials /\ pc'[r] # "hold"
    BY <1>2, <1>14, Zenon DEF LetGo, Holding, ReadersOK
  <2> QED
    BY <1>14, <1>17, <1>18, <2>1, LetGoFields, Zenon
<1>15. ASSUME NEW r \in Readers, OpenReader(r)
       PROVE  Goal
  BY <1>1, <1>3, <1>15, OpenReaderFields DEF SameStore
<1>16. CASE \/ TakeWriter \/ Deliver \/ WriterMintFails
            \/ \E r \in Readers : Enter(r) \/ PublishNow(r) \/ MintFails(r) \/ PublishIfDue(r) \/ Clone(r)
            \/ \E c \in Subs : Subscribe(c) \/ Recv(c) \/ Unsubscribe(c) \/ DropReceiver(c)
  <2>1. UNCHANGED svc
    BY <1>16, Zenon DEF TakeWriter, Deliver, WriterMintFails, Enter, PublishNow, MintFails, PublishIfDue, Clone,
                 Subscribe, Recv, Unsubscribe, DropReceiver
  <2> QED
    BY <1>1, <1>3, <2>1
<1> QED
  BY <1>5, <1>6, <1>7, <1>8, <1>9, <1>10, <1>11, <1>12, <1>13, <1>14, <1>15, <1>16, Zenon
  DEF Next, WriterStep, ReaderStep

-----------------------------------------------------------------------------
(* Freshness.  What a reader on its way to a view needs is no more than     *)
(* what has been acknowledged; the view it will find shows that much, or    *)
(* the dirty flag is up and the interval over, so that it mints one itself; *)
(* a view that is minted and not yet swapped in shows all of it.            *)

Shows(n) == svc.at[svc.published] = 0 \/ svc.at[svc.published] >= n

FreshInv ==
  /\ acked <= svc.tx
  /\ writer.step = "mint" => svc.dirty
  /\ svc.dirty \/ Shows(acked)
  /\ \A r \in Readers :
       /\ need[r] <= acked
       /\ pc[r] \in Swapping => svc.at[svc.next_serial] >= acked
       /\ pc[r] = "enter" => svc.elapsed \/ Shows(need[r])
       /\ pc[r] = "clone" => Shows(need[r])

LEMMA FreshInit == Init => FreshInv
<1> SUFFICES ASSUME Init PROVE FreshInv
  BY Zenon
<1>1. /\ svc.tx = 1 /\ svc.published = 1 /\ acked = 1
      /\ svc.at = [n \in Serials |-> IF n = 1 THEN 1 ELSE 0] /\ 1 \in Serials
  BY ServiceOpsAssumption DEF Init, Service0, Serials
<1>2. writer.step # "mint"
  BY Zenon DEF Init, Idle
<1>3. \A r \in Readers : need[r] = 0 /\ pc[r] \notin Swapping /\ pc[r] # "enter" /\ pc[r] # "clone"
  BY Zenon DEF Init, Swapping
<1> QED
  <2>1. svc.at[svc.published] = 1
    BY <1>1, Zenon
  <2> QED
    BY <1>1, <1>2, <1>3, <2>1 DEF FreshInv, Shows

LEMMA FreshStep == ControlInv /\ FreshInv /\ Next => FreshInv'
<1> SUFFICES ASSUME ControlInv, FreshInv, Next PROVE FreshInv'
  BY Zenon
<1> USE DEF ControlInv
<1>1. /\ svc.at \in [Serials -> Nat] /\ svc.published \in Serials /\ svc.tx \in Nat /\ acked \in Nat
      /\ svc.published # svc.next_serial /\ need \in [Readers -> Nat]
      /\ svc.at[svc.published] \in Nat
  <2>1. svc.at \in [Serials -> Nat] /\ svc.published \in Serials /\ svc.tx \in Nat
    BY Zenon DEF ServiceState
  <2>2. acked \in Nat /\ need \in [Readers -> Nat]
    BY Zenon DEF ReadersOK
  <2>3. svc.published # svc.next_serial
    BY DEF SerialsOK, ServiceState, Serials
  <2> QED
    BY <2>1, <2>2, <2>3, Zenon
<1>2. svc' \in ServiceState /\ svc'.tx \in Nat /\ svc'.at[svc'.published] \in Nat
  BY SerialsStepOK, Zenon DEF ServiceState
<1>3. \A r \in Readers : view[r] # svc.next_serial /\ (pc[r] \in Holding => view[r] \in Serials)
  <2>1. \A r \in Readers : view[r] \in Nat /\ view[r] < svc.next_serial
    BY DEF ReadersOK, SerialsOK
  <2> QED
    BY <2>1 DEF ReadersOK, SerialsOK, Serials
(* Steps that acknowledge nothing and move no reader towards its view. *)
<1>4. ASSUME UNCHANGED <<need, acked>>, svc'.tx >= svc.tx,
             svc.dirty => svc'.dirty, svc.elapsed => svc'.elapsed, writer'.step = "mint" => svc'.dirty,
             \/ svc'.at[svc'.published] = svc.at[svc.published]
             \/ svc'.at[svc'.published] = 0
             \/ svc'.at[svc'.published] >= acked,
             \A q \in Readers : /\ pc'[q] \in {"enter", "clone"} => pc'[q] = pc[q]
                                /\ pc'[q] \in Swapping => svc'.at[svc'.next_serial] >= acked
      PROVE  FreshInv'
  <2>1. \A n \in Nat : n <= acked /\ Shows(n) =>
          svc'.at[svc'.published] = 0 \/ svc'.at[svc'.published] >= n
    BY <1>1, <1>2, <1>4 DEF Shows
  <2>2. acked' <= svc'.tx /\ (writer'.step = "mint" => svc'.dirty)
    BY <1>1, <1>2, <1>4 DEF FreshInv
  <2>3. svc'.dirty \/ Shows(acked)'
    BY <1>1, <1>4, <2>1, Zenon DEF FreshInv, Shows
  <2>4. ASSUME NEW q \in Readers
        PROVE  /\ need'[q] <= acked' /\ (pc'[q] \in Swapping => svc'.at[svc'.next_serial] >= acked')
               /\ (pc'[q] = "enter" => svc'.elapsed \/ Shows(need[q])')
               /\ (pc'[q] = "clone" => Shows(need[q])')
    BY <1>1, <1>4, <2>1, Zenon DEF FreshInv, Shows
  <2> QED
    BY <2>2, <2>3, <2>4, Zenon DEF FreshInv
<1>5. CASE Put \/ PutEdge \/ PutFails \/ SqlStep \/ Commit \/ CommitFails \/ Rollback \/ DropGuard
  <2>1. UNCHANGED <<need, acked, pc>>
    BY <1>5, SqlApart, Zenon DEF Put, PutEdge, Recorded, PutFails, Commit, CommitFails, Rollback, DropGuard,
                                 rvars, wvars
  <2>2. writer'.step # "mint"
    BY <1>5, WriterMoves, SqlApart, Zenon DEF Moves, InHand
  <2>3. \A q \in Readers : pc[q] \in Swapping => svc.at[svc.next_serial] >= acked
    BY Zenon DEF FreshInv
  <2> QED
    BY <1>4, <1>5, <2>1, <2>2, <2>3, StoreFields, Zenon DEF SameView, SameFlags
<1>6. CASE NotDue \/ Checkpoint
  <2>1. UNCHANGED <<need, acked, pc>>
    BY <1>6, Zenon DEF NotDue, Checkpoint, rvars, wvars
  <2>2. writer'.step = "mint" => writer.step # "fold"
    BY <1>6, WriterMoves, Zenon DEF Moves
  <2>3. \A q \in Readers : pc[q] \in Swapping => svc.at[svc.next_serial] >= acked
    BY Zenon DEF FreshInv
  <2>4. /\ SameView(svc') /\ svc'.tx = svc.tx /\ svc'.elapsed = svc.elapsed
        /\ (svc.dirty => svc'.dirty) /\ (writer.step # "fold" => svc'.dirty)
    BY <1>6, FoldFields, Zenon
  <2> QED
    BY <1>1, <1>4, <2>1, <2>2, <2>3, <2>4 DEF SameView
<1>7. CASE Tick
  <2>1. UNCHANGED <<need, acked, pc, writer>>
    BY <1>7, Zenon DEF Tick, rvars, wvars
  <2>2. /\ \A q \in Readers : pc[q] \in Swapping => svc.at[svc.next_serial] >= acked
        /\ writer.step = "mint" => svc.dirty
    BY Zenon DEF FreshInv
  <2> QED
    BY <1>1, <1>4, <1>7, <2>1, <2>2, TickFields DEF SameView, SameStore
<1>8. CASE FoldLock
  <2>1. UNCHANGED <<need, acked, pc>> /\ writer'.step # "mint"
    BY <1>8, WriterMoves, Zenon DEF FoldLock, rvars, wvars, Moves
  <2>2. \A q \in Readers : pc[q] \in Swapping => svc.at[svc.next_serial] >= acked /\ svc.next_serial \in Serials
    BY Zenon DEF FreshInv, SerialsOK
  <2>3. /\ svc'.tx = svc.tx /\ svc'.dirty = svc.dirty /\ svc'.elapsed = svc.elapsed
        /\ svc'.published = svc.published /\ svc'.next_serial = svc.next_serial
        /\ svc'.at \in {svc.at, [svc.at EXCEPT ![svc.published] = 0]}
    BY <1>8, FoldLockFields, Zenon DEF SameStore, SameFlags, DropView
  <2>4. svc'.at[svc'.published] \in {svc.at[svc.published], 0} 
    BY <1>1, <2>3, Zenon
  <2>5. svc.next_serial \in Serials => svc'.at[svc.next_serial] = svc.at[svc.next_serial]
    BY <1>1, <2>3, Zenon
  <2> QED
    BY <1>1, <1>4, <2>1, <2>2, <2>3, <2>4, <2>5
<1>9. CASE MarkDirty \/ WriterMintFails
  <2>1. /\ UNCHANGED <<need, pc>> /\ acked' \in {acked, svc.tx}
        /\ \A q \in Readers : pc[q] \notin Swapping
    BY <1>9, ServiceAssumption, Zenon DEF MarkDirty, WriterMintFails, LockOK, WriterOK, rvars
  <2>2. SameView(svc') /\ svc'.tx = svc.tx /\ svc'.elapsed = svc.elapsed /\ svc'.dirty
    <3>1. CASE MarkDirty
      BY <3>1, FoldFields, WriterMoves, Zenon DEF Moves
    <3>2. CASE WriterMintFails
      BY <3>2, WriterMoves, Zenon DEF WriterMintFails, SameView, FreshInv, Moves
    <3> QED
      BY <1>9, <3>1, <3>2, Zenon
  <2> QED
    BY <1>1, <2>1, <2>2 DEF FreshInv, SameView, Shows
<1>10. CASE WriterMint
  <2>1. /\ UNCHANGED <<need, pc>> /\ acked' = svc.tx /\ writer'.step = "held"
        /\ \A q \in Readers : pc[q] \notin Swapping
    BY <1>10, WriterMoves, ServiceAssumption, Zenon DEF WriterMint, LockOK, WriterOK, rvars, Moves
  <2>2. svc'.tx = svc.tx /\ svc'.at[svc'.published] = svc.tx
    <3>1. /\ svc'.tx = svc.tx /\ svc'.published = svc.next_serial /\ svc.next_serial \in Serials
          /\ svc'.at = [DropView(Shared(svc.published)) EXCEPT ![svc.next_serial] = svc.tx]
      BY <1>10, WriterMintFields, Zenon DEF SameStore, SerialsOK
    <3>2. DOMAIN DropView(Shared(svc.published)) = Serials
      BY <1>1, Zenon DEF DropView
    <3> QED
      BY <3>1, <3>2, Zenon
  <2> QED
    BY <1>1, <2>1, <2>2 DEF FreshInv, Shows
<1>11. ASSUME NEW r \in Readers, Swap(r)
       PROVE  FreshInv'
  <2>1. /\ UNCHANGED <<acked, writer>> /\ svc.at[svc.next_serial] >= acked /\ writer.step # "mint"
        /\ svc.next_serial \in Serials
        /\ need' \in {need, [need EXCEPT ![r] = 0]}
    <3>1. need = [need EXCEPT ![r] = need[r]]
      BY <1>1, Zenon
    <3> QED
      BY <1>11, <3>1, ServiceAssumption, Zenon DEF Swap, SerialsOK, Swapping, LockOK, WriterOK, FreshInv, wvars
  <2>2. \A q \in Readers : pc'[q] \notin Swapping
    BY <1>11, Zenon DEF Swap, LockOK, ReadersOK, Swapping
  <2>3. svc'.tx = svc.tx /\ svc'.at[svc'.published] = svc.at[svc.next_serial]
    <3>1. /\ svc'.tx = svc.tx /\ svc'.published = svc.next_serial
          /\ svc'.at \in {svc.at, [svc.at EXCEPT ![svc.published] = 0]}
      BY <1>11, <2>1, SwapFields, Zenon DEF SameStore, DropView
    <3> QED
      BY <1>1, <2>1, <3>1, Zenon
  <2>4. \A q \in Readers : need'[q] \in Nat /\ need'[q] <= acked
    BY <1>1, <2>1 DEF FreshInv
  <2>5. svc.at[svc.next_serial] \in Nat
    BY <1>1, <2>1, Zenon
  <2> QED
    BY <1>1, <2>1, <2>2, <2>3, <2>4, <2>5 DEF FreshInv, Shows
<1>12. ASSUME NEW r \in Readers, NEW n \in Serials, NEW v \in Nat, OneView(n, v),
              UNCHANGED <<need, acked, writer>>, v >= acked \/ n # svc.published,
              \A q \in Readers : pc'[q] \in {"enter", "clone"} => pc'[q] = pc[q],
              n = svc.next_serial => v >= acked,
              \A q \in Readers : pc'[q] \in Swapping => pc[q] \in Swapping \/ n = svc.next_serial
       PROVE  FreshInv'
  <2>1. /\ svc'.tx = svc.tx /\ svc'.dirty = svc.dirty /\ svc'.elapsed = svc.elapsed
        /\ svc'.published = svc.published /\ svc'.next_serial = svc.next_serial
        /\ svc'.at = [svc.at EXCEPT ![n] = v]
    BY <1>12, Zenon DEF OneView, SameStore, SameFlags
  <2>2. svc'.at[svc'.published] = svc.at[svc.published] \/ svc'.at[svc'.published] >= acked
    BY <1>1, <1>12, <2>1
  <2>3. \A q \in Readers : pc'[q] \in Swapping => svc'.at[svc'.next_serial] >= acked
    <3>1. \A q \in Readers : pc[q] \in Swapping => svc.at[svc.next_serial] >= acked /\ svc.next_serial \in Serials
      BY Zenon DEF FreshInv, SerialsOK
    <3> QED
      BY <1>1, <1>12, <2>1, <3>1
  <2>4. writer.step = "mint" => svc.dirty
    BY Zenon DEF FreshInv
  <2> QED
    BY <1>1, <1>4, <1>12, <2>1, <2>2, <2>3, <2>4
<1>13. ASSUME NEW r \in Readers, UNCHANGED <<svc, need, acked, writer>>,
              \A q \in Readers : /\ pc'[q] \in {"enter", "clone"} => pc'[q] = pc[q]
                                 /\ pc'[q] \in Swapping => pc[q] \in Swapping
       PROVE  FreshInv'
  BY <1>13, Zenon DEF FreshInv, Shows
<1>14. ASSUME NEW r \in Readers, Mint(r)
       PROVE  FreshInv'
  <2>1. svc.tx >= acked
    BY <1>1, Zenon DEF FreshInv
  <2>2. \A q \in Readers : pc'[q] \in {"enter", "clone"} => pc'[q] = pc[q]
    BY <1>14, Zenon DEF Mint, ReadersOK
  <2>3. UNCHANGED <<need, acked, writer>>
    BY <1>14, Zenon DEF Mint, wvars
  <2> QED
    BY <1>1, <1>12, <1>14, <2>1, <2>2, <2>3, MintFields, Zenon DEF OneView
<1>15. ASSUME NEW r \in Readers, Walk(r) \/ PrivateMint(r) \/ LetGo(r)
       PROVE  FreshInv'
  <2>1. UNCHANGED <<need, acked, writer>> /\ view[r] \in Serials /\ view[r] # svc.next_serial
    BY <1>3, <1>15, Zenon DEF Walk, PrivateMint, LetGo, wvars, Holding
  <2>2. \A q \in Readers : /\ pc'[q] \in {"enter", "clone"} => pc'[q] = pc[q]
                           /\ pc'[q] \in Swapping => pc[q] \in Swapping
    BY <1>15, Zenon DEF Walk, PrivateMint, LetGo, ReadersOK, Swapping
  <2>3. svc.tx >= acked /\ 0 \in Nat
    BY <1>1, Zenon DEF FreshInv
  <2>4. PrivateMint(r) => view[r] # svc.published
    BY Zenon DEF PrivateMint, SerialsOK
  <2>5. \/ svc' = svc
        \/ \E v \in Nat : OneView(view[r], v) /\ (v >= acked \/ view[r] # svc.published)
    BY <1>1, <1>15, <2>1, <2>3, <2>4, WalkFields, PrivateFields, LetGoFields, Zenon
  <2> QED
    BY <1>12, <1>13, <2>1, <2>2, <2>5, Zenon
<1>16. ASSUME NEW r \in Readers, OpenReader(r)
       PROVE  FreshInv'
  <2>1. UNCHANGED <<need, acked, writer>>
    BY <1>16, Zenon DEF OpenReader, wvars
  <2>2. \A q \in Readers : pc'[q] \notin Swapping /\ (pc'[q] \in {"enter", "clone"} => pc'[q] = pc[q])
    BY <1>16, ServiceAssumption, Zenon DEF OpenReader, ReadersOK, LockOK, Swapping
  <2>3. writer.step = "mint" => svc.dirty
    BY Zenon DEF FreshInv
  <2> QED
    BY <1>1, <1>4, <1>16, <2>1, <2>2, <2>3, OpenReaderFields DEF SameStore, SameFlags
(* The way of a reader to its view. *)
<1>17. ASSUME NEW r \in Readers, NEW p \in Places \ Swapping, NEW n \in Nat,
              UNCHANGED <<svc, acked, writer>>, pc' = [pc EXCEPT ![r] = p], need' = [need EXCEPT ![r] = n],
              n <= acked, p = "enter" => svc.elapsed \/ Shows(n), p = "clone" => Shows(n)
       PROVE  FreshInv'
  <2>1. pc \in [Readers -> Places]
    BY Zenon DEF ReadersOK
  <2> QED
    BY <1>1, <1>17, <2>1, Zenon DEF FreshInv, Shows
<1>18. Shows(0) /\ 0 <= acked /\ acked <= acked
  BY <1>1 DEF Shows
<1>19. {"enter", "mint", "mint now", "clone", "idle", "hold"} \subseteq Places \ Swapping
  BY Zenon DEF Places, Swapping, Minting, Holding
<1>20. ASSUME NEW r \in Readers, Enter(r) \/ PublishNow(r) \/ MintFails(r) \/ Clone(r)
       PROVE  FreshInv'
  <2>1. UNCHANGED <<svc, acked, writer>>
    BY <1>20, Zenon DEF Enter, PublishNow, MintFails, Clone, wvars
  <2>2. CASE Enter(r)
    BY <1>1, <1>17, <1>18, <1>19, <2>1, <2>2, Zenon DEF Enter
  <2>3. CASE PublishNow(r)
    BY <1>1, <1>17, <1>18, <1>19, <2>1, <2>3, Zenon DEF PublishNow
  <2>4. CASE MintFails(r) \/ Clone(r)
    BY <1>1, <1>17, <1>18, <1>19, <2>1, <2>4, Zenon DEF MintFails, Clone
  <2> QED
    BY <1>20, <2>2, <2>3, <2>4, Zenon
<1>21. ASSUME NEW r \in Readers, PublishIfDue(r)
       PROVE  FreshInv'
  <2>1. UNCHANGED <<svc, acked, writer>> /\ need' = [need EXCEPT ![r] = need[r]]
    BY <1>1, <1>21, Zenon DEF PublishIfDue, wvars
  <2>2. need[r] \in Nat /\ need[r] <= acked
    BY <1>1, Zenon DEF FreshInv
  <2>3. PublishDue(svc) \/ Shows(need[r])
    <3>1. CASE ~svc.dirty
      BY <1>1, <2>2, <3>1 DEF FreshInv, Shows
    <3>2. CASE ~svc.elapsed
      BY <1>21, <3>2, Zenon DEF FreshInv, PublishIfDue
    <3> QED
      BY <3>1, <3>2, Zenon DEF PublishDue
  <2> QED
    BY <1>17, <1>19, <1>21, <2>1, <2>2, <2>3, Zenon DEF PublishIfDue
<1>22. CASE TakeWriter \/ Deliver \/ \E c \in Subs : Subscribe(c) \/ Recv(c) \/ Unsubscribe(c) \/ DropReceiver(c)
  <2>1. UNCHANGED <<svc, acked, need, pc>>
    BY <1>22, Zenon DEF TakeWriter, Deliver, Subscribe, Recv, Unsubscribe, DropReceiver, rvars, wvars
  <2>2. writer'.step = "mint" => writer.step = "mint"
    BY <1>22, WriterMoves, Zenon DEF Subscribe, Recv, Unsubscribe, DropReceiver, Moves
  <2> QED
    BY <2>1, <2>2, Zenon DEF FreshInv, Shows
<1> QED
  BY <1>5, <1>6, <1>7, <1>8, <1>9, <1>10, <1>11, <1>14, <1>15, <1>16, <1>20, <1>21, <1>22, Zenon
  DEF Next, WriterStep, ReaderStep
-----------------------------------------------------------------------------
(* The guard.  Outside of a guard there is no batch and no uncommitted work *)
(* unless the handle failed; inside of one, no batch without work or a      *)
(* recorded statement; and a running statement adds to what there was when  *)
(* it began, and takes back no more than it added since it last committed.  *)

Began(n) == n > 0 \/ writer.empty \/ writer.batch = NoBatch

GuardInv ==
  /\ GuardCommitsItsOwn
  /\ writer.step \notin InHand => Blank(writer)
  /\ writer.step = "held" /\ ~svc.failed => Began(Made)
  /\ InStatement /\ ~svc.failed =>
       /\ Began(writer.from) /\ writer.from <= Made
       /\ writer.step = "ddl" => writer.from <= writer.early

LEMMA ReaderLeavesStore ==
  ASSUME ControlInv, NEW r \in Readers,
         Enter(r) \/ PublishNow(r) \/ Walk(r) \/ LetGo(r) \/ OpenReader(r) \/ ReaderStep(r)
  PROVE  UNCHANGED <<writer, feed, late>> /\ (svc' = svc \/ SameStore(svc'))
<1> USE DEF ControlInv
<1>1. UNCHANGED <<writer, feed, late>>
  BY Zenon DEF Enter, PublishNow, Walk, LetGo, OpenReader, ReaderStep, PublishIfDue, Mint,
         MintFails, Swap, Clone, PrivateMint, wvars, fvars
<1>2. \A q \in Readers : pc[q] \in Holding => view[q] \in Serials
  BY DEF ReadersOK, SerialsOK, Serials
<1>3. CASE Enter(r) \/ PublishNow(r) \/ PublishIfDue(r) \/ MintFails(r) \/ Clone(r)
  BY <1>1, <1>3, Zenon DEF Enter, PublishNow, PublishIfDue, MintFails, Clone
<1>4. CASE Walk(r) \/ LetGo(r) \/ PrivateMint(r)
  <2>1. view[r] \in Serials
    BY <1>2, <1>4, Zenon DEF Walk, LetGo, PrivateMint, Holding
  <2> QED
    BY <1>1, <1>4, <2>1, WalkFields, LetGoFields, PrivateFields, Zenon DEF OneView
<1>5. CASE OpenReader(r) \/ Mint(r)
  BY <1>1, <1>5, OpenReaderFields, MintFields, Zenon DEF OneView
<1>6. CASE Swap(r)
  <2>1. svc.next_serial \in Serials
    BY <1>6, Zenon DEF Swap, SerialsOK, Swapping
  <2> QED
    BY <1>1, <1>6, <2>1, SwapFields, Zenon
<1> QED
  BY <1>3, <1>4, <1>5, <1>6, Zenon DEF ReaderStep

LEMMA GuardInit == Init => GuardInv
BY DEF Init, GuardInv, GuardCommitsItsOwn, Idle, Service0, InHand, InStatement, Blank

(* What a step of a statement does to the batch and to how much of it there *)
(* is.                                                                      *)
LEMMA SqlFields ==
  ASSUME svc \in ServiceState, WriterOK
  PROVE  /\ BeginSql => /\ UNCHANGED svc /\ writer.step = "held" /\ writer'.step = "sql" /\ KeepsBatch
                        /\ writer'.from = Made
         /\ SqlWrite => /\ UNCHANGED writer /\ InStatement /\ ~svc.failed
                        /\ svc'.work = svc.work + 1 /\ svc'.failed = svc.failed
         /\ SqlBarrier => /\ writer'.step = "ddl" /\ InStatement /\ ~svc.failed
                          /\ svc'.work = 0 /\ writer'.early = Made
                          /\ UNCHANGED <<writer.batch, writer.empty, writer.quiet, writer.from>>
         /\ SqlUndo => /\ UNCHANGED writer /\ writer.step = "ddl" /\ ~svc.failed
                       /\ (svc'.work = 0 \/ svc'.failed)
         /\ SqlAffected => /\ UNCHANGED <<svc, writer.early, writer.quiet>> /\ InStatement /\ ~svc.failed
                           /\ writer'.step = "held" /\ writer'.batch = Noted(NoteUnnamed(writer.batch))
                           /\ writer'.empty = (writer.empty \/ Made = writer.from)
         /\ SqlUnrecorded => /\ UNCHANGED <<svc, writer.early, writer.batch, writer.empty>> /\ InStatement
                             /\ writer'.step = "held"
                             /\ writer'.quiet = (writer.quiet \/ Made # writer.from)
<1> USE DEF WriterOK, KeepsBatch
<1>1. BeginSql => /\ UNCHANGED svc /\ writer.step = "held" /\ writer'.step = "sql" /\ KeepsBatch
                  /\ writer'.from = Made
  BY Zenon DEF BeginSql
<1>2. SqlWrite => /\ UNCHANGED writer /\ InStatement /\ ~svc.failed
                  /\ svc'.work = svc.work + 1 /\ svc'.failed = svc.failed
  BY Zenon DEF SqlWrite, CanWrite, ServiceState
<1>3. SqlBarrier => /\ writer'.step = "ddl" /\ InStatement /\ ~svc.failed
                    /\ svc'.work = 0 /\ writer'.early = Made
                    /\ UNCHANGED <<writer.batch, writer.empty, writer.quiet, writer.from>>
  BY CommittedFields, Zenon DEF SqlBarrier
<1>4. SqlUndo => /\ UNCHANGED writer /\ writer.step = "ddl" /\ ~svc.failed
                 /\ (svc'.work = 0 \/ svc'.failed)
  BY RollbackFields, Zenon DEF SqlUndo
<1>5. SqlAffected => /\ UNCHANGED <<svc, writer.early, writer.quiet>> /\ InStatement /\ ~svc.failed
                     /\ writer'.step = "held" /\ writer'.batch = Noted(NoteUnnamed(writer.batch))
                     /\ writer'.empty = (writer.empty \/ Made = writer.from)
  BY Zenon DEF SqlAffected
<1>6. SqlUnrecorded => /\ UNCHANGED <<svc, writer.early, writer.batch, writer.empty>> /\ InStatement
                       /\ writer'.step = "held"
                       /\ writer'.quiet = (writer.quiet \/ Made # writer.from)
  BY Zenon DEF SqlUnrecorded
<1> QED
  BY <1>1, <1>2, <1>3, <1>4, <1>5, <1>6, Zenon

LEMMA SqlGuard == ControlInv /\ GuardInv /\ SqlStep => GuardInv'
<1> SUFFICES ASSUME svc \in ServiceState, WriterOK, GuardInv, SqlStep PROVE GuardInv'
  BY Zenon DEF ControlInv
<1>1. /\ svc.work \in Nat /\ writer.early \in Nat /\ writer.from \in Nat /\ Made \in Nat
      /\ Made = svc.work + writer.early
  BY DEF ServiceState, WriterOK, Made
<1>2. /\ writer.step = "held" /\ ~svc.failed => Began(Made)
      /\ InStatement /\ ~svc.failed =>
           /\ Began(writer.from) /\ writer.from <= Made
           /\ writer.step = "ddl" => writer.from <= writer.early
  BY Zenon DEF GuardInv
<1>3. ASSUME writer'.step = "held", ~svc'.failed => Began(Made)' PROVE GuardInv'
  BY <1>3, Zenon DEF GuardInv, GuardCommitsItsOwn, InHand, InStatement
<1>4. ASSUME writer'.step \in {"sql", "ddl"},
             ~svc'.failed => /\ Began(writer.from)' /\ writer'.from <= Made'
                             /\ writer'.step = "ddl" => writer'.from <= writer'.early
      PROVE  GuardInv'
  BY <1>4, Zenon DEF GuardInv, GuardCommitsItsOwn, InHand, InStatement
<1>5. CASE BeginSql
  <2>1. UNCHANGED svc /\ writer.step = "held" /\ writer'.step = "sql" /\ KeepsBatch /\ writer'.from = Made
        /\ ~svc.failed
    BY <1>5, SqlFields, Zenon DEF BeginSql
  <2>2. Made' = Made /\ Made <= Made
    BY <1>1, <2>1 DEF Made, KeepsBatch
  <2> QED
    BY <1>2, <1>4, <2>1, <2>2, Zenon DEF Began, KeepsBatch
<1>6. CASE SqlWrite
  <2>1. UNCHANGED writer /\ InStatement /\ ~svc.failed /\ svc'.work = svc.work + 1
    BY <1>6, SqlFields, Zenon
  <2>2. Made' = Made + 1 /\ (writer.from <= Made => writer.from <= Made + 1)
    BY <1>1, <2>1 DEF Made
  <2> QED
    BY <1>2, <1>4, <2>1, <2>2, Zenon DEF Began, InStatement
<1>7. CASE SqlBarrier
  <2>1. /\ writer'.step = "ddl" /\ InStatement /\ ~svc.failed /\ svc'.work = 0 /\ writer'.early = Made
        /\ UNCHANGED <<writer.batch, writer.empty, writer.quiet, writer.from>>
    BY <1>7, SqlFields, Zenon
  <2>2. Made' = Made
    BY <1>1, <2>1 DEF Made
  <2> QED
    BY <1>2, <1>4, <2>1, <2>2, Zenon DEF Began
<1>8. CASE SqlUndo
  <2>1. UNCHANGED writer /\ writer.step = "ddl" /\ ~svc.failed /\ (svc'.work = 0 \/ svc'.failed)
    BY <1>8, SqlFields, Zenon
  <2>2. svc'.work = 0 => Made' = writer.early
    BY <1>1, <2>1 DEF Made
  <2> QED
    BY <1>2, <1>4, <2>1, <2>2, Zenon DEF Began, InStatement
<1>9. CASE SqlAffected
  <2>1. /\ UNCHANGED <<svc, writer.early>> /\ InStatement /\ ~svc.failed /\ writer'.step = "held"
        /\ writer'.empty = (writer.empty \/ Made = writer.from)
    BY <1>9, SqlFields, Zenon
  <2>2. Made' = Made /\ (writer.from <= Made => Made > 0 \/ Made = writer.from)
    BY <1>1, <2>1 DEF Made
  <2> QED
    BY <1>2, <1>3, <2>1, <2>2, Zenon DEF Began
<1>10. CASE SqlUnrecorded
  <2>1. /\ UNCHANGED <<svc, writer.early, writer.batch, writer.empty>> /\ InStatement /\ writer'.step = "held"
    BY <1>10, SqlFields, Zenon
  <2>2. Made' = Made /\ (writer.from <= Made /\ writer.from > 0 => Made > 0)
    BY <1>1, <2>1 DEF Made
  <2> QED
    BY <1>2, <1>3, <2>1, <2>2, Zenon DEF Began
<1> QED
  BY <1>5, <1>6, <1>7, <1>8, <1>9, <1>10, Zenon DEF SqlStep

LEMMA GuardStep == ControlInv /\ GuardInv /\ Next => GuardInv'
<1> SUFFICES ASSUME ControlInv, GuardInv, Next PROVE GuardInv'
  BY Zenon
<1> USE DEF ControlInv
<1>1. /\ svc.work \in Nat /\ svc' \in ServiceState /\ svc'.work \in Nat /\ writer.early \in Nat
      /\ writer.from \in Nat /\ Made \in Nat
  BY SerialsStepOK DEF ServiceState, WriterOK, Made
<1>2. ASSUME UNCHANGED writer, svc'.work = svc.work, svc'.failed = svc.failed PROVE GuardInv'
  BY <1>2, Zenon DEF GuardInv, GuardCommitsItsOwn, Blank, Began, InStatement, Made
<1>13. ASSUME Blank(writer'), writer'.step \notin {"sql", "ddl"},
              writer'.step \notin InHand => svc'.work = 0 \/ svc'.failed
       PROVE  GuardInv'
  BY <1>13, Zenon DEF GuardInv, GuardCommitsItsOwn, Blank, Began, InHand, InStatement
<1>3. CASE TakeWriter \/ Deliver
  <2>1. UNCHANGED svc /\ Blank(writer') /\ writer.step \notin InHand /\ writer'.step \notin {"sql", "ddl"}
    BY <1>3, WriterMoves, Zenon DEF TakeWriter, Deliver, Moves, InHand
  <2> QED
    BY <1>13, <2>1, Zenon DEF GuardInv, GuardCommitsItsOwn, InHand
<1>4. CASE NotDue \/ Checkpoint \/ MarkDirty \/ FoldLock \/ WriterMint \/ WriterMintFails
  <2>1. svc'.work = svc.work /\ (svc.failed => svc'.failed)
    <3>1. CASE NotDue \/ Checkpoint \/ MarkDirty
      BY <3>1, FoldFields, Zenon
    <3>2. CASE FoldLock \/ WriterMint
      BY <3>2, FoldLockFields, WriterMintFields, Zenon DEF SerialsOK, SameStore
    <3>3. CASE WriterMintFails
      BY <3>3, Zenon DEF WriterMintFails
    <3> QED
      BY <1>4, <3>1, <3>2, <3>3, Zenon
  <2>2. KeepsBatch /\ writer.step \notin InHand /\ writer'.step \notin {"sql", "ddl"}
    BY <1>4, WriterMoves, Zenon DEF Moves, InHand
  <2>3. Blank(writer')
    BY <2>2, Zenon DEF GuardInv, Blank, KeepsBatch
  <2> QED
    BY <1>13, <2>1, <2>2, <2>3, Zenon DEF GuardInv, GuardCommitsItsOwn, InHand
<1>6. CASE Put \/ PutEdge
  <2>1. svc'.work = svc.work + 1 /\ Moves("held", "held")
    BY <1>6, WriterMoves, Zenon DEF Put, PutEdge, Recorded, ServiceState
  <2>2. writer'.early = writer.early
    BY <1>6, Zenon DEF Put, PutEdge, Recorded, WriterOK
  <2>3. Made' > 0
    BY <1>1, <2>1, <2>2 DEF Made
  <2> QED
    BY <2>1, <2>3, Zenon DEF GuardInv, GuardCommitsItsOwn, Moves, InHand, InStatement, Began
<1>8. CASE PutFails \/ CommitFails
  <2>1. svc'.failed = TRUE /\ UNCHANGED writer /\ writer.step \in InHand
    BY <1>8, WriterMoves, Zenon DEF PutFails, CommitFails, ServiceState
  <2> QED
    BY <2>1, Zenon DEF GuardInv, GuardCommitsItsOwn, InHand
<1>7. CASE Commit
  <2>1. svc'.work = 0 /\ Blank(writer') /\ writer'.step \notin {"sql", "ddl"}
    <3>1. svc'.work = 0 /\ Blank(writer')
      BY <1>7, CommittedFields, WriterMoves, Zenon DEF Commit
    <3>2. writer'.step = IF writer.batch.touched THEN "deliver" ELSE "fold"
      BY <1>7, WriterMoves, Zenon DEF Moves
    <3> QED
      BY <3>1, <3>2, Zenon
  <2> QED
    BY <1>13, <2>1, Zenon
<1>9. CASE Rollback
  BY <1>9, <1>13, WriterMoves, Zenon DEF Moves, InHand
<1>10. CASE DropGuard
  <2>1. Blank(writer') /\ writer'.step = "free"
    BY <1>10, WriterMoves, Zenon DEF Moves
  <2>2. svc'.work = 0 \/ svc'.failed = TRUE
    <3>1. CASE LeavesWork
      BY <1>10, <3>1, RollbackFields, Zenon DEF DropGuard
    <3>2. CASE ~LeavesWork
      BY <1>1, <1>10, <3>2 DEF DropGuard, LeavesWork
    <3> QED
      BY <3>1, <3>2, Zenon
  <2> QED
    BY <1>13, <2>1, <2>2, Zenon
<1>5. CASE SqlStep
  BY <1>1, <1>5, SqlGuard, Zenon
<1>11. ASSUME NEW r \in Readers,
              Enter(r) \/ PublishNow(r) \/ Walk(r) \/ LetGo(r) \/ OpenReader(r) \/ ReaderStep(r)
       PROVE  GuardInv'
  <2>1. UNCHANGED writer /\ (svc' = svc \/ SameStore(svc'))
    BY <1>11, ReaderLeavesStore, Zenon
  <2> QED
    BY <1>2, <2>1, Zenon DEF SameStore
<1>12. CASE Tick \/ \E c \in Subs : Subscribe(c) \/ Recv(c) \/ Unsubscribe(c) \/ DropReceiver(c)
  <2>1. UNCHANGED writer /\ (svc' = svc \/ SameStore(svc'))
    BY <1>12, TickFields, Zenon DEF Tick, Subscribe, Recv, Unsubscribe, DropReceiver
  <2> QED
    BY <1>2, <2>1, Zenon DEF SameStore
<1> QED
  BY <1>3, <1>4, <1>5, <1>6, <1>7, <1>8, <1>9, <1>10, <1>11, <1>12, Zenon DEF Next, WriterStep
-----------------------------------------------------------------------------
(* The feed.  For a subscriber that listens, what it got, has queued, lost  *)
(* and waits for is what it was owed; and from the first event it was       *)
(* given on, every event was given to it or counted as lost.  The first is  *)
(* never lost, since its queue was empty then.                              *)

Pending == IF writer.step = "deliver" THEN 1 ELSE 0
In(c) == ledger[c].got + Len(feed[c].queue)
Hears(c) == feed[c].live /\ ~feed[c].gone

Sums(in, lagged, pending, owed, first, last, seq) ==
  /\ in + lagged + pending = owed
  /\ in = 0 => lagged = 0 /\ first = 0 /\ last = 0
  /\ in > 0 => /\ 1 <= first /\ first <= last /\ last <= seq
               /\ in + lagged = seq - first + 1

Adds(c) == Sums(In(c), feed[c].lagged, Pending, ledger[c].owed, ledger[c].first, ledger[c].last, sequence)

FeedInv ==
  /\ FeedOK
  /\ \A c \in Subs : /\ ~feed[c].live => feed[c].queue = <<>>
                     /\ ~Hears(c) => ledger[c] = NoLedger
                     /\ Hears(c) => Adds(c)

(* A batch is owed, delivered, lost, received. *)
LEMMA SumsMove ==
  ASSUME NEW i \in Nat, NEW l \in Nat, NEW o \in Nat, NEW f \in Nat, NEW t \in Nat, NEW s \in Nat
  PROVE  /\ Sums(i, l, 1, o, f, t, s) => Sums(i + 1, l, 0, o, IF f = 0 THEN s + 1 ELSE f, s + 1, s + 1)
         /\ Sums(i, l, 1, o, f, t, s) /\ i > 0 => Sums(i, l + 1, 0, o, f, t, s + 1)
         /\ \A p \in {0, 1} : Sums(0, 0, p, p, 0, 0, s)
BY DEF Sums

Gaps(in, first, last) == IF in = 0 THEN 0 ELSE last - first + 1 - in

LEMMA SumsOwed ==
  ASSUME NEW i \in Nat, NEW l \in Nat, NEW o \in Nat, NEW f, NEW t, NEW s, NEW p \in {0, 1},
         Sums(i, l, 0, o, f, t, s)
  PROVE  Sums(i, l, p, o + p, f, t, s)
BY DEF Sums

LEMMA FeedInit == Init => FeedInv
<1> SUFFICES ASSUME Init PROVE FeedInv
  BY Zenon
<1>1. FeedOK
  BY DEF Init, FeedOK, Subscription, Ledger, NoSubscription, NoLedger
<1>2. ASSUME NEW c \in Subs
      PROVE  ~feed[c].live /\ feed[c].queue = <<>> /\ ledger[c] = NoLedger
  BY Zenon DEF Init, NoSubscription
<1> QED
  BY <1>1, <1>2, Zenon DEF FeedInv, Hears

LEMMA OfferedFields ==
  ASSUME NEW sub \in Subscription, NEW e \in Nat
  PROVE  LET o == Offered(sub, e)
         IN  /\ o \in Subscription
             /\ ~sub.live => o = sub
             /\ sub.live /\ sub.gone => ~o.live /\ o.queue = <<>>
             /\ sub.live /\ ~sub.gone =>
                  /\ o.live /\ ~o.gone
                  /\ \/ Len(o.queue) = Len(sub.queue) + 1 /\ o.lagged = sub.lagged
                     \/ /\ Len(o.queue) = Len(sub.queue) /\ o.lagged = sub.lagged + 1
                        /\ Len(sub.queue) > 0
<1>1. CASE ~sub.live
  BY <1>1, Zenon DEF Offered
<1>2. CASE sub.live /\ sub.gone
  BY <1>2 DEF Offered, NoSubscription, Subscription
<1>3. CASE sub.live /\ ~sub.gone /\ Len(sub.queue) < QueueBound
  <2>1. Append(sub.queue, e) \in Seq(Nat) /\ Len(Append(sub.queue, e)) = Len(sub.queue) + 1
    BY DEF Subscription
  <2>2. Offered(sub, e) = [sub EXCEPT !.queue = Append(sub.queue, e)]
    BY <1>3, Zenon DEF Offered
  <2> QED
    BY <1>3, <2>1, <2>2, Zenon DEF Subscription
<1>4. CASE sub.live /\ ~sub.gone /\ ~(Len(sub.queue) < QueueBound)
  <2>1. Len(sub.queue) > 0 /\ sub.lagged + 1 \in Nat
    BY <1>4, ServiceOpsAssumption DEF Subscription
  <2>2. Offered(sub, e) = [sub EXCEPT !.lagged = sub.lagged + 1]
    BY <1>4, Zenon DEF Offered
  <2> QED
    BY <1>4, <2>1, <2>2, Zenon DEF Subscription
<1> QED
  BY <1>1, <1>2, <1>3, <1>4, Zenon

(* The steps that have nothing to do with the feed. *)
LEMMA FeedApart ==
  ASSUME ControlInv, Next,
         ~Commit, ~Deliver,
         \A c \in Subs : ~Subscribe(c) /\ ~Recv(c) /\ ~Unsubscribe(c) /\ ~DropReceiver(c)
  PROVE  UNCHANGED fvars /\ (writer.step = "deliver" <=> writer'.step = "deliver")
<1> USE DEF ControlInv
<1>1. CASE \/ TakeWriter \/ Put \/ PutEdge \/ PutFails \/ SqlStep \/ CommitFails \/ Rollback \/ DropGuard
           \/ NotDue \/ FoldLock \/ Checkpoint \/ MarkDirty \/ WriterMint \/ WriterMintFails
  <2>1. UNCHANGED fvars
    BY <1>1, SqlApart, Zenon DEF TakeWriter, Put, PutEdge, Recorded, PutFails, CommitFails, Rollback, DropGuard,
                NotDue, FoldLock, Checkpoint, MarkDirty, WriterMint, WriterMintFails, fvars
  <2>2. writer.step = "deliver" <=> writer'.step = "deliver"
    BY <1>1, WriterMoves, SqlApart, Zenon DEF Moves, InHand
  <2> QED
    BY <2>1, <2>2, Zenon
<1>2. ASSUME NEW r \in Readers,
             Enter(r) \/ PublishNow(r) \/ Walk(r) \/ LetGo(r) \/ OpenReader(r) \/ ReaderStep(r)
      PROVE  UNCHANGED <<fvars, writer>>
  BY <1>2, Zenon DEF Enter, PublishNow, Walk, LetGo, OpenReader, ReaderStep, PublishIfDue, Mint,
              MintFails, Swap, Clone, PrivateMint
<1>3. CASE Tick
  BY <1>3, Zenon DEF Tick
<1> QED
  BY <1>1, <1>2, <1>3, Zenon DEF Next, WriterStep

LEMMA LateStep == WriterOK /\ late \subseteq Subs /\ Next => late' \subseteq Subs
<1> SUFFICES ASSUME WriterOK, late \subseteq Subs, Next PROVE late' \subseteq Subs
  BY Zenon
<1>1. CASE \/ TakeWriter \/ Put \/ PutEdge \/ PutFails \/ SqlStep \/ Commit \/ CommitFails \/ Rollback
           \/ DropGuard \/ WriterStep \/ Tick
  BY <1>1, SqlApart, Zenon DEF TakeWriter, Put, PutEdge, Recorded, PutFails, Commit, CommitFails, Rollback, DropGuard,
              WriterStep, Deliver, NotDue, FoldLock, Checkpoint, MarkDirty, WriterMint, WriterMintFails,
              Tick, wvars
<1>2. ASSUME NEW r \in Readers,
             Enter(r) \/ PublishNow(r) \/ Walk(r) \/ LetGo(r) \/ OpenReader(r) \/ ReaderStep(r)
      PROVE  late' \subseteq Subs
  BY <1>2, Zenon DEF Enter, PublishNow, Walk, LetGo, OpenReader, ReaderStep, PublishIfDue, Mint,
              MintFails, Swap, Clone, PrivateMint, wvars
<1>3. ASSUME NEW c \in Subs, Subscribe(c) \/ Recv(c) \/ Unsubscribe(c) \/ DropReceiver(c)
      PROVE  late' \subseteq Subs
  BY <1>3, Zenon DEF Subscribe, Recv, Unsubscribe, DropReceiver, wvars
<1> QED
  BY <1>1, <1>2, <1>3, Zenon DEF Next

LEMMA FeedStep == ControlInv /\ FeedInv /\ Next => FeedInv'
<1> SUFFICES ASSUME ControlInv, FeedInv, Next PROVE FeedInv'
  BY Zenon
<1> USE DEF ControlInv
<1>1. /\ sequence \in Nat /\ feed \in [Subs -> Subscription] /\ ledger \in [Subs -> Ledger] /\ late \subseteq Subs
  BY Zenon DEF FeedInv, FeedOK
<1>2. \A c \in Subs : /\ feed[c] \in Subscription /\ Len(feed[c].queue) \in Nat /\ feed[c].lagged \in Nat
                      /\ ledger[c].owed \in Nat /\ ledger[c].got \in Nat
                      /\ ledger[c].first \in Nat /\ ledger[c].last \in Nat
  BY <1>1 DEF Subscription, Ledger
<1>3. CASE Commit
  <2>1. UNCHANGED <<feed, sequence>> /\ late' = {} /\ writer.step = "held"
    BY <1>3, Zenon DEF Commit
  <2>2. writer'.step = "deliver" <=> writer.batch.touched
    BY <1>3, WriterMoves, Zenon DEF Moves
  <2>3. ledger' = [c \in Subs |-> IF Hears(c) /\ writer.batch.touched
                                  THEN [ledger[c] EXCEPT !.owed = @ + 1] ELSE ledger[c]]
    BY <1>3, Zenon DEF Commit, Hears
  <2>4. ASSUME NEW c \in Subs
        PROVE  /\ ledger'[c] \in Ledger /\ In(c)' = In(c) /\ ledger'[c].first = ledger[c].first
               /\ ledger'[c].last = ledger[c].last
               /\ (Hears(c) => ledger'[c].owed = ledger[c].owed + Pending')
               /\ (~Hears(c) => ledger'[c] = ledger[c])
    <3>1. CASE Hears(c) /\ writer.batch.touched
      <4>1. ledger'[c] = [ledger[c] EXCEPT !.owed = @ + 1] /\ ledger[c].owed + 1 \in Nat /\ Pending' = 1
        BY <1>2, <2>2, <2>3, <3>1 DEF Pending
      <4> QED
        BY <1>1, <2>1, <3>1, <4>1 DEF Ledger, In
    <3>2. CASE ~(Hears(c) /\ writer.batch.touched)
      <4>1. ledger'[c] = ledger[c]
        BY <2>3, <3>2, Zenon
      <4>2. Hears(c) => Pending' = 0
        BY <2>2, <3>2, Zenon DEF Pending
      <4> QED
        BY <1>1, <1>2, <2>1, <4>1, <4>2 DEF In
    <3> QED
      BY <3>1, <3>2, Zenon
  <2>5. FeedOK'
    BY <1>1, <2>1, <2>3, <2>4, Zenon DEF FeedOK
  <2>6. ASSUME NEW c \in Subs, Hears(c)
        PROVE  Adds(c)'
    <3>0. In(c) \in Nat /\ Adds(c)
      <4>1. ledger[c].got \in Nat /\ Len(feed[c].queue) \in Nat
        BY <1>2, Zenon
      <4> QED
        BY <2>6, <4>1 DEF FeedInv, In
    <3>1. Adds(c) /\ Pending = 0 /\ Pending' \in {0, 1} /\ In(c) \in Nat
      BY <2>1, <3>0, Zenon DEF Pending
    <3>2. PICK p \in {0, 1} : p = Pending'
      BY <3>1, Zenon
    <3>3. Sums(In(c), feed[c].lagged, 0, ledger[c].owed, ledger[c].first, ledger[c].last, sequence)
      BY <3>1, Zenon DEF Adds
    <3>4. Sums(In(c), feed[c].lagged, p, ledger[c].owed + p, ledger[c].first, ledger[c].last, sequence)
      BY <1>2, <3>1, <3>3, SumsOwed, Zenon
    <3> QED
      BY <2>1, <2>4, <2>6, <3>2, <3>4, Zenon DEF Adds
  <2> QED
    BY <2>1, <2>4, <2>5, <2>6, Zenon DEF FeedInv, Hears
<1>4. CASE Deliver
  <2>1. /\ sequence' = sequence + 1 /\ feed' = [c \in Subs |-> Offered(feed[c], sequence')]
        /\ UNCHANGED late /\ Pending = 1 /\ Pending' = 0
    BY <1>1, <1>4, WriterMoves, Zenon DEF Deliver, Delivered, wvars, Pending, Moves
  <2>2. ledger' = [c \in Subs |-> IF Len(feed'[c].queue) > Len(feed[c].queue)
                     THEN [ledger[c] EXCEPT !.first = IF @ = 0 THEN sequence' ELSE @, !.last = sequence']
                     ELSE ledger[c]]
    BY <1>4, Zenon DEF Deliver
  <2>3. ASSUME NEW c \in Subs
        PROVE  /\ feed'[c] \in Subscription
               /\ ~feed[c].live => feed'[c] = feed[c]
               /\ feed[c].live /\ feed[c].gone => ~feed'[c].live /\ feed'[c].queue = <<>>
               /\ Hears(c) => /\ Hears(c)'
                              /\ \/ /\ Len(feed'[c].queue) = Len(feed[c].queue) + 1
                                    /\ feed'[c].lagged = feed[c].lagged
                                 \/ /\ Len(feed'[c].queue) = Len(feed[c].queue) /\ Len(feed[c].queue) > 0
                                    /\ feed'[c].lagged = feed[c].lagged + 1
    <3>1. feed'[c] = Offered(feed[c], sequence') /\ sequence' \in Nat /\ feed[c] \in Subscription
      BY <1>1, <2>1
    <3> QED
      BY <3>1, OfferedFields DEF Hears
  <2>4. ASSUME NEW c \in Subs, ~Hears(c)
        PROVE  /\ ledger'[c] = ledger[c] /\ ~Hears(c)' /\ (~feed'[c].live => feed'[c].queue = <<>>)
    <3>1. ~feed[c].live => feed[c].queue = <<>>
      BY Zenon DEF FeedInv
    <3>2. ~Hears(c)' /\ (~feed'[c].live => feed'[c].queue = <<>>)
      BY <2>3, <2>4, <3>1, Zenon DEF Hears
    <3>3. ~(Len(feed'[c].queue) > Len(feed[c].queue))
      <4>1. CASE ~feed[c].live
        <5>1. feed'[c] = feed[c]
          BY <2>3, <4>1, Zenon
        <5> QED
          BY <1>2, <5>1
      <4>2. CASE feed[c].live
        <5>1. Len(feed'[c].queue) = 0
          BY <2>3, <2>4, <4>2 DEF Hears
        <5> QED
          BY <1>2, <5>1
      <4> QED
        BY <4>1, <4>2, Zenon
    <3> QED
      BY <2>2, <3>2, <3>3, Zenon
  <2>5. ASSUME NEW c \in Subs, Hears(c)
        PROVE  ledger'[c] \in Ledger /\ Adds(c)'
    <3>1. Sums(In(c), feed[c].lagged, 1, ledger[c].owed, ledger[c].first, ledger[c].last, sequence)
          /\ In(c) \in Nat
      BY <1>2, <2>1, <2>5 DEF FeedInv, Adds, In
    <3>2. CASE Len(feed'[c].queue) = Len(feed[c].queue) + 1 /\ feed'[c].lagged = feed[c].lagged
      <4> DEFINE f == IF ledger[c].first = 0 THEN sequence + 1 ELSE ledger[c].first
      <4>1. Len(feed'[c].queue) > Len(feed[c].queue) /\ f \in Nat /\ sequence + 1 \in Nat
        BY <1>1, <1>2, <3>2
      <4>2. ledger'[c] = [ledger[c] EXCEPT !.first = f, !.last = sequence + 1]
        BY <2>1, <2>2, <4>1, Zenon
      <4>3. /\ ledger'[c] \in Ledger /\ ledger'[c].owed = ledger[c].owed /\ ledger'[c].got = ledger[c].got
            /\ ledger'[c].first = f /\ ledger'[c].last = sequence + 1
        <5> HIDE DEF f
        <5> QED
          BY <1>1, <4>1, <4>2, Zenon DEF Ledger
      <4>4. In(c)' = In(c) + 1
        BY <1>2, <3>2, <4>3 DEF In
      <4>5. Sums(In(c) + 1, feed[c].lagged, 0, ledger[c].owed, f, sequence + 1, sequence + 1)
        BY <1>1, <1>2, <3>1, SumsMove, Zenon
      <4> QED
        BY <2>1, <3>2, <4>3, <4>4, <4>5, Zenon DEF Adds
    <3>3. CASE /\ Len(feed'[c].queue) = Len(feed[c].queue) /\ feed'[c].lagged = feed[c].lagged + 1
               /\ Len(feed[c].queue) > 0
      <4>1. ~(Len(feed'[c].queue) > Len(feed[c].queue))
        BY <1>2, <3>3
      <4>2. ledger'[c] = ledger[c]
        BY <2>2, <4>1, Zenon
      <4>3. In(c)' = In(c) /\ In(c) > 0
        BY <1>2, <3>3, <4>2 DEF In
      <4>4. Sums(In(c), feed[c].lagged + 1, 0, ledger[c].owed, ledger[c].first, ledger[c].last, sequence + 1)
        BY <1>1, <1>2, <3>1, <4>3, SumsMove, Zenon
      <4> QED
        BY <1>1, <2>1, <3>3, <4>2, <4>3, <4>4, Zenon DEF Adds
    <3> QED
      BY <2>3, <2>5, <3>2, <3>3, Zenon
  <2>6. FeedOK'
    <3>1. ledger' \in [Subs -> Ledger]
      BY <1>1, <2>2, <2>4, <2>5, Zenon
    <3>2. feed' \in [Subs -> Subscription]
      BY <2>1, <2>3, Zenon
    <3> QED
      BY <1>1, <2>1, <3>1, <3>2 DEF FeedOK
  <2> QED
    BY <2>3, <2>4, <2>5, <2>6, Zenon DEF FeedInv, Hears
<1>5. ASSUME NEW c \in Subs, Subscribe(c) \/ Recv(c) \/ Unsubscribe(c) \/ DropReceiver(c)
      PROVE  FeedInv'
  <2>1. UNCHANGED <<writer, sequence>> /\ late' \subseteq Subs /\ Pending' = Pending /\ Pending \in {0, 1}
    BY <1>1, <1>5, Zenon DEF Subscribe, Recv, Unsubscribe, DropReceiver, wvars, Pending
  <2>2. \A d \in Subs \ {c} : feed'[d] = feed[d] /\ ledger'[d] = ledger[d]
    BY <1>1, <1>5, Zenon DEF Subscribe, Recv, Unsubscribe, DropReceiver
  <2>3. /\ feed' = [feed EXCEPT ![c] = feed'[c]] /\ ledger' = [ledger EXCEPT ![c] = ledger'[c]]
    BY <1>1, <1>5, Zenon DEF Subscribe, Recv, Unsubscribe, DropReceiver
  <2>4. ASSUME feed'[c] \in Subscription, ledger'[c] \in Ledger,
               ~feed'[c].live => feed'[c].queue = <<>>,
               ~Hears(c)' => ledger'[c] = NoLedger, Hears(c)' => Adds(c)'
        PROVE  FeedInv'
    <3>1. FeedOK'
      BY <1>1, <2>1, <2>3, <2>4, Zenon DEF FeedOK
    <3>2. ASSUME NEW d \in Subs \ {c}
          PROVE  /\ ~feed'[d].live => feed'[d].queue = <<>>
                 /\ ~Hears(d)' => ledger'[d] = NoLedger
                 /\ Hears(d)' => Adds(d)'
      BY <2>1, <2>2, Zenon DEF FeedInv, Hears, Adds, In
    <3> QED
      BY <2>4, <3>1, <3>2, Zenon DEF FeedInv
  <2>5. CASE Subscribe(c)
    <3>1. feed'[c] = Subscribed /\ ledger[c] = NoLedger
      BY <1>1, <2>5, Zenon DEF Subscribe, FeedInv, Hears
    <3>2. ledger'[c] = [owed |-> Pending, got |-> 0, first |-> 0, last |-> 0]
      BY <1>1, <2>5, <3>1 DEF Subscribe, NoLedger, Pending
    <3>3. /\ feed'[c] = [live |-> TRUE, gone |-> FALSE, queue |-> <<>>, lagged |-> 0]
      BY <3>1, Zenon DEF Subscribed, NoSubscription
    <3>5. feed'[c] \in Subscription /\ ledger'[c] \in Ledger
      <4>1. feed'[c] \in Subscription
        BY <3>3 DEF Subscription
      <4>2. ledger'[c] \in Ledger
        BY <2>1, <3>2 DEF Ledger
      <4> QED
        BY <4>1, <4>2, Zenon
    <3>6. Sums(0, 0, Pending, Pending, 0, 0, sequence)
      BY <1>1, <2>1, SumsMove
    <3>4. In(c)' = 0
      BY <3>2, <3>3 DEF In
    <3> QED
      <4>1. feed'[c].live = TRUE /\ feed'[c].gone = FALSE /\ feed'[c].lagged = 0
        BY <3>3
      <4>2. ledger'[c].owed = Pending /\ ledger'[c].first = 0 /\ ledger'[c].last = 0
        BY <3>2
      <4>3. Adds(c)'
        BY <2>1, <3>4, <3>6, <4>1, <4>2, Zenon DEF Adds
      <4> QED
        BY <2>4, <3>5, <4>1, <4>3, Zenon DEF Hears
  <2>6. CASE Recv(c)
    <3>1. /\ feed'[c] = [feed[c] EXCEPT !.queue = Tail(@)] /\ ledger'[c] = [ledger[c] EXCEPT !.got = @ + 1]
          /\ feed[c].queue # <<>> /\ ~feed[c].gone /\ feed[c].queue \in Seq(Nat)
      BY <1>1, <2>6, Zenon DEF Recv, Subscription
    <3>2. Hears(c) /\ Adds(c)
      BY <3>1, Zenon DEF FeedInv, Hears
    <3>3. Tail(feed[c].queue) \in Seq(Nat) /\ Len(Tail(feed[c].queue)) = Len(feed[c].queue) - 1 /\ Len(feed[c].queue) > 0
      BY <3>1
    <3>4. /\ feed'[c] \in Subscription /\ ledger'[c] \in Ledger /\ Hears(c)'
          /\ feed'[c].lagged = feed[c].lagged /\ ledger'[c].owed = ledger[c].owed
          /\ ledger'[c].first = ledger[c].first /\ ledger'[c].last = ledger[c].last
          /\ ledger'[c].got = ledger[c].got + 1 /\ feed'[c].queue = Tail(feed[c].queue)
          /\ feed'[c].live
      <4>1. ledger[c].got + 1 \in Nat /\ ledger[c] \in Ledger /\ feed[c] \in Subscription
        BY <1>1, <1>2
      <4>2. /\ feed'[c] \in Subscription /\ feed'[c].lagged = feed[c].lagged
            /\ feed'[c].queue = Tail(feed[c].queue) /\ feed'[c].live = feed[c].live /\ feed'[c].gone = feed[c].gone
        BY <3>1, <3>3, <4>1, Zenon DEF Subscription
      <4>3. /\ ledger'[c] \in Ledger /\ ledger'[c].owed = ledger[c].owed
            /\ ledger'[c].first = ledger[c].first /\ ledger'[c].last = ledger[c].last
            /\ ledger'[c].got = ledger[c].got + 1
        BY <3>1, <4>1, SMTT(30) DEF Ledger
      <4> QED
        BY <3>2, <4>2, <4>3, Zenon DEF Hears
    <3>5. In(c)' = In(c)
      <4>1. ledger[c].got \in Nat /\ Len(feed[c].queue) \in Nat
        BY <1>2, Zenon
      <4>2. /\ ledger'[c].got = ledger[c].got + 1 /\ Len(feed'[c].queue) = Len(feed[c].queue) - 1
        BY <3>3, <3>4, Zenon
      <4>3. \A g, n \in Nat : (g + 1) + (n - 1) = g + n
        OBVIOUS
      <4> QED
        BY <4>1, <4>2, <4>3, Zenon DEF In
    <3> QED
      BY <2>1, <2>4, <3>2, <3>4, <3>5, Zenon DEF Adds
  <2>7. CASE Unsubscribe(c) \/ DropReceiver(c)
    <3>1. /\ feed'[c] \in {NoSubscription, [Subscribed EXCEPT !.gone = TRUE]} /\ ledger'[c] = NoLedger
      BY <1>1, <2>7, Zenon DEF Unsubscribe, DropReceiver
    <3>2. feed'[c] \in Subscription /\ feed'[c].queue = <<>> /\ ~Hears(c)'
      <4>1. CASE feed'[c] = NoSubscription
        <5>1. feed'[c] = [live |-> FALSE, gone |-> FALSE, queue |-> <<>>, lagged |-> 0]
          BY <4>1, Zenon DEF NoSubscription
        <5> QED
          BY <5>1 DEF Subscription, Hears
      <4>2. CASE feed'[c] = [Subscribed EXCEPT !.gone = TRUE]
        <5>1. feed'[c] = [live |-> TRUE, gone |-> TRUE, queue |-> <<>>, lagged |-> 0]
          BY <4>2, Zenon DEF Subscribed, NoSubscription
        <5> QED
          BY <5>1 DEF Subscription, Hears
      <4> QED
        BY <3>1, <4>1, <4>2, Zenon
    <3>3. ledger'[c] \in Ledger
      BY <3>1 DEF NoLedger, Ledger
    <3> QED
      BY <2>4, <3>1, <3>2, <3>3, Zenon
  <2> QED
    BY <1>5, <2>5, <2>6, <2>7, Zenon
<1>6. CASE UNCHANGED fvars /\ (writer.step = "deliver" <=> writer'.step = "deliver")
  <2>1. late' \subseteq Subs
    BY <1>1, LateStep, Zenon
  <2> QED
    BY <1>6, <2>1, Zenon DEF FeedInv, FeedOK, fvars, Hears, Adds, In, Pending
<1> QED
  BY <1>3, <1>4, <1>5, <1>6, FeedApart, Zenon
-----------------------------------------------------------------------------
(* What the batch says of the mutations made under the guard, those of a    *)
(* statement that has not answered left out.                                *)

Tells(b, made, empty, quiet) ==
  /\ b.keys_total <= made
  /\ b.unnamed => b.keys_total < made \/ empty
  /\ empty => b.unnamed
  /\ b.keys_total < made => b.unnamed \/ quiet
  /\ b.keys = IF b.keys_total > KeyCap THEN 0 ELSE b.keys_total
  /\ b.keys_truncated <=> b.keys_total > KeyCap
  /\ b.touched <=> b.keys_total > 0 \/ b.unnamed

Follows(c) == writer.step \in InHand /\ ~svc.failed /\ Hears(c) /\ c \notin late

Base == IF writer.step = "held" THEN Made ELSE writer.from

Exact == Tells(writer.batch, Base, writer.empty, writer.quiet)

EventInv == \A c \in Subs : Follows(c) => Exact

LEMMA EventsAreExact == EventInv => EventExact
<1> SUFFICES ASSUME EventInv, NEW c \in Subs, Follows(c), writer.step = "held"
             PROVE  Tells(writer.batch, Made, writer.empty, writer.quiet)
  BY Zenon DEF EventExact, Follows, Hears, Tells, InHand
<1> QED
  BY Zenon DEF EventInv, Exact, Base

LEMMA NotesTell ==
  ASSUME NEW b \in Batches, NEW w \in Nat, NEW e \in BOOLEAN, NEW q \in BOOLEAN, Tells(b, w, e, q)
  PROVE  Tells(NoteKey(b), w + 1, e, q) /\ Tells(NoteUnnamed(b), w + 1, e, q)
<1>1. /\ b.keys_total \in Nat /\ b.keys \in Nat /\ b.unnamed \in BOOLEAN
      /\ b.keys_truncated \in BOOLEAN /\ b.touched \in BOOLEAN
  BY Zenon DEF Batches
<1> DEFINE k == NoteKey(b)
           u == NoteUnnamed(b)
           full == b.keys_truncated \/ b.keys = KeyCap
<1>2. /\ k.touched = TRUE /\ k.unnamed = b.unnamed /\ k.keys_total = b.keys_total + 1
      /\ k.keys = (IF full THEN 0 ELSE b.keys + 1) /\ k.keys_truncated = full
  BY Zenon DEF NoteKey, Batches
<1>3. /\ u.touched = TRUE /\ u.unnamed = TRUE /\ u.keys_total = b.keys_total
      /\ u.keys = b.keys /\ u.keys_truncated = b.keys_truncated
  BY Zenon DEF NoteUnnamed, Batches
<1>4. full <=> b.keys_total >= KeyCap
  BY <1>1, ServiceOpsAssumption DEF Tells
<1>5. Tells(k, w + 1, e, q)
  <2> HIDE DEF k, full
  <2>1. CASE full
    BY <1>1, <1>2, <1>4, <2>1, ServiceOpsAssumption DEF Tells
  <2>2. CASE ~full
    BY <1>1, <1>2, <1>4, <2>2, ServiceOpsAssumption DEF Tells, full
  <2> QED
    BY <2>1, <2>2, Zenon
<1>6. Tells(u, w + 1, e, q)
  <2> HIDE DEF u
  <2> QED
    BY <1>1, <1>3 DEF Tells
<1> QED
  BY <1>5, <1>6, Zenon

LEMMA AnswersTell ==
  ASSUME NEW b \in Batches, NEW w \in Nat, NEW n \in Nat, w <= n,
         NEW e \in BOOLEAN, NEW q \in BOOLEAN, Tells(b, w, e, q)
  PROVE  Tells(NoteUnnamed(b), n, e \/ n = w, q) /\ Tells(b, n, e, q \/ n # w)
<1>1. /\ b.keys_total \in Nat /\ b.keys \in Nat /\ b.unnamed \in BOOLEAN
      /\ b.keys_truncated \in BOOLEAN /\ b.touched \in BOOLEAN
  BY Zenon DEF Batches
<1> DEFINE u == NoteUnnamed(b)
<1>2. /\ u.touched = TRUE /\ u.unnamed = TRUE /\ u.keys_total = b.keys_total
      /\ u.keys = b.keys /\ u.keys_truncated = b.keys_truncated
  BY Zenon DEF NoteUnnamed, Batches
<1>3. Tells(u, n, e \/ n = w, q)
  <2> HIDE DEF u
  <2> QED
    BY <1>1, <1>2 DEF Tells
<1>4. Tells(b, n, e, q \/ n # w)
  BY <1>1 DEF Tells
<1> QED
  BY <1>3, <1>4, Zenon

LEMMA EventStep == ControlInv /\ GuardInv /\ FeedInv /\ EventInv /\ Next => EventInv'
<1> SUFFICES ASSUME ControlInv, GuardInv, FeedInv, EventInv, Next, NEW c \in Subs, Follows(c)'
             PROVE  Exact'
  BY Zenon DEF EventInv
<1> USE DEF ControlInv
<1>0. /\ svc.work \in Nat /\ writer.batch \in Batches /\ writer.early \in Nat /\ writer.from \in Nat
      /\ Made \in Nat /\ Made = svc.work + writer.early
      /\ writer.empty \in BOOLEAN /\ writer.quiet \in BOOLEAN
  BY DEF ServiceState, WriterOK, Made
<1>a. Tells(NoBatch, 0, FALSE, FALSE)
  BY ServiceOpsAssumption DEF Tells, NoBatch
<1>1. ASSUME Follows(c), UNCHANGED writer, svc'.work = svc.work PROVE Exact'
  BY <1>1, Zenon DEF EventInv, Exact, Base, Made
<1>2. ASSUME Blank(writer'), writer'.step = "held", svc'.work = 0 PROVE Exact'
  <2>1. Made' = 0
    BY <1>2 DEF Made, Blank
  <2> QED
    BY <1>a, <1>2, <2>1, Zenon DEF Exact, Base, Blank
<1>3. CASE TakeWriter \/ WriterMintFails
  <2>1. UNCHANGED svc /\ writer.step \notin InHand /\ writer'.step = "held"
    BY <1>3, WriterMoves, Zenon DEF TakeWriter, WriterMintFails, Moves, InHand
  <2>2. Blank(writer')
    BY <1>3, <2>1, WriterMoves, Zenon DEF KeepsBatch, GuardInv, Blank
  <2> QED
    BY <1>2, <2>1, <2>2, Zenon DEF GuardInv, GuardCommitsItsOwn, Follows, InHand
<1>4. CASE MarkDirty
  <2>1. /\ writer.step \notin InHand /\ (writer'.step \in InHand => writer'.step = "held") /\ KeepsBatch
        /\ svc'.work = svc.work /\ (svc.failed => svc'.failed)
    BY <1>4, WriterMoves, FoldFields, Zenon DEF Moves, InHand
  <2>2. Blank(writer')
    BY <2>1, Zenon DEF KeepsBatch, GuardInv, Blank
  <2> QED
    BY <1>2, <2>1, <2>2, Zenon DEF GuardInv, GuardCommitsItsOwn, Follows, InHand
<1>5. CASE WriterMint
  <2>1. SameStore(svc')
    BY <1>5, WriterMintFields, Zenon DEF SerialsOK
  <2>2. writer.step \notin InHand /\ writer'.step = "held" /\ KeepsBatch
    BY <1>5, WriterMoves, Zenon DEF Moves, InHand
  <2>3. Blank(writer')
    BY <2>2, Zenon DEF KeepsBatch, GuardInv, Blank
  <2> QED
    BY <1>2, <2>1, <2>2, <2>3, Zenon DEF GuardInv, GuardCommitsItsOwn, Follows, SameStore, InHand
<1>6. CASE NotDue \/ FoldLock \/ Checkpoint \/ Commit \/ DropGuard \/ Deliver
  BY <1>6, WriterMoves, Zenon DEF Moves, Follows, InHand
<1>7. CASE Put \/ PutEdge
  <2>1. /\ svc' = [svc EXCEPT !.work = @ + 1] /\ UNCHANGED <<feed, late>> /\ ~svc.failed
        /\ writer.step = "held"
    BY <1>7, Zenon DEF Put, PutEdge, Recorded, CanWrite, fvars, wvars
  <2>2. Follows(c) /\ Tells(writer.batch, Made, writer.empty, writer.quiet)
    BY <2>1, Zenon DEF Follows, Hears, EventInv, Exact, Base, InHand
  <2>3. svc'.work = svc.work + 1
    BY <2>1, Zenon DEF ServiceState
  <2>4. Listening(feed)
    BY <2>2, Zenon DEF Listening, Follows, Hears, FeedInv, FeedOK
  <2>5. /\ writer'.batch \in {NoteKey(writer.batch), NoteUnnamed(writer.batch)}
        /\ UNCHANGED <<writer.step, writer.early, writer.empty, writer.quiet>>
    <3>1. \E b \in {NoteKey(writer.batch), NoteUnnamed(writer.batch)} : writer' = [writer EXCEPT !.batch = b]
      BY <1>7, <2>4, Zenon DEF Put, PutEdge, Recorded, Noted
    <3> QED
      BY <3>1, Zenon DEF WriterOK
  <2>6. Made' = Made + 1
    BY <1>0, <2>3, <2>5 DEF Made
  <2> QED
    BY <1>0, <2>1, <2>2, <2>5, <2>6, NotesTell, Zenon DEF Exact, Base
<1>13. CASE SqlStep
  <2>1. UNCHANGED <<feed, late>> /\ writer.step \in InHand
    BY <1>13, SqlApart, Zenon
  <2>2. ~svc.failed => Exact
    BY <2>1, Zenon DEF EventInv, Follows, Hears
  <2>3. CASE BeginSql
    BY <2>2, <2>3, SqlFields, Zenon DEF BeginSql, Exact, Base, KeepsBatch
  <2>4. CASE SqlWrite \/ SqlUndo
    <3>1. UNCHANGED writer /\ ~svc.failed /\ writer.step # "held"
      BY <2>4, SqlFields, Zenon DEF InStatement
    <3> QED
      BY <2>2, <3>1, Zenon DEF Exact, Base
  <2>5. CASE SqlBarrier
    <3>1. /\ ~svc.failed /\ writer.step # "held" /\ writer'.step # "held"
          /\ UNCHANGED <<writer.batch, writer.empty, writer.quiet, writer.from>>
      BY <2>5, SqlFields, Zenon DEF InStatement
    <3> QED
      BY <2>2, <3>1, Zenon DEF Exact, Base
  <2>6. ASSUME InStatement, ~svc.failed
        PROVE  /\ Tells(writer.batch, writer.from, writer.empty, writer.quiet)
               /\ writer.from <= Made
    BY <2>2, <2>6, Zenon DEF Exact, Base, InStatement, GuardInv
  <2>7. CASE SqlAffected
    <3>1. /\ UNCHANGED <<svc, writer.early, writer.quiet>> /\ InStatement /\ ~svc.failed
          /\ writer'.step = "held" /\ writer'.batch = Noted(NoteUnnamed(writer.batch))
          /\ writer'.empty = (writer.empty \/ Made = writer.from)
      BY <2>7, SqlFields, Zenon
    <3>2. Listening(feed)
      BY <2>1, Zenon DEF Listening, Follows, Hears, FeedInv, FeedOK
    <3>3. Tells(NoteUnnamed(writer.batch), Made, writer.empty \/ Made = writer.from, writer.quiet)
      BY <1>0, <2>6, <3>1, AnswersTell
    <3> QED
      BY <3>1, <3>2, <3>3, Zenon DEF Exact, Base, Made, Noted
  <2>8. CASE SqlUnrecorded
    <3>1. /\ UNCHANGED <<svc, writer.early, writer.batch, writer.empty>> /\ InStatement
          /\ writer'.step = "held" /\ writer'.quiet = (writer.quiet \/ Made # writer.from) /\ ~svc.failed
      BY <2>8, SqlFields, Zenon DEF Follows
    <3>3. Tells(writer.batch, Made, writer.empty, writer.quiet \/ Made # writer.from)
      BY <1>0, <2>6, <3>1, AnswersTell
    <3> QED
      BY <3>1, <3>3, Zenon DEF Exact, Base, Made
  <2> QED
    BY <1>13, <2>3, <2>4, <2>5, <2>7, <2>8, Zenon DEF SqlStep
<1>8. CASE PutFails \/ CommitFails
  BY <1>8, Zenon DEF PutFails, CommitFails, Follows, ServiceState
<1>9. CASE Rollback
  <2>1. svc'.work = 0
    BY <1>9, RollbackFields, Zenon DEF Rollback, Follows
  <2> QED
    BY <1>2, <1>9, <2>1, WriterMoves, Zenon DEF Moves
<1>10. ASSUME NEW r \in Readers,
              Enter(r) \/ PublishNow(r) \/ Walk(r) \/ LetGo(r) \/ OpenReader(r) \/ ReaderStep(r)
       PROVE  Exact'
  <2>1. UNCHANGED <<writer, feed, late>> /\ (svc' = svc \/ SameStore(svc'))
    BY <1>10, ReaderLeavesStore, Zenon
  <2> QED
    BY <1>1, <2>1, Zenon DEF Follows, Hears, SameStore
<1>11. CASE Tick
  <2>1. UNCHANGED <<writer, feed, late>> /\ SameStore(svc')
    BY <1>11, TickFields, Zenon DEF Tick, wvars, fvars
  <2> QED
    BY <1>1, <2>1, Zenon DEF Follows, Hears, SameStore
<1>12. ASSUME NEW d \in Subs, Subscribe(d) \/ Recv(d) \/ Unsubscribe(d) \/ DropReceiver(d)
       PROVE  Exact'
  <2>1. UNCHANGED <<writer, svc>> /\ feed \in [Subs -> Subscription]
    BY <1>12, Zenon DEF Subscribe, Recv, Unsubscribe, DropReceiver, FeedInv, FeedOK
  <2>2. CASE c = d /\ Subscribe(d)
    <3>1. ~(Made > 0) /\ ~writer.empty /\ ~svc.failed /\ writer.step \in InHand
      BY <2>1, <2>2, Zenon DEF Subscribe, Follows
    <3>2. Made = 0 /\ (writer.from <= Made => writer.from = 0)
      BY <1>0, <3>1
    <3>3. writer.batch = NoBatch /\ Base = 0
      <4>1. ~(0 > 0)
        OBVIOUS
      <4> QED
        BY <3>1, <3>2, <4>1, Zenon DEF GuardInv, Began, Base, InStatement, InHand
    <3>4. Tells(NoBatch, 0, FALSE, writer.quiet)
      BY <1>0, ServiceOpsAssumption DEF Tells, NoBatch
    <3>5. writer.empty = FALSE
      BY <1>0, <3>1, Zenon
    <3> QED
      BY <2>1, <3>3, <3>4, <3>5, Zenon DEF Exact, Base, Made
  <2>3. CASE c # d \/ Recv(d)
    <3>1. /\ feed'[c].live = feed[c].live /\ feed'[c].gone = feed[c].gone
      BY <1>12, <2>1, <2>3 DEF Subscribe, Recv, Unsubscribe, DropReceiver, Subscription
    <3>2. c \in late' <=> c \in late
      BY <1>12, <2>3, Zenon DEF Subscribe, Recv, Unsubscribe, DropReceiver, wvars
    <3> QED
      BY <1>1, <2>1, <3>1, <3>2, Zenon DEF Follows, Hears
  <2>4. CASE c = d /\ (Unsubscribe(d) \/ DropReceiver(d))
    <3>1. feed'[c] \in {NoSubscription, [Subscribed EXCEPT !.gone = TRUE]}
      BY <2>1, <2>4, Zenon DEF Unsubscribe, DropReceiver
    <3> DEFINE left == [Subscribed EXCEPT !.gone = TRUE]
    <3>2. left.gone = TRUE
      BY Zenon DEF NoSubscription, Subscribed
    <3>3. CASE feed'[c] = NoSubscription
      BY <3>3 DEF NoSubscription, Follows, Hears
    <3>4. CASE feed'[c] = left
      <4> HIDE DEF left
      <4> QED
        BY <3>2, <3>4, Zenon DEF Follows, Hears
    <3> QED
      BY <3>1, <3>3, <3>4, Zenon
  <2> QED
    BY <1>12, <2>2, <2>3, <2>4, Zenon
<1> QED
  BY <1>3, <1>4, <1>5, <1>6, <1>7, <1>8, <1>9, <1>10, <1>11, <1>12, <1>13, Zenon DEF Next, WriterStep
-----------------------------------------------------------------------------
(* The theorems. *)

Inv == ControlInv /\ FreshInv /\ GuardInv /\ FeedInv /\ EventInv

LEMMA InvInit == Init => Inv
<1>1. Init => EventInv
  <2>1. Init => writer = Idle
    BY Zenon DEF Init
  <2>2. Idle.step \notin InHand
    BY Zenon DEF Idle, InHand
  <2> QED
    BY <2>1, <2>2, Zenon DEF EventInv, Follows
<1> QED
  BY <1>1, ControlInit, FreshInit, GuardInit, FeedInit, Zenon DEF Inv

LEMMA InvStep == Inv /\ [Next]_vars => Inv'
<1> SUFFICES ASSUME Inv, [Next]_vars PROVE Inv'
  BY Zenon
<1>1. CASE Next
  BY <1>1, ControlStep, FreshStep, GuardStep, FeedStep, EventStep, Zenon DEF Inv
<1>2. CASE UNCHANGED vars
  <2>1. ControlInv'
    BY <1>2, ControlStep, Zenon DEF Inv
  <2>2. FreshInv'
    BY <1>2, Zenon DEF Inv, vars, FreshInv, Shows
  <2>5. GuardInv'
    BY <1>2, Zenon DEF Inv, vars, GuardInv, GuardCommitsItsOwn, Blank, Began, InStatement, Made
  <2>3. FeedInv'
    BY <1>2, Zenon DEF Inv, vars, FeedInv, FeedOK, Hears, Adds, In, Pending
  <2>4. EventInv'
    BY <1>2, Zenon DEF Inv, vars, EventInv, Exact, Follows, Hears, Base, Made
  <2> QED
    BY <2>1, <2>2, <2>3, <2>4, <2>5, Zenon DEF Inv
<1> QED
  BY <1>1, <1>2, Zenon

(* The locks, the serials, the writer's batch and the feed of every         *)
(* reachable state fit together as Inv says: what the next theorems rest on. *)
LEMMA ServiceInvariant == Spec => []Inv
BY InvInit, InvStep, PTL DEF Spec

(* A writer guard commits its own writes only: outside of a guard there is *)
(* no uncommitted work, or the handle has failed (Drop for WriterGuard).   *)
THEOREM GuardsDoNotLeak == Spec => []GuardCommitsItsOwn
BY ServiceInvariant, PTL DEF Inv, GuardInv

(* The change feed loses nothing silently (change_feed.rs): every batch    *)
(* with something recorded in it that WriterGuard::commit commits is       *)
(* received, queued or counted as lost, by every subscriber.  The event of *)
(* a batch counts every key put or deleted, says if there was anything     *)
(* else, and is silent about a change only if a statement made it and      *)
(* answered an error, a notice or rows; whatever statements run in the     *)
(* batch, commit inside it, take back and fail (WriterGuard::sql).         *)
THEOREM FeedIsComplete == Spec => []FeedAddsUp
<1>1. Inv => FeedAddsUp
  <2> SUFFICES ASSUME Inv, NEW c \in Subs, Hears(c)
               PROVE  /\ In(c) + feed[c].lagged + Pending = ledger[c].owed
                      /\ Gaps(In(c), ledger[c].first, ledger[c].last) <= feed[c].lagged
                      /\ ledger[c].last = sequence =>
                           Gaps(In(c), ledger[c].first, ledger[c].last) = feed[c].lagged
    BY EventsAreExact, Zenon DEF FeedAddsUp, Inv, Hears, In, Pending, Gaps
  <2>1. /\ Len(feed[c].queue) \in Nat /\ feed[c].lagged \in Nat /\ ledger[c].owed \in Nat
        /\ ledger[c].got \in Nat /\ ledger[c].first \in Nat /\ ledger[c].last \in Nat /\ sequence \in Nat
    BY DEF Inv, FeedInv, FeedOK, Subscription, Ledger
  <2>2. In(c) \in Nat /\ Pending \in {0, 1} /\ Adds(c)
    BY <2>1 DEF Inv, FeedInv, In, Pending
  <2> QED
    <3>1. Sums(In(c), feed[c].lagged, Pending, ledger[c].owed, ledger[c].first, ledger[c].last, sequence)
      BY <2>2, Zenon DEF Adds
    <3> DEFINE i == In(c)  l == feed[c].lagged  o == ledger[c].owed  f == ledger[c].first
               t == ledger[c].last  p == Pending
    <3>2. /\ i \in Nat /\ l \in Nat /\ o \in Nat /\ f \in Nat /\ t \in Nat /\ sequence \in Nat
          /\ p \in {0, 1} /\ Sums(i, l, p, o, f, t, sequence)
      BY <2>1, <2>2, <3>1, Zenon
    <3> HIDE DEF i, l, o, f, t, p
    <3>3. i + l + p = o /\ Gaps(i, f, t) <= l /\ (t = sequence => Gaps(i, f, t) = l)
      BY <3>2 DEF Sums, Gaps
    <3> QED
      BY <3>3, Zenon DEF i, l, o, f, t, p
<1> QED
  BY <1>1, ServiceInvariant, PTL

(* A view that a reader holds shows what it showed, and the log folds only *)
(* while no view is open.                                                  *)
THEOREM HeldViewsAreStable == Spec => HeldViewStable
<1> DEFINE Keeps == /\ \A r \in Readers : pc[r] = "hold" /\ pc'[r] = "hold" /\ svc.at[view[r]] # 0
                         => svc'.at[view[r]] = svc.at[view[r]]
                    /\ svc'.log < svc.log => Open(svc) = {}
<1>1. Inv /\ [Next]_vars => [Keeps]_vars
  BY ViewsMove, Zenon DEF Inv
<1> QED
  BY <1>1, ServiceInvariant, PTL DEF Spec, HeldViewStable

(* What is swapped in shows what the call that minted it needs. *)
LEMMA SwapShows ==
  ASSUME ControlInv, FreshInv, NEW r \in Readers, Swap(r)
  PROVE  svc'.at[svc'.published] >= need[r]
<1>1. pc[r] \in Swapping
  BY Zenon DEF Swap, Swapping
<1>2. /\ svc.at[svc.next_serial] >= acked /\ need[r] <= acked /\ svc.next_serial \in Serials
      /\ svc.published < svc.next_serial
  BY <1>1, Zenon DEF FreshInv, ControlInv, SerialsOK
<1>3. /\ svc.at \in [Serials -> Nat] /\ svc.published \in Nat /\ svc.next_serial \in Nat
      /\ need[r] \in Nat /\ acked \in Nat
  BY DEF ControlInv, ServiceState, ReadersOK, Serials
<1>4. /\ svc'.published = svc.next_serial
      /\ svc'.at \in {svc.at, [svc.at EXCEPT ![svc.published] = 0]}
  BY <1>2, SwapFields, Zenon DEF DropView, ControlInv
<1>5. svc'.at[svc'.published] = svc.at[svc.next_serial] /\ svc.at[svc.next_serial] \in Nat
  BY <1>2, <1>3, <1>4
<1> QED
  BY <1>2, <1>3, <1>5

(* The staleness window: a reader() begun when the interval is over, and a *)
(* publish_now, end with a view that shows every commit that had returned. *)
THEOREM StalenessIsBounded == Spec => StalenessBound
<1> DEFINE Bounded ==
       \A r \in Readers :
       /\ pc[r] = "clone" /\ pc'[r] = "hold"
            => svc.at[svc.published] = 0 \/ svc.at[svc.published] >= need[r]
       /\ pc[r] = "swap now" /\ pc'[r] = "idle"
            => svc'.at[svc'.published] >= need[r]
<1>1. ASSUME Inv, Next PROVE Bounded
  <2> SUFFICES ASSUME NEW r \in Readers, pc[r] = "swap now", pc'[r] = "idle"
               PROVE  svc'.at[svc'.published] >= need[r]
    BY <1>1, Zenon DEF Inv, FreshInv, Shows
  <2> USE DEF Inv
  <2>1. Swap(r)
    <3>1. CASE \E q \in Readers : Enter(q) \/ PublishNow(q) \/ Walk(q) \/ LetGo(q) \/ OpenReader(q)
      BY <1>1, <3>1, Zenon DEF Enter, PublishNow, Walk, LetGo, OpenReader, ControlInv, ReadersOK
    <3>2. CASE \E q \in Readers : PublishIfDue(q) \/ Mint(q) \/ MintFails(q) \/ Clone(q) \/ PrivateMint(q)
      BY <1>1, <3>2, Zenon DEF PublishIfDue, Mint, MintFails, Clone, PrivateMint, ControlInv, ReadersOK
    <3>3. CASE \E q \in Readers : Swap(q)
      BY <1>1, <3>3, Zenon DEF Swap, ControlInv, ReadersOK
    <3>4. CASE UNCHANGED pc
      BY <3>4, Zenon
    <3>5. CASE \/ TakeWriter \/ Put \/ PutEdge \/ PutFails \/ SqlStep \/ Commit \/ CommitFails \/ Rollback
               \/ DropGuard
      BY <1>1, <3>4, <3>5, SqlApart, Zenon DEF ControlInv, TakeWriter, Put, PutEdge, Recorded, PutFails, Commit, CommitFails, Rollback,
                        DropGuard, rvars
    <3>6. CASE WriterStep \/ Tick
      BY <3>4, <3>6, Zenon DEF WriterStep, Deliver, NotDue, FoldLock, Checkpoint, MarkDirty, WriterMint,
                        WriterMintFails, Tick, rvars
    <3>7. CASE \E c \in Subs : Subscribe(c) \/ Recv(c) \/ Unsubscribe(c) \/ DropReceiver(c)
      BY <3>4, <3>7, Zenon DEF Subscribe, Recv, Unsubscribe, DropReceiver, rvars
    <3> QED
      BY <1>1, <3>1, <3>2, <3>3, <3>5, <3>6, <3>7, Zenon DEF Next, ReaderStep
  <2> QED
    BY <1>1, <2>1, SwapShows, Zenon DEF Inv
<1>2. Inv /\ [Next]_vars => [Bounded]_vars
  BY <1>1, Zenon
<1> QED
  BY <1>2, ServiceInvariant, PTL DEF Spec, StalenessBound
-----------------------------------------------------------------------------
(* Publication and the reader slots: how many views are open is a count of *)
(* a finite set, which only ViewsMove and the theorems on cardinality      *)
(* bound.                                                                  *)

INSTANCE FiniteSetTheorems

SlotsOK == Cardinality(Open(svc)) <= Slots

LEMMA OpenIsFinite ==
  ASSUME NEW s
  PROVE  IsFiniteSet(Open(s)) /\ Cardinality(Open(s)) \in Nat
<1>1. IsFiniteSet(Serials) /\ Open(s) \in SUBSET Serials
  BY FS_Interval, ServiceOpsAssumption DEF Serials, Open
<1> QED
  BY <1>1, FS_Subset, FS_CardinalityType, Zenon

LEMMA SlotsStep == ControlInv /\ SlotsOK /\ [Next]_vars => SlotsOK'
<1> SUFFICES ASSUME ControlInv, SlotsOK, Next PROVE Cardinality(Open(svc')) <= Slots
  BY Zenon DEF SlotsOK, vars, Open
<1> USE OpenIsFinite, ServiceOpsAssumption
<1>1. CASE Open(svc') \subseteq Open(svc)
  BY <1>1, FS_Subset DEF SlotsOK
<1>2. ASSUME SlotFree(svc), NEW n, Open(svc') \subseteq Open(svc) \union {n}
      PROVE  Cardinality(Open(svc')) <= Slots
  <2>1. /\ IsFiniteSet(Open(svc) \union {n})
        /\ Cardinality(Open(svc) \union {n}) <= Cardinality(Open(svc)) + 1
        /\ Cardinality(Open(svc) \union {n}) \in Nat
    <3>1. /\ IsFiniteSet(Open(svc) \union {n})
          /\ \/ Cardinality(Open(svc) \union {n}) = Cardinality(Open(svc))
             \/ Cardinality(Open(svc) \union {n}) = Cardinality(Open(svc)) + 1
      BY FS_AddElement, Zenon
    <3>2. Cardinality(Open(svc)) \in Nat
      BY Zenon
    <3> QED
      BY <3>1, <3>2
  <2>2. Cardinality(Open(svc')) <= Cardinality(Open(svc) \union {n})
    BY <1>2, <2>1, FS_Subset, Zenon
  <2> QED
    BY <1>2, <2>1, <2>2 DEF SlotFree
<1> QED
  BY <1>1, <1>2, ViewsMove, Zenon

LEMMA SlotsInit == Init => SlotsOK
<1> SUFFICES ASSUME Init PROVE SlotsOK
  BY Zenon
<1>1. svc.at = [n \in Serials |-> IF n = 1 THEN 1 ELSE 0] /\ 1 \in Serials
  BY ServiceOpsAssumption DEF Init, Service0, Serials
<1>2. Open(svc) = {1}
  BY <1>1 DEF Open
<1> QED
  <2>1. Cardinality(Open(svc)) = 1
    BY <1>2, FS_Singleton, Zenon
  <2> QED
    BY <2>1, ServiceOpsAssumption DEF SlotsOK
-----------------------------------------------------------------------------
(* Publication loses no commit and takes no slot too many: the dirty flag  *)
(* of service.rs is down only when the published view shows every commit   *)
(* that has returned, and the open views never outnumber the reader slots, *)
(* however many readers, whatever fails.                                   *)
THEOREM PublicationIsSound == Spec => []PublishedSound
<1>1. Inv /\ SlotsOK => PublishedSound
  <2> SUFFICES ASSUME Inv, SlotsOK PROVE PublishedSound
    BY Zenon
  <2>1. TypeOK
    BY Zenon DEF Inv, TypeOK, ControlInv, WriterOK, LockOK, ReadersOK, FeedInv, FeedOK, Steps, Places,
           Minting, Swapping, Holding
  <2> QED
    BY <2>1, Zenon DEF Inv, PublishedSound, SlotsOK, FreshInv, Shows
<1>2. Inv /\ SlotsOK /\ [Next]_vars => SlotsOK'
  BY SlotsStep, Zenon DEF Inv
<1> QED
  BY <1>1, <1>2, SlotsInit, ServiceInvariant, PTL DEF Spec
=============================================================================
