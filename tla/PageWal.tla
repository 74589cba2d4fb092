------------------------------ MODULE PageWal ------------------------------
(***************************************************************************)
(* The page-image WAL store of sekejap (core/engine/src/store/pagewal):    *)
(* one writer, snapshot readers in its own and in other processes, and the *)
(* files `data`, `wal`, `writer.lock`, `readers.lock` and `reader-N.lock`. *)
(* Every step that touches a file or a lock is an action of its own, so    *)
(* processes interleave, fail, die or lose power between any two of them.  *)
(***************************************************************************)
EXTENDS PageWalFormat

CONSTANTS
  Readers,    \* snapshot handles
  Writer,     \* the process holding the writer handle, as an owner of writer.lock
  Slots,      \* READER_SLOTS
  FoldAt,     \* frames at which checkpoint_due answers true
  MaxTx,      \* bound: no transaction past this number changes a page
  MaxEvict,   \* bound: frames the pool writes back before a commit flushes it
  Faults      \* what may go wrong, out of FaultKinds

(* "io": a file operation fails or is lost; "crash": the writer's process   *)
(* dies; "power": everything dies and unsynced writes may be lost, WAL      *)
(* frames in the order they were written unless "reorder", the publication  *)
(* hint only with "stale".                                                  *)
FaultKinds == {"io", "crash", "power", "reorder", "stale"}

ASSUME PageWalAssumption ==
  /\ Writer \notin Readers
  /\ Slots \in Nat \ {0} /\ FoldAt \in Nat \ {0} /\ MaxTx \in Nat /\ MaxEvict \in Nat
  /\ Faults \subseteq FaultKinds

VARIABLES
  file,      \* the files as every live process sees them: [data, meta, wal]
  disk,      \* what the last barriers made durable: [data, meta, wal]
  hint,      \* the two publication hint copies in readers.lock
  hintD,     \* the hint copies the disk may still hold: they are never barriered
  gateX,     \* who holds the gate exclusive: "free", "opener", "writer"
  gateS,     \* readers holding the gate shared
  own,       \* who holds writer.lock exclusive: the writer, views made from it
  ownS,      \* readers holding writer.lock shared
  slot,      \* reader slot of each reader, 0 when none
  opening,   \* an opener holds the gate and has not yet claimed writer.lock
  wpc,       \* the writer's next step
  call,      \* the call the writer is in
  st,        \* the pager's State
  pool,      \* the writer's pool: working image, dirty pages, flags
  todo,      \* pages the checkpoint has still to copy
  first,     \* the metadata copy the checkpoint replaces first
  rpc,       \* the readers' next step
  view,      \* what each open reader pinned
  rhint,     \* the hint a reader is validating
  acked,     \* header of the last commit that returned success
  since      \* transaction acknowledged when a reader's admission began

files   == <<file, disk, hint, hintD>>
others  == <<gateS, own, ownS, slot, opening>>
locks   == <<gateX, others>>
writer  == <<wpc, call, st, pool, todo, first>>
readers == <<rpc, view, rhint, since>>
vars    == <<files, locks, writer, readers, acked>>

NoState == [latest |-> NoIndex, committed |-> NoIndex, end |-> 0, last |-> 0,
            tx |-> 1, floor |-> 0, current |-> FALSE]
LoadedPool(img) == [work |-> img, dp |-> {}, dirty |-> FALSE, poisoned |-> FALSE]

Image0     == [p \in Pages |-> CHOOSE v \in Vals : TRUE]
Header0    == [tx |-> 0, root |-> Image0]
Closed     == [hdr |-> Header0, idx |-> NoIndex, last |-> 0, via |-> "none"]
ClosedPool == LoadedPool(Image0)

(* A created, checkpointed and closed database. *)
Init ==
  /\ file = [data |-> Image0, meta |-> [c \in Copies |-> Header0], wal |-> <<>>]
  /\ disk = file
  /\ hint = [c \in Copies |-> [floor |-> 0, tx |-> 0, end |-> 0]]
  /\ hintD = hint
  /\ acked = Header0
  /\ gateX = "free" /\ gateS = {} /\ own = {} /\ ownS = {} /\ opening = FALSE
  /\ slot = [r \in Readers |-> 0]
  /\ wpc = "closed" /\ call = "none" /\ st = NoState /\ pool = ClosedPool
  /\ todo = {} /\ first = 0
  /\ rpc = [r \in Readers |-> "idle"] /\ view = [r \in Readers |-> Closed]
  /\ rhint = [r \in Readers |-> NoHint] /\ since = [r \in Readers |-> 0]

----------------------------------------------------------------------------
(* Locks.  Slots are taken only under the gate, so the writer, which holds  *)
(* the gate exclusive while it tries them, tests them in one step.          *)

FreeSlots == (1..Slots) \ {slot[r] : r \in Readers}

GateFree    == gateX = "free" /\ gateS = {}
MutExcludeReaders == GateFree
ExcludeReaders    == GateFree /\ \A r \in Readers : slot[r] = 0

(* The handle refuses everything but rollback from here on. *)
Poison ==
  /\ wpc' = "idle" /\ call' = "none" /\ todo' = {}
  /\ pool' = [pool EXCEPT !.poisoned = TRUE]
  /\ gateX' = IF gateX = "writer" THEN "free" ELSE gateX

Healthy == wpc = "idle" /\ ~pool.poisoned

----------------------------------------------------------------------------
(* Pager::append, write_at: a frame goes to st.end, the index follows it. *)

WriteFrame(w, i, fr) == IF i > Len(w) THEN Append(w, fr) ELSE [w EXCEPT ![i] = fr]

Log(fr) ==
  /\ st.end < WalCap
  /\ file' = [file EXCEPT !.wal = WriteFrame(@, st.end + 1, fr)]
  /\ st' = [st EXCEPT !.end = @ + 1,
                      !.latest = IF fr.kind = "commit" THEN @
                                 ELSE [@ EXCEPT ![fr.page] = st.end + 1]]

PoolFrame(p) == IF p = Meta THEN MetaFrame(st.tx, pool.work)
                ELSE PageFrame(p, st.tx, pool.work[p])

LogDirty(p) ==
  /\ p \in pool.dp
  /\ Log(PoolFrame(p))
  /\ pool' = [pool EXCEPT !.dp = @ \ {p}]
  /\ UNCHANGED <<disk, hint, hintD, locks, wpc, call, todo, first, readers, acked>>

CheckpointDue == st.end >= FoldAt

(* put / delete: the fold that a clean handle runs first is BeginFold, and  *)
(* is not skipped when it can run.                                          *)
Mutate(p, v) ==
  /\ Healthy /\ st.tx <= MaxTx /\ pool.work[p] # v
  /\ pool.dirty \/ ~CheckpointDue \/ ~ExcludeReaders
  /\ pool' = [pool EXCEPT !.work[p] = v, !.dp = @ \cup {p}, !.dirty = TRUE]
  /\ UNCHANGED <<files, locks, wpc, call, st, todo, first, readers, acked>>

(* The pool writes a dirty page back before the commit. *)
Evict(p) == Healthy /\ st.end - st.last < MaxEvict /\ LogDirty(p)

----------------------------------------------------------------------------
(* PageWalStore::commit and Pager::publish *)

CommitBegin ==
  /\ Healthy
  /\ pool.dirty \/ st.end # st.last \/ ~st.current
  /\ pool' = [pool EXCEPT !.dp = @ \cup {Meta}]
  /\ wpc' = "flush" /\ call' = "commit"
  /\ UNCHANGED <<files, locks, st, todo, first, readers, acked>>

Flush(p) == wpc = "flush" /\ LogDirty(p)

AppendCommit ==
  /\ wpc = "flush" /\ pool.dp = {}
  /\ Log(CommitFrame(st.tx, st.end - st.last))
  /\ wpc' = "sync"
  /\ UNCHANGED <<disk, hint, hintD, locks, call, pool, todo, first, readers, acked>>

(* A frame past WAL_CAP is refused and the call fails. *)
AppendRefused ==
  /\ wpc = "flush" \/ (Healthy /\ pool.dp # {})
  /\ st.end >= WalCap
  /\ Poison
  /\ UNCHANGED <<files, others, st, first, readers, acked>>

MutCommitSync ==
  /\ wpc = "sync" /\ wpc' = "pub0"
  /\ UNCHANGED <<files, locks, call, st, pool, todo, first, readers, acked>>
CommitSync ==
  /\ wpc = "sync" /\ wpc' = "pub0"
  /\ disk' = [disk EXCEPT !.wal = file.wal]
  /\ UNCHANGED <<file, hint, hintD, locks, call, st, pool, todo, first, readers, acked>>

(* write_hint, one copy.  It is never barriered. *)
PutHint(c, h) == hint' = [hint EXCEPT ![c] = h] /\ UNCHANGED hintD

HintNow  == [floor |-> st.floor, tx |-> st.tx - 1, end |-> st.last]
MutHintNext == [floor |-> st.floor, tx |-> st.tx - 1, end |-> st.last]

HintNext == [floor |-> st.floor, tx |-> st.tx, end |-> st.end]

Published == [st EXCEPT !.committed = st.latest, !.last = st.end, !.tx = @ + 1]

Publish0 ==
  /\ wpc = "pub0"
  /\ PutHint(0, HintNext)
  /\ st' = [st EXCEPT !.current = FALSE]
  /\ wpc' = "pub1"
  /\ UNCHANGED <<file, disk, locks, call, pool, todo, first, readers, acked>>

Publish1 ==
  /\ wpc = "pub1"
  /\ PutHint(1, HintNext)
  /\ st' = [Published EXCEPT !.current = TRUE]
  /\ pool' = [pool EXCEPT !.dirty = FALSE]
  /\ wpc' = "post"
  /\ UNCHANGED <<file, disk, locks, call, todo, first, readers, acked>>

(* Copy 0 landed and copy 1 did not: readers can see the transaction, so    *)
(* the bookkeeping swaps although the call fails.                           *)
Publish1Fail ==
  /\ "io" \in Faults
  /\ wpc = "pub1"
  /\ \E h \in {hint[1], HintNext, NoHint} : hint' = [hint EXCEPT ![1] = h]
  /\ st' = Published
  /\ Poison
  /\ UNCHANGED <<file, disk, hintD, others, first, readers, acked>>

Acknowledge == acked' = [tx |-> st.tx - 1, root |-> pool.work]
(* Every fold: Ok(false) when a reader is in the way, refused when the      *)
(* handle's hint or tail is not the published one.                          *)
BeginFold(c) ==
  /\ ExcludeReaders
  /\ IF st.end = st.last /\ st.current
     THEN /\ gateX' = "writer" /\ wpc' = "copy" /\ call' = c
          /\ todo' = {p \in Pages : st.latest[p] # 0}
          /\ UNCHANGED pool
     ELSE Poison
  /\ UNCHANGED <<files, others, st, first, readers, acked>>

CommitFold == wpc = "post" /\ CheckpointDue /\ BeginFold("commit")

CommitDone ==
  /\ wpc = "post" /\ (~CheckpointDue \/ ~ExcludeReaders)
  /\ wpc' = "idle" /\ call' = "none"
  /\ Acknowledge
  /\ UNCHANGED <<files, locks, st, pool, todo, first, readers>>

(* checkpoint(), and fold_committed_wal_if_at_cap before a mutation *)
Checkpoint == Healthy /\ ~pool.dirty /\ st.end > 0 /\ BeginFold("checkpoint")

----------------------------------------------------------------------------
(* Pager::checkpoint_with_crash *)

CopyPage(p) ==
  /\ wpc = "copy" /\ p \in todo
  /\ \/ file' = [file EXCEPT !.data[p] = file.wal[st.latest[p]].val]
     \/ "io" \in Faults /\ UNCHANGED file         \* the write is silently lost
  /\ todo' = todo \ {p}
  /\ UNCHANGED <<disk, hint, hintD, locks, wpc, call, st, pool, first, readers, acked>>

SyncData == disk' = [disk EXCEPT !.data = file.data, !.meta = file.meta]

CopySync ==
  /\ wpc = "copy" /\ todo = {}
  /\ SyncData
  /\ wpc' = "verify"
  /\ UNCHANGED <<file, hint, hintD, locks, call, st, pool, todo, first, readers, acked>>

ReadBack == \A p \in Pages : st.latest[p] # 0 => file.data[p] = file.wal[st.latest[p]].val

MutVerify ==
  /\ wpc = "verify"
  /\ wpc' = "meta0" /\ first' = FirstCopy(file.meta)
  /\ UNCHANGED <<files, locks, call, st, pool, todo, readers, acked>>
MutVerifyResets ==
  /\ wpc = "verify"
  /\ IF ReadBack THEN wpc' = "trunc" /\ UNCHANGED <<gateX, call, pool, todo>> ELSE Poison
  /\ UNCHANGED <<files, others, first, st, readers, acked>>

Verify ==
  /\ wpc = "verify"
  /\ IF ReadBack
     THEN /\ wpc' = "meta0" /\ first' = FirstCopy(file.meta)
          /\ UNCHANGED <<gateX, call, pool, todo>>
     ELSE Poison /\ UNCHANGED first
  /\ UNCHANGED <<files, others, st, readers, acked>>

FoldHeader == [tx |-> file.wal[st.latest[Meta]].tx, root |-> file.wal[st.latest[Meta]].val]

WriteMeta(c, from, to) ==
  /\ wpc = from
  /\ file' = [file EXCEPT !.meta[c] = FoldHeader]
  /\ wpc' = to
  /\ UNCHANGED <<disk, hint, hintD, locks, call, st, pool, todo, first, readers, acked>>

WriteMeta0 == WriteMeta(first, "meta0", "msync")

MutMetaSync ==
  /\ wpc = "msync"
  /\ wpc' = "meta1"
  /\ UNCHANGED <<files, locks, call, st, pool, todo, first, readers, acked>>
MetaSync ==
  /\ wpc = "msync"
  /\ SyncData
  /\ wpc' = "meta1"
  /\ UNCHANGED <<file, hint, hintD, locks, call, st, pool, todo, first, readers, acked>>

WriteMeta1 == WriteMeta(1 - first, "meta1", "trunc")

Truncate ==
  /\ wpc = "trunc"
  /\ file' = [file EXCEPT !.wal = <<>>]
  /\ st' = [st EXCEPT !.latest = NoIndex, !.committed = NoIndex, !.end = 0, !.last = 0,
                      !.floor = FoldHeader.tx]
  /\ wpc' = "hint0"
  /\ UNCHANGED <<disk, hint, hintD, locks, call, pool, todo, first, readers, acked>>

----------------------------------------------------------------------------
(* write_hint after a fold and in finish_open; then the call returns *)

Hint0 ==
  /\ wpc = "hint0"
  /\ PutHint(0, HintNow)
  /\ st' = [st EXCEPT !.current = FALSE]
  /\ wpc' = "hint1"
  /\ UNCHANGED <<file, disk, locks, call, pool, todo, first, readers, acked>>

Hint1 ==
  /\ wpc = "hint1"
  /\ PutHint(1, HintNow)
  /\ st' = [st EXCEPT !.current = TRUE]
  /\ wpc' = "idle" /\ call' = "none" /\ gateX' = "free"
  /\ IF call = "commit" THEN Acknowledge ELSE UNCHANGED acked
  /\ IF call \in {"open", "rollback"}
     THEN pool' = LoadedPool(ReadImage(file, st.latest)) ELSE UNCHANGED pool
  /\ UNCHANGED <<file, disk, others, todo, first, readers>>

(* finish_open: drop the uncommitted tail, make the prefix durable. *)
MutOpenTruncate ==
  /\ wpc = "otrunc"
  /\ file' = [file EXCEPT !.wal = SubSeq(@, 1, st.last - 1)]
  /\ wpc' = "osync"
  /\ UNCHANGED <<disk, hint, hintD, locks, call, st, pool, todo, first, readers, acked>>
OpenTruncate ==
  /\ wpc = "otrunc"
  /\ file' = [file EXCEPT !.wal = SubSeq(@, 1, st.last)]
  /\ wpc' = "osync"
  /\ UNCHANGED <<disk, hint, hintD, locks, call, st, pool, todo, first, readers, acked>>

MutOpenSync ==
  /\ wpc = "osync"
  /\ wpc' = "hint0"
  /\ UNCHANGED <<files, locks, call, st, pool, todo, first, readers, acked>>

OpenSync ==
  /\ wpc = "osync"
  /\ disk' = [disk EXCEPT !.wal = file.wal]
  /\ wpc' = "hint0"
  /\ UNCHANGED <<file, hint, hintD, locks, call, st, pool, todo, first, readers, acked>>

(* The State inspect returns. *)
Recovered ==
  LET s == Inspect(file)
  IN  [latest |-> s.idx, committed |-> s.idx, end |-> s.last, last |-> s.last,
       tx |-> s.hdr.tx + 1, floor |-> DiskHeader(file.meta).tx, current |-> FALSE]

----------------------------------------------------------------------------
(* open_inner: the gate first, then a claim on writer.lock that never waits *)

OpenGate ==
  /\ ~opening /\ GateFree
  /\ opening' = TRUE /\ gateX' = "opener"
  /\ UNCHANGED <<files, gateS, own, ownS, slot, writer, readers, acked>>

(* The claim waits for writer.lock with the gate in hand. *)
MutOpenClaimWaits ==
  /\ opening /\ opening' = FALSE
  /\ own = {} /\ ownS = {} /\ CanInspect(file)
  /\ own' = {Writer} /\ gateX' = "writer"
  /\ wpc' = "otrunc" /\ call' = "open" /\ st' = Recovered
  /\ UNCHANGED <<files, gateS, ownS, slot, pool, todo, first, readers, acked>>

(* The gate is let go once writer.lock is claimed. *)
MutOpenClaimLetsGo ==
  /\ opening /\ opening' = FALSE /\ gateX' = "free"
  /\ IF own = {} /\ ownS = {} /\ CanInspect(file)
     THEN own' = {Writer} /\ wpc' = "otrunc" /\ call' = "open" /\ st' = Recovered
     ELSE UNCHANGED <<own, wpc, call, st>>
  /\ UNCHANGED <<files, gateS, ownS, slot, pool, todo, first, readers, acked>>

OpenClaim ==
  /\ opening /\ opening' = FALSE
  /\ IF own = {} /\ ownS = {} /\ CanInspect(file)
     THEN /\ own' = {Writer} /\ gateX' = "writer"
          /\ wpc' = "otrunc" /\ call' = "open" /\ st' = Recovered
     ELSE /\ gateX' = "free" /\ UNCHANGED <<own, wpc, call, st>>
  /\ UNCHANGED <<files, gateS, ownS, slot, pool, todo, first, readers, acked>>

(* rollback: inspect, adopt, then finish_open under the gate it waits for. *)
(* Database::rollback marks its handle failed for the duration.            *)
RollbackBegin ==
  /\ wpc = "idle"
  /\ pool' = [pool EXCEPT !.poisoned = TRUE]
  /\ IF CanInspect(file)
     THEN wpc' = "rgate" /\ call' = "rollback" /\ st' = Recovered
     ELSE UNCHANGED <<wpc, call, st>>
  /\ UNCHANGED <<files, locks, todo, first, readers, acked>>

RollbackGate ==
  /\ wpc = "rgate" /\ GateFree
  /\ gateX' = "writer" /\ wpc' = "otrunc"
  /\ UNCHANGED <<files, others, call, st, pool, todo, first, readers, acked>>
----------------------------------------------------------------------------
(* Failures *)

FoldSteps  == {"copy", "verify", "meta0", "msync", "meta1", "trunc"}
HintSteps  == {"pub0", "hint0", "hint1"}
OpenSteps  == {"otrunc", "osync"}
WriteSteps == {"flush", "sync"}

(* What a failed write may have left: nothing, a torn page or copy.  A      *)
(* write that landed and still reported an error is the failure of the step *)
(* after it.                                                                *)
AfterFailure ==
  CASE wpc = "copy"  -> {file} \cup {[file EXCEPT !.data[p] = Torn] : p \in todo}
    [] wpc = "meta0" -> {file, [file EXCEPT !.meta[first] = Torn]}
    [] wpc = "meta1" -> {file, [file EXCEPT !.meta[1 - first] = Torn]}
    [] OTHER         -> {file}

HintsAfterFailure ==
  CASE wpc = "pub0"  -> {[hint EXCEPT ![0] = h] : h \in {hint[0], HintNext, NoHint}}
    [] wpc = "hint0" -> {[hint EXCEPT ![0] = h] : h \in {hint[0], HintNow, NoHint}}
    [] wpc = "hint1" -> {[hint EXCEPT ![1] = h] : h \in {hint[1], HintNow, NoHint}}
    [] OTHER         -> {hint}

(* The writer handle is gone: opening failed, it was dropped or it died. *)
Leave ==
  /\ wpc' = "closed" /\ call' = "none" /\ st' = NoState /\ pool' = ClosedPool
  /\ todo' = {} /\ first' = 0

DropGate == gateX' = IF gateX = "writer" THEN "free" ELSE gateX

IoError ==
  /\ "io" \in Faults
  /\ wpc \in FoldSteps \cup HintSteps \cup OpenSteps \cup WriteSteps
  /\ file' \in AfterFailure /\ hint' \in HintsAfterFailure
  /\ IF call = "open" THEN Leave /\ DropGate /\ own' = own \ {Writer}
     ELSE /\ Poison /\ UNCHANGED <<own, first>>
          /\ st' = [st EXCEPT !.current = @ /\ wpc \notin HintSteps]
  /\ UNCHANGED <<disk, hintD, gateS, ownS, slot, opening, readers, acked>>

(* Dropping the handle leaves writer.lock with the views made from it. *)
Close ==
  /\ wpc = "idle"
  /\ Leave /\ DropGate
  /\ own' = own \ {Writer}
  /\ UNCHANGED <<files, gateS, ownS, slot, opening, readers, acked>>

(* The readers of G are gone; the system releases what they held. *)
Vanish(G) ==
  /\ rpc'   = [r \in Readers |-> IF r \in G THEN "idle" ELSE rpc[r]]
  /\ view'  = [r \in Readers |-> IF r \in G THEN Closed ELSE view[r]]
  /\ rhint' = [r \in Readers |-> IF r \in G THEN NoHint ELSE rhint[r]]
  /\ since' = [r \in Readers |-> IF r \in G THEN 0 ELSE since[r]]
  /\ slot'  = [r \in Readers |-> IF r \in G THEN 0 ELSE slot[r]]
  /\ gateS' = gateS \ G /\ ownS' = ownS \ G

(* The writer's process dies, with the views made from its handle. *)
Crash ==
  /\ "crash" \in Faults
  /\ wpc # "closed"
  /\ Leave /\ DropGate
  /\ Vanish(own \cap Readers)
  /\ own' = {}
  /\ UNCHANGED <<files, opening, acked>>

(* What the WAL may be after power loss.  A truncation that was not synced  *)
(* is lost as a whole or kept (a journalled file size).  Unsynced frames    *)
(* are there, torn (full length, last sector zero) or missing.              *)
Common(a, b) == MaxOr0({n \in 1..Len(a) : n <= Len(b) /\ \A i \in 1..n : a[i] = b[i]})

WalsAfterPowerLoss ==
  LET kept == Common(file.wal, disk.wal)
      TornSets(n) == {t \in SUBSET ((kept + 1)..n) :
                    "reorder" \in Faults \/ \A i \in t : \A j \in i..n : j \in t}
      Damaged(n, t) == [i \in 1..n |-> IF i \in t THEN TornFrame ELSE file.wal[i]]
  IN  {disk.wal} \cup
      UNION {{Damaged(n, t) : t \in TornSets(n)} : n \in kept..Len(file.wal)}

Either(a, b) == IF a = b THEN {a} ELSE {a, b, Torn}

PowerLoss ==
  /\ "power" \in Faults
  /\ \E d \in {d \in [Pages -> Vals \cup {Torn}] :
                \A p \in Pages : d[p] \in Either(file.data[p], disk.data[p])},
        c0 \in Either(file.meta[0], disk.meta[0]),
        c1 \in Either(file.meta[1], disk.meta[1]),
        w \in WalsAfterPowerLoss :
       /\ file' = [data |-> d, meta |-> [c \in Copies |-> IF c = 0 THEN c0 ELSE c1], wal |-> w]
       /\ disk' = file'
  /\ hint' = hint \/ ("stale" \in Faults /\ hint' = hintD)
  /\ hintD' = hint'
  /\ Leave /\ Vanish(Readers)
  /\ own' = {} /\ opening' = FALSE /\ gateX' = "free"
  /\ UNCHANGED acked
----------------------------------------------------------------------------
(* Readers: open_snapshot by path, snapshot() from the writer handle *)

Step(r, to) == rpc' = [rpc EXCEPT ![r] = to]

TakeSlot(r) == slot' = [slot EXCEPT ![r] = Min(FreeSlots)]

(* try_lock_shared on writer.lock: quiescent admission, or beside a writer. *)
ReaderStart(r) ==
  /\ rpc[r] = "idle"
  /\ since' = [since EXCEPT ![r] = acked.tx]
  /\ IF own = {} THEN Step(r, "scan") /\ ownS' = ownS \cup {r}
     ELSE Step(r, "gate") /\ UNCHANGED ownS
  /\ UNCHANGED <<files, gateX, gateS, own, slot, opening, writer, view, rhint, acked>>

(* The admission ends in an error. *)
GiveUp(r) == Vanish({r}) /\ UNCHANGED <<files, gateX, own, opening, writer, acked>>

(* admit_quiescent: inspect the files, then gate pass, slot, and release. *)
QuiescentScan(r) ==
  /\ rpc[r] = "scan"
  /\ IF CanInspect(file)
     THEN /\ LET s == Inspect(file)
             IN  view' = [view EXCEPT ![r] = [hdr |-> s.hdr, idx |-> s.idx,
                                               last |-> s.last, via |-> "files"]]
          /\ Step(r, "slot")
          /\ UNCHANGED <<files, locks, writer, rhint, since, acked>>
     ELSE GiveUp(r)

QuiescentSlot(r) ==
  /\ rpc[r] = "slot" /\ gateX = "free"
  /\ IF FreeSlots # {}
     THEN /\ TakeSlot(r) /\ Step(r, "open")
          /\ ownS' = ownS \ {r}
          /\ UNCHANGED <<files, gateX, gateS, own, opening, writer, view, rhint, since, acked>>
     ELSE GiveUp(r)

(* admit_live: gate shared and slot, then header and hint, then the scan. *)
LiveGate(r) ==
  /\ rpc[r] = "gate" /\ gateX = "free"
  /\ IF FreeSlots # {}
     THEN /\ TakeSlot(r) /\ Step(r, "hint")
          /\ gateS' = gateS \cup {r}
          /\ UNCHANGED <<files, gateX, own, ownS, opening, writer, view, rhint, since, acked>>
     ELSE GiveUp(r)

LiveHint(r) ==
  /\ rpc[r] = "hint"
  /\ IF DiskOK(file.meta)
     THEN /\ rhint' = [rhint EXCEPT ![r] = NewestHint(hint)]
          /\ Step(r, "bounded")
          /\ UNCHANGED <<files, locks, writer, view, since, acked>>
     ELSE GiveUp(r)

LiveScan(r) ==
  /\ rpc[r] = "bounded"
  /\ LET h == rhint[r]
         s == InspectTo(file, h.end)
     IN  IF /\ HintValid(file, h) /\ CanInspectTo(file, h.end)
            /\ s.last = h.end /\ s.hdr.tx = h.tx
         THEN /\ view' = [view EXCEPT ![r] = [hdr |-> s.hdr, idx |-> s.idx,
                                               last |-> s.last, via |-> "hint"]]
              /\ rhint' = [rhint EXCEPT ![r] = NoHint]
              /\ gateS' = gateS \ {r}
              /\ Step(r, "open")
              /\ UNCHANGED <<files, gateX, own, ownS, slot, opening, writer, since, acked>>
         ELSE GiveUp(r)

(* A view of the published index; it keeps writer.lock with it. *)
Snapshot(r) ==
  /\ Healthy /\ rpc[r] = "idle" /\ gateX = "free" /\ FreeSlots # {}
  /\ TakeSlot(r) /\ Step(r, "open")
  /\ own' = own \cup {r}
  /\ since' = [since EXCEPT ![r] = acked.tx]
  /\ LET i == st.committed
     IN  view' = [view EXCEPT ![r] =
                    [hdr  |-> IF i[Meta] = 0 THEN DiskHeader(file.meta)
                              ELSE [tx |-> file.wal[i[Meta]].tx, root |-> file.wal[i[Meta]].val],
                     idx  |-> i, last |-> st.last, via |-> "handle"]]
  /\ UNCHANGED <<files, gateX, gateS, ownS, opening, writer, rhint, acked>>

(* The reader is dropped, or its process dies at any point. *)
ReaderLeave(r) ==
  /\ rpc[r] # "idle"
  /\ Vanish({r})
  /\ own' = own \ {r}
  /\ UNCHANGED <<files, gateX, opening, writer, acked>>

----------------------------------------------------------------------------
WriterStep ==
  \/ \E p \in Pages \cup {Meta} : Flush(p)
  \/ AppendCommit \/ CommitSync \/ Publish0 \/ Publish1 \/ CommitFold \/ CommitDone
  \/ \E p \in Pages : CopyPage(p)
  \/ CopySync \/ Verify \/ WriteMeta0 \/ MetaSync \/ WriteMeta1 \/ Truncate
  \/ Hint0 \/ Hint1 \/ OpenTruncate \/ OpenSync
  \/ AppendRefused

WriterCall ==
  \/ \E p \in Pages, v \in Vals : Mutate(p, v)
  \/ \E p \in Pages : Evict(p)
  \/ CommitBegin \/ Checkpoint \/ Close
  \/ RollbackBegin \/ RollbackGate

Admission(r) ==
  QuiescentScan(r) \/ QuiescentSlot(r) \/ LiveGate(r) \/ LiveHint(r) \/ LiveScan(r)

Failure == IoError \/ Publish1Fail \/ Crash \/ PowerLoss

Next ==
  \/ WriterStep \/ WriterCall \/ Failure
  \/ OpenGate \/ OpenClaim
  \/ \E r \in Readers : ReaderStart(r) \/ Admission(r) \/ Snapshot(r) \/ ReaderLeave(r)

Spec == Init /\ [][Next]_vars
----------------------------------------------------------------------------
(* Properties *)

WriterPc == {"closed", "idle", "post", "rgate", "pub1"}
              \cup FoldSteps \cup HintSteps \cup OpenSteps \cup WriteSteps
ReaderPc == {"idle", "scan", "slot", "gate", "hint", "bounded", "open"}
Files == [data : Image, meta : [Copies -> Header \cup {Torn}],
          wal : Seq(Frame)]
States == [latest : Index, committed : Index, end : Nat, last : Nat, tx : Nat \ {0},
           floor : Nat, current : BOOLEAN]
Pools == [work : Image, dp : SUBSET (Pages \cup {Meta}),
          dirty : BOOLEAN, poisoned : BOOLEAN]
Views == [hdr : Header, idx : Index, last : Nat, via : {"none", "files", "hint", "handle"}]

(* Every variable holds what its declaration says. *)
TypeOK ==
  /\ file \in Files /\ disk \in Files
  /\ hint \in [Copies -> Hint] /\ hintD \in [Copies -> Hint]
  /\ gateX \in {"free", "opener", "writer"} /\ gateS \subseteq Readers
  /\ own \subseteq Readers \cup {Writer} /\ ownS \subseteq Readers
  /\ slot \in [Readers -> 0..Slots] /\ opening \in BOOLEAN
  /\ wpc \in WriterPc /\ call \in {"none", "commit", "checkpoint", "open", "rollback"}
  /\ st \in States /\ pool \in Pools
  /\ todo \subseteq Pages /\ first \in Copies
  /\ rpc \in [Readers -> ReaderPc] /\ view \in [Readers -> Views]
  /\ rhint \in [Readers -> Hint] /\ since \in [Readers -> Nat]
  /\ acked \in Header

(* The committed state that an open of these files would find is whole (the *)
(* pages it reads are the ones its header roots) and no older than `h`.     *)
Holds(f, h) ==
  LET s == Inspect(f)
  IN  /\ CanInspect(f)
      /\ s.hdr.tx >= h.tx
      /\ s.hdr.tx = h.tx => s.hdr = h
      /\ ReadImage(f, s.idx) = s.hdr.root

(* Whatever step the writer is at, a process that dies there leaves files   *)
(* an open accepts, holding one whole transaction, not older than the last  *)
(* acknowledged commit.                                                     *)
Recoverable == Holds(file, acked)

(* Frames that reach the disk out of order may make the open refuse; an     *)
(* open that is not refused still finds one whole transaction, not older    *)
(* than the last acknowledged commit.                                       *)
OpensToTruth == CanInspect(file) => Holds(file, acked)

(* An open snapshot reads, for as long as it is open, exactly the           *)
(* transaction its header names: no fold, truncation, rollback or crash of  *)
(* the writer moves a page under it.                                        *)
SnapshotStable ==
  \A r \in Readers : rpc[r] = "open" => ReadImage(file, view[r].idx) = view[r].hdr.root

(* A reader admitted through the hint or the writer's handle only ever sees *)
(* a transaction that is already durable (its barrier returned).            *)
SeenIsDurable ==
  \A r \in Readers :
    rpc[r] = "open" /\ view[r].via # "files" => Holds(disk, view[r].hdr)

(* A snapshot is not older than the commit that was acknowledged when its   *)
(* admission began.                                                         *)
SnapshotFresh == \A r \in Readers : rpc[r] = "open" => view[r].hdr.tx >= since[r]

(* A hint left behind by a power loss is never served beside a later        *)
(* durable commit it does not name (finish_open's comment).                 *)
StaleHintNotServed ==
  \A r \in Readers :
    rpc[r] = "open" /\ view[r].via = "hint" => view[r].hdr.tx >= since[r]

(* Never old here and new there: a usable writer handle stands on a         *)
(* transaction at least as new as any reader's.                             *)
Coherent ==
  \A r \in Readers : Healthy /\ rpc[r] = "open" => view[r].hdr.tx <= st.tx - 1

(* While data pages are overwritten and the WAL is reset no reader is       *)
(* served or being admitted.                                                *)
FoldAlone ==
  wpc \in FoldSteps => \A r \in Readers : rpc[r] \notin {"hint", "bounded", "open"}

(* Whichever write of the two metadata copies fails, tears or is lost with  *)
(* the power, one copy is whole and is the one on the disk: the checkpoint  *)
(* never has both copies at stake at once (metadata_write_order, the sync   *)
(* between the copies).                                                     *)
CopySurvives == \E c \in Copies : file.meta[c] # Torn /\ file.meta[c] = disk.meta[c]

(* Every entry of the handle's index names a frame inside its own tail that *)
(* holds an image of that page: no rollback, truncation, reset or failed    *)
(* append leaves the index pointing at a frame that is gone or is another   *)
(* page's.                                                                  *)
IndexNamesFrames ==
  /\ st.last <= st.end /\ st.end <= Len(file.wal)
  /\ \A idx \in {st.latest, st.committed} : \A p \in Pages \cup {Meta} :
       idx[p] # 0 => /\ idx[p] <= st.end
                     /\ file.wal[idx[p]].kind = IF p = Meta THEN "meta" ELSE "page"
                     /\ file.wal[idx[p]].page = p

(* Folding moves pages and never changes what is committed.                 *)
FoldKeepsState ==
  [][(wpc \in FoldSteps) => CanInspect(file') /\ Inspect(file').hdr = Inspect(file).hdr]_vars

(* The gate is never held for good: every exclusive and every shared holder *)
(* lets it go, so nobody waits on it in a circle.                           *)
GateReleased ==
  /\ gateX # "free" ~> gateX = "free"
  /\ \A r \in Readers : r \in gateS ~> r \notin gateS
============================================================================
