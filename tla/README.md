# A TLA+ model of sekejap's storage, collection engine and service

sekejap is an embedded multi-model database in Rust: a page-image WAL store, a
typed-collection engine over it (rows, graph edges, scalar, spatial, text and
vector indexes), SQL and GQL front ends, and a service layer with a PostgreSQL
wire server. This directory specifies the parts whose correctness depends on
the order of many steps: what happens on a crash between two writes, what a
reader sees beside a writer, what a handle remembers across a failed commit,
what a session may see of another's transaction.

## The system and its parts

| part | code | here |
|---|---|---|
| page-WAL store | `core/engine/src/store/pagewal/` | `PageWalFormat`, `PageWal`; its promise, `Store` |
| collections: row ids, keys, row counts, drop | `core/engine/src/collections/{mod,row_count,drop_collection}.rs` | `Collections` |
| scalar secondary indexes | `core/engine/src/collections/catalog.rs` | `IndexBuild` |
| SQL statements | `lang/src/compile/` | REINDEX, in `IndexBuild` |
| graph: edges, endpoint sets, edge tables | `core/engine/src/index/graph/` | `Graph`, `GraphReads` |
| service: writer guard, publication, change feed | `dist/src/service/` | `ServiceOps`, `Service` |
| PostgreSQL wire server | `dist/src/pg/` | `PgServer`, over `ServiceOps` |
| graph of the legacy store | `core/kernel/src/graph.rs` | not modelled |
| spatial, text, vector indexes | `core/engine/src/index/` | not modelled |
| B-tree, pages, bulk pack | `core/kernel/src/{btree,page,bulk}.rs` | abstracted to maps |
| buffer pool, free list | `core/kernel/src/pool.rs` | early write-back only |
| legacy log store | `core/kernel/src/{store,wal,meta,readers}.rs` | not modelled |
| repair and recovery export | `core/engine/src/store/` | not modelled |
| registers, headers, catalogue records | `core/engine/src/supportive/` | the constant `Register` |
| verification, rebuild, upgrade | `core/engine/src/collections/` | not modelled |
| query engine, GQL | `core/engine/src/query/` | not modelled |
| language front ends | `lang/src/` | not modelled |
| Rust facade, C ABI, CLI | `dist/` | not modelled |

How they interact: every write goes through one `Database` handle, which owns
one `PageWalStore` writer. A `Database` call changes the working tree (dirty
pages of the pool); `commit` writes the accumulated counters into the tree and
hands it to the store, which appends page images and a commit frame to the
WAL, syncs, and publishes the transaction to readers through the hint file.
Readers in this or other processes pin a published prefix of the WAL. A
checkpoint folds the WAL into the data file when no reader is in the way. The
store can fail a commit in two ways, with the transaction lost or with it
already published, and `rollback` finds out which by inspecting the files.
`ServiceDatabase` shares one such handle between threads: a mutex makes the
writer exclusive, and readers use a published snapshot that commits replace.
The wire server gives each connection a session over that service.

`PageWal` specifies the store; `Store` is what it promises to the layer above.
`Collections`, `IndexBuild` and `Graph` specify the handle, where a commit has
exactly the three outcomes ok, lost and published-with-an-error. `Service`
specifies the threads over the handle, and `PgServer` strings the service's
calls together into the statements of a session.

## Modules

**PageWalFormat** — what the files hold and how they are read: frames, the two
metadata copies (`disk_header`, `metadata_write_order`), the recovery scan
(`inspect_bounded`, `torn_tail`) and the publication hint (`read_hint`,
`validate_hint`), as operators without state. A page holds one value. The
header's `root` stands for the tree it roots, so it is the image of the pages
of its transaction: a mixture of two transactions shows as pages that differ
from the header in force. A frame has length one; a running checksum is the
number of frames it covers; a frame whose bytes fail their checksum is `Torn`.

**PageWal** — the processes: one writer, snapshot readers, and the files and
locks they share. `file` is what live processes see and `disk` what barriers
have made durable. The writer's `wpc` names its next step, so that each write,
sync, truncation and lock of `publish`, `checkpoint_with_crash`,
`finish_open`, `rollback` and `open_inner` is an action of its own, and
another process, an error, a death or a power loss can come between any two.
Reader admission is `ReaderStart`, then `QuiescentScan`/`QuiescentSlot` when
nobody owns the database, or `LiveGate`/`LiveHint`/`LiveScan` beside a writer;
`Snapshot` is the view made from the writer's handle. `pool` is the writer's
working image with its dirty pages, `st` the pager's `State`.

**Store** — the abstract specification: one committed state `now`, what a
power loss would leave of it (`safe`), what was acknowledged (`acked`), and
what a usable, clean handle stands on (`base`). `MCStore` gives the refinement
mapping from `PageWal`.

**Collections** — the `Database` handle over a working tree `db` and the
published tree `disk`: `sequence`, `row_id_blocks`, `row_id_pending`,
`allocated`, `row_counts`, `row_count_backfill`, `dropping`,
`user_writes_pending` and `failed` are variables under their own or shortened
names. Operations are actions: `CreateCollection`, `PutNew` (put or insert of
a new key), `Replace`, `Delete`, `Commit`, `Rollback`, `Reopen`, `Backfill`,
`BeginDrop`, `DropStep` in its four keyspace phases, `DropDescriptor`. `used`
is a history variable: the ids any published tree ever held.

**IndexBuild** — the scalar indexes of one collection over the same kind of
handle: `CreateIndex`, row writes through the cached descriptor list
(`WriteRow`), `BuildStep`, the sorted build (`SortedBegin`, `SortedRun`,
`SortedRefused`, `SortedEnd`, `SortedDuplicate`), `BeginDrop`, `DropStep` and
the statement REINDEX with a commit after each of its steps (`Reindex`,
`ReindexClean`, `ReindexCreate`, `ReindexSwap`, `ReindexDrop`).

**Graph** — the edges of one handle: primary and reverse keys, endpoint sets,
edge ids reserved in blocks, one edge table with its key, the cascade of row
deletes and collection drops, and the endpoint backfill of an old file, with
any other call between its steps. A label stands for a (context, edge type)
pair. `missed` is history: the ends of the edges that came or went behind a
backfill that had not set its bit.

**GraphReads** — neighbour reads, the ends of a label and the breadth-first
traversal as operators, each complete or an error. `MCGraph` compares them
with definitions made from the edge set alone.

**ServiceOps** — what `ServiceDatabase` keeps and what its methods do to it
between two acquisitions of a lock, as operators on one record. Of the store
it keeps the number of the last transaction, the length of the log and one
slot per open view.

**Service** — threads over those operators, interleaved at the writer mutex,
the publish mutex and the subscriber list: a writer guard with put, commit,
rollback and drop, the deferred fold, publication, `reader`, `open_reader`,
`publish_now`, and the change feed with bounded queues. `WriterGuard::sql` is
several steps, since what a subscriber learns depends on them: a statement
begins (`BeginSql`), writes any number of times (`SqlWrite`), commits on its
own if it is DDL or END BULK (`SqlBarrier`), goes back to its last commit if it
is an index build (`SqlUndo`), and answers a count that is recorded, be it zero
(`SqlAffected`), or something that is not (`SqlUnrecorded`: an error after some
writes, the notice of a DDL, rows; `sql` records rows for an INSERT only, so an
UPDATE ... RETURNING leaves no trace in the event). A commit inside a statement
neither marks the service dirty nor publishes a view: the staleness window is
about `WriterGuard::commit`.

**PgServer** — sessions: transaction blocks as the held writer, the private
view a connection keeps between statements, autocommit writes, DDL, cursors,
prepared statements and portals, the skip to Sync, the idle poll and hang-up.
A step is one statement or one message, since `try_writer` never waits. A
statement may find nothing to do, and a refused one may leave writes it had
made, transactions its DDL steps had published, or a failed handle; a walk may
fail after any number of rows, which a streamed portal has sent by then.

**MCPageWal, MCStore, MCPowerLoss, MCCollections, MCIndexBuild, MCGraph,
MCService, MCPgServer** — instances for TLC. Several run more than one
scenario side by side: a constant variable `scenario` picks the instance with
its own bounds, so one run asks one question of each. A view drops what the
future cannot depend on: the pool and `State` of a poisoned handle, the memory
of a failed handle that rollback replaces.

**PageWalProofs, StoreProofs, CollectionsProofs,
CollectionsCountProofs, IndexBuildProofs, ServiceProofs, PgStatementProofs,
PgServerProofs** — the proofs.

An operator named `Mut...` stands before the definition it is a broken version
of (a dropped sync, a cursor off by one, a name not moved); each property is
checked to fail when its mutant takes the definition's place.

## What is checked

| run | instance | properties |
|---|---|---|
| `store` | three scenarios: two readers and two slots beside two transactions, no faults; one reader, I/O errors and process death; no reader, two transactions, I/O errors, process death, power loss | `Recoverable`, `CopySurvives`, `IndexNamesFrames`, `SnapshotStable`, `SeenIsDurable`, `SnapshotCurrent`, `FoldAlone`, `FoldKeepsState`, and `KeepsPromise`: every step is one of `Store` |
| `power_loss` | two scenarios: two pages, early write-back, all faults, unsynced frames reach the disk in any order; and a lost hint, recovery beside an arriving reader, with fairness | `PowerLossOpensToTruth`, `WindowSnapshotFresh`, `WindowGateReleased` |
| `stale_hint` | one reader, power loss that also loses the hint, process death | `StaleHintNotServed` is violated |
| `collections` | three scenarios: one collection of 2 keys and 4 ids, counted and dropped; two collections of a Register file, ids in blocks of 2; two collections, two drops | `IdsNeverReused`, `KnownLiveIsThere`, `CountExact`, `RowsConsistent`, `DropResumable`, `DropFreezes` |
| `id_reuse` | a Register file, commits published with an error | `IdsNeverReused` is violated |
| `index_build` | two scenarios: one index of three rows built in steps or sorted, and dropped; REINDEX of up to two rows with all commit outcomes, three indexes ever | `ReadyIsExact`, `BuildingIsResumable`, `CatalogueAgrees`, `NameStaysAnswered` |
| `graph` | six scenarios: an edge table; ids of parallel edges; batches; the backfill of an old file of three edges between other calls; a collection drop; reads of 64 graphs with each bound tight or loose | `EdgesSound`, `EndpointSetExact`, `EdgeIdsNeverReused`, `TableKeyHolds`, `ReadsExact`, `NoEdgeOrphaned` |
| `backfill_commit` | the backfill with a commit between its steps | `Reopenable` is violated |
| `service` | two readers, one subscriber, two slots, three transactions, two events, failing put, commit, fold and rollback | `PublishedSound`, `GuardCommitsItsOwn`, `FeedAddsUp`, `HeldViewStable`, `StalenessBound` |
| `barrier_event` | one reader, one subscriber, no faults | `BarrierIsEvent` is violated |
| `pg` | a client of the simple protocol that runs everything and one of the extended protocol, three transactions, all faults | `OneViewEach`, `WriterLeftClean`, `PortalRunsOnce`, `BlockIsAtomic`, `ReadsForward`, `FoldsWhenLetGo` |
| `own_writes` | one client alone, no faults | `OwnWritesRead` is violated |

What the properties say is written above each of them. The ones that carry
most: `Recoverable`, wherever the writer stops, the files open to one whole
transaction that is not older than the last acknowledged commit;
`SnapshotStable`, no fold, truncation or rollback moves a page under an open
snapshot; `SeenIsDurable`, a reader beside a writer never sees what a power
loss could undo; `IdsNeverReused`, a row id is not handed out again;
`CountExact`, a count answered without a walk is the number of rows;
`DropResumable`, a drop resumes from the committed phase alone; `ReadyIsExact`,
queries read a complete index and a unique one has no duplicates, however it
was built and whatever was written meanwhile; `EdgesSound`, no read meets half
an edge; `EndpointSetExact`, a declared endpoint set is wrong about no end but
those that `missed` names; `FeedAddsUp`, a subscriber is told of every event it
lost, and an event leaves out only what a statement did without an answer that
is recorded; `StalenessBound`,
a reader that begins after the interval sees every commit that had returned;
`BlockIsAtomic`, a block is published whole or not at all.

Runs set `CHECK_DEADLOCK FALSE` where the bounded instance may stop: a
database may be closed for good, and ids, serials and transactions run out at
their bounds.

### Bounds

`PageWal`: one page is enough for most questions, because the header carries
the image of its transaction; two pages let a fold or a write-back stop
between them (`power_loss`). `FoldAt` and `WalCap` are chosen so that a fold
falls due after one or two transactions and that a frame can be refused for
want of room. `MaxTx = 2` lets a second transaction overwrite frames that an
unsynced truncation may bring back. Two readers with two slots are needed for
one to be admitted while another holds an older version; where two readers
meet all the faults the state space is too large, so `store` has faults beside
one reader and beside none (`FewReaders`).

`Collections`: `Block = 2` with `MaxId = 3` lets a block be left half used,
crossed, and reopened. `DeletedIdentities = 1` makes the set of deleted ids
overflow. `Batch = 2` lets steps end within, at and after the last entry.

`IndexBuild`: one value, null and three rows are the least in which a unique
index has a duplicate across its cursor, and a null and a row that comes and
goes beside it; the REINDEX scenario has two values and changes one into the
other. Three indexes let a REINDEX meet a temporary index that an earlier one
left. `FewRows` lets a transaction change at most one row while an index is
built.

`Graph`: three rows in two collections are the least with an edge inside a
collection, one across and a row between two others; `IdBlock = 2` crosses a
block; `MaxCascade` is 1 or 3 so that the cascade is within and past its
bound; `MemoSize = 2` lets the memo of endpoints overflow.

`Service`, `PgServer`: `MaxTx = 3` and `FoldAt = 2` give a fold between two
commits, `LogCap = 2` a refused one; `Slots` is the least with
which everybody can have a view and a publication beside them still finds no
slot. `MaxSerial` caps the publication ordinals; a
step that might pass it is not taken. `MaxEvents` caps the events: a statement
that affects no row is recorded, so a commit that publishes nothing may still
deliver one. `Active` has readers at work only while the feed is not in use,
and fewer of them beside a statement, since no property of `service` relates
the views to the feed; the theorems hold without it. In `pg`, `Apart` keeps a cursor of one client and
a prepared statement of the other from being open side by side, a portal's
statement from being prepared anew beside it, and lets the handle fail early
in a run or not at all: both sides of each are explored, only their product is
cut.

### Fairness

`WindowGateReleased` is the one liveness property. `ScenarioSpec` of
`MCPowerLoss` has weak fairness of a started call's next step (`WriterStep`,
`OpenClaim`, `Admission(r)`): a thread inside a commit, a fold, an open or an
admission goes on when it can. Nothing makes a caller begin a call, and the
locks are not assumed to be fair: `flock` promises no order, so the property
says that every holder lets the gate go and not that every waiter gets it.
The service and the wire server have no background thread: what they do late
(a fold, a publication) waits for the next caller, so their properties speak
about the step of that caller and assume no fairness.

## What is found

`stale_hint`. The comment of `finish_open`
(`core/engine/src/store/pagewal/mod.rs:407-410`) says that a hint left behind
by a crash "is never served beside a later durable commit it does not name".
It is when an opener fails before it has republished the hint: a reader that
met the opener's `writer.lock` has chosen the live admission and waits at the
gate; with the opener gone it reads the old hint, which still names a commit
at its bound.

`id_reuse`. The doc of `ROW_ID_BLOCK`
(`core/engine/src/collections/mod.rs:362-363`) says "An id is still never
handed out twice; a crash or a rollback can only leave a gap." `rollback`
keeps `row_id_blocks` as of the last commit that returned `Ok`. When a commit
was published and returned an error, its rows are in the file after the
rollback and the block is older than they are: the next insert into that
collection takes a committed row's id.

`backfill_commit`. `backfill_endpoint_sets` writes endpoint keys in every step
and the feature bit in the last, and `validate_endpoint_sets` refuses a file
with keys and no bit. A caller that commits between steps, as
`core/engine/src/index/graph/endpoints.rs:408` leaves to it, publishes a file
that cannot be opened if the pass is interrupted; lines 412 onwards say that
the partial keys are invisible and the next backfill writes them again.

`own_writes`. `docs/dist/WIRE_CONTRACT.md:446-449` says that with the server's
publish interval of zero a client reads its own writes on the next statement.
DDL in a block commits on its own; a ROLLBACK after it neither marks the
service dirty nor publishes, so the session's next read still shows the view
from before the DDL, until somebody commits.

`barrier_event`. `WriterGuard::sql` refuses COMMIT because it "would cross the
durability barrier without the feed noticing, and §5's whole claim is that the
event and the barrier are the same point" (`dist/src/service/mod.rs:642-645`,
`docs/dist/OPS_CONTRACT.md:459-462`). DDL and END BULK are let through and call
`Database::commit` themselves (`lang/src/compile/plan.rs:1718` and the arms
after it): a row put before them under the same guard is durable with the
statement, its event comes with the guard's own commit, and never if the guard
is dropped instead.

`power_loss` checks `OpensToTruth` and not `Recoverable` because of a
documented limit (`docs/core/RECOVERY_CONTRACT.md`): frames of an uncommitted
transaction that reach the disk out of order may make the open refuse.

## What is proved

The theorems hold for all values of the constants, under the named assumptions
of the modules (`FormatAssumption`, `PageWalAssumption`,
`CollectionsAssumption`, `IndexBuildAssumption`, `ServiceOpsAssumption`,
`ServiceAssumption`, `PgAssumption`): sizes are natural numbers, those that must be positive
are, `Pages` is finite and not empty, `Keys` is finite (keys are bounded in
length), the distinguished values differ from the others. The bounds are
constants as well, so a theorem is about every bound.

**The store** (`PageWalProofs`, `StoreProofs`).

- `FoldIsAlone`: `Spec => []FoldAlone`. `FoldAlone` is not inductive:
  `LockInv` adds who holds the gate at each step of the writer and the opener,
  that no slot is held during a fold, and that a reader past the gate holds
  one.
- `TypeCorrect`, `CopyAlwaysSurvives`, `IndexAlwaysNamesFrames`, from one
  inductive invariant `StoreInv`. Types alone are not inductive, because a
  fold reads its header out of the frame that the index names: `TailInv` says
  that every index entry lies in the handle's tail and names an image of its
  page, and that a tail being committed or folded has a metadata image.
  `CopyInv` follows the two metadata copies through a fold: which one is whole
  and durable before, between and after the two writes, so that a torn or lost
  write never meets the last good copy. There is one lemma per action
  (`AppendCommitKeeps`, ..., `PowerLossKeeps`), joined call by call
  (`ControlStep`, `ReadersStep`, `CommitSteps`, `FoldStepsKeep`, `CallSteps`,
  `FailureSteps`) and in `StoreStep`.
- `Durability`: what `Store` promises implies that an acknowledged commit is
  never lost. That `PageWal` implements `Store` is checked by TLC.

**Collections** (`CollectionsProofs`, with the first two of three
invariants, and `CollectionsCountProofs`, with the third and the theorems). Each invariant rests on the one before:

- `Shape`: types, and for each collection what its phase says of its keyspaces
  in both trees; a handle that has not failed remembers only live collections
  and has at most one drop. From it `DropsResume` (`[]DropResumable`) and
  `DropsOnlyAdvance` (`DropFreezes`).
- `Ided`: keys and rows are inverse, and every id that was ever published lies
  below the next id of the collection, whether that is the sequence in the
  tree, a reserved block in memory or one pending in the transaction. From it
  `IdsStayFresh` (`[]IdsNeverReused`) and `RowsStayPaired`
  (`[]RowsConsistent`).
- `Tallied`: a stored count and the transaction's delta together are the
  number of rows, and the counting walk has counted exactly the rows up to
  where it stands, with no insert able to land behind it. From it
  `CountsAreExact` (`[]CountExact`).

The last three theorems carry the hypothesis `Answers`: in a Register file no
commit is both published and answered with an error. It cannot be dropped,
`id_reuse` is the counterexample. For a file without a Register nothing is
assumed. `DropsResume` and `DropsOnlyAdvance` hold without it.

**Scalar indexes** (`IndexBuildProofs`). `ReadyAnswersExactly`
(`[]ReadyIsExact`), `BuildsResume` (`[]BuildingIsResumable`), `CatalogueIsOne`
(`[]CatalogueAgrees`) and the action property `NamesStayAnswered`. Exactness
of a READY index is not inductive, since an index becomes READY by a step that
only looks past its cursor: `Sound` says of one tree that a BUILDING index
holds a subset of the exact entries, all of those behind its cursor, and, if
unique, none there that clashes. It holds of the working tree and of the
published one, so that a rollback may replace one by the other. `SortOK` and
`StmtOK` say what the sorted build and REINDEX rely on between their steps.

**Service** (`ServiceProofs`). Invariants in the order
they rest on each other: `ControlInv` (types, who has which mutex, serials in
use lie below the next one and a private view is nobody else's), `FreshInv`
(a reader on its way finds a view with what it needs, or mints one itself),
`GuardInv` (no batch and no work outside a guard unless the handle failed, and
a running statement never takes back what was there when it began), `FeedInv`
(received, queued, lost and pending add up to what is owed) and `EventInv`.
That an event is exact is not inductive: while a statement runs its writes are
made and not yet recorded, so `EventInv` measures the batch by what was there
when the statement began, and `GuardInv` says that this is no more than what
there is when it answers. From them `GuardsDoNotLeak`, `FeedIsComplete`, `HeldViewsAreStable`,
`StalenessIsBounded`, and, with a count of the open slots,
`PublicationIsSound`.

**PostgreSQL server** (`PgStatementProofs`, `PgServerProofs`).
`WriterIsLeftClean`, `OneViewForEach`, `PortalsRunOnce`, and the action
properties `BlocksAreAtomic`, `ReadsGoForward` and `FoldsOnceLetGo`. A
statement is a chain of calls on the service, so what a call may do is said
once: `Turn` relates the service before and after to the view of the one
session that called. It lets that session close its view or take a new one
that shows everything published, it leaves every other session's view alone,
and it loses no acknowledged commit without raising the dirty flag. Turns
compose. `Good` says of a statement that it is a turn, what rows it may show,
which commit it may acknowledge and what it may do to the writer and an open
block; `Step` says the same of a whole message. Each statement is shown to be
`Good` in the first module, each message to be a `Step` in the second. The
three invariants alone are not inductive: that slots are not exceeded needs to
know whose each open view is (`OwnViews`), and that a read goes forward needs
to know that a view kept while nothing newer was published shows at least what
was published (`ViewOK`). `Inv` adds these, the types, and that an
acknowledged commit is shown by the published view or the service is dirty.

Only model-checked, and why:

- liveness (`WindowGateReleased`): out of the prover's reach;
- `KnownLiveIsThere` and the properties of `Graph`: a drop step and a batch
  fold an operator over a set or a sequence of rows, and what a fold computes
  needs an induction over data, which the provers cannot do;
- `ReadsExact`: compares recursive functions, for the same reason;
- `Recoverable`, `PowerLossOpensToTruth`, `SnapshotStable`, `SeenIsDurable`,
  `SnapshotCurrent`, `WindowSnapshotFresh`, `FoldKeepsState` and
  `KeepsPromise`: an inductive invariant for them has to say what an open would find
  after every truncation and every damage of the WAL, at each step of a commit
  and of a fold. It has not been worked out; `StoreInv` is its first part.

## What is assumed and what is left out

Of the operating system: a barrier that returned is honest; a file's length is
journalled, so an unsynced truncation is lost as a whole or kept; locks of a
dead process are released; the hint file is written back as a whole. The model
is of `SyncMode::Full` and `Normal`; with `Off` no barrier is placed and
nothing below `acked` is promised.

In `PageWal`: creating a database, `set_cap`, the byte allowances other than
`WAL_CAP`, the extent and free list, the persisted reader bound. The `failed`
flag that `Database::rollback` sets is folded into `poisoned`. A frame that
was only partly written is invisible to the scan and is not kept.

In `Collections`: document contents, layouts and column rules; graph edges,
which are in `Graph` with the Edges phase of a drop and RESTRICT/CASCADE;
header feature bits other than the one for row counts. A backfill call that
goes on into a second collection is two calls. A file starts as an old one
with empty collections, each with one index or none.

In `IndexBuild`: one collection and one column, the scalar family; a tree's
root is kept only as there being a tree; sizes of runs are nondeterministic;
the hidden `max_commits` hook of the sorted build is left out; `Rollback` also
stands for a crash followed by a reopen.

In `Graph`: contexts and edge types as two dictionaries, the membership
records of property graphs, paused cursors and cancellation.

In `Service`: the statement deadline and the interrupt flag, which end a walk
and change nothing, and `close`. In `PgServer`: framing and type conversion,
session settings, LISTEN, CancelRequest.

Not modelled at all: spatial, text and vector indexes, whose algorithms are
numeric or linguistic and out of TLC's reach; the kernel's B-tree, pool and
free list, which are sequential and appear here as maps; the legacy log store
and its graph; the offline passes (repair, verification, rebuild, upgrade);
the language front ends and the query engine, which are deterministic over one
snapshot and keep no state.
