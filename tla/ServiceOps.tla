----------------------------- MODULE ServiceOps -----------------------------
(***************************************************************************)
(* What ServiceDatabase (dist/src/service) keeps, and what its methods do  *)
(* to it between two acquisitions of a lock: the one writer over the       *)
(* page-WAL store, the published read view, the state under the publish    *)
(* mutex, the batch a writer guard records and the queues of the change    *)
(* feed.  Service interleaves these steps at the granularity of the locks, *)
(* PgServer strings them together into whole statements.                   *)
(*                                                                         *)
(* Of the store only what the service can tell apart is kept, as PageWal   *)
(* shows it: the number of the last published transaction, the length of   *)
(* the log since the last fold, and one reader slot per open view.         *)
(***************************************************************************)
EXTENDS Integers, Sequences, FiniteSets

CONSTANTS
  Slots,       \* READER_SLOTS
  FoldAt,      \* the log length at which checkpoint_due answers true
  LogCap,      \* WAL_CAP: the log length past which a commit is refused
  QueueBound,  \* CHANGE_QUEUE_BOUND
  KeyCap,      \* CHANGE_KEY_CAP
  IntervalZero,\* publish_interval is zero: every commit publishes
  MaxSerial    \* bound: publication ordinals ever given out

ASSUME ServiceOpsAssumption ==
  /\ Slots \in Nat \ {0} /\ FoldAt \in Nat \ {0} /\ LogCap \in Nat
  /\ QueueBound \in Nat \ {0} /\ KeyCap \in Nat /\ IntervalZero \in BOOLEAN
  /\ MaxSerial \in Nat \ {0}

Serials == 1..MaxSerial

(* The service and the store under it.  A transaction is a number from 1   *)
(* on; at[n] is the one that the view with serial n reads, 0 when that     *)
(* view has no open handle.  `work` counts uncommitted mutations, so that  *)
(* has_uncommitted_work is work > 0.                                       *)
(* ServiceDatabase::open on a log of length l: one that is due folds       *)
(* before the first view takes a slot.                                     *)
Service0(l) ==
  [tx |-> 1, log |-> IF l >= FoldAt THEN 0 ELSE l, work |-> 0, failed |-> FALSE,
   at |-> [n \in Serials |-> IF n = 1 THEN 1 ELSE 0], published |-> 1, next_serial |-> 2,
   dirty |-> FALSE, elapsed |-> IntervalZero, fold_wanted |-> FALSE]

ServiceState ==
  [tx : Nat \ {0}, log : Nat, work : Nat, failed : BOOLEAN,
   at : [Serials -> Nat], published : Serials, next_serial : Nat,
   dirty : BOOLEAN, elapsed : BOOLEAN, fold_wanted : BOOLEAN]

Open(s)      == {n \in Serials : s.at[n] # 0}
SlotFree(s)  == Cardinality(Open(s)) < Slots
NoReader(s)  == Open(s) = {}
Due(s)       == s.log >= FoldAt

(* Database::open_snapshot: the newest published transaction, in a slot.   *)
Opened(s, n) == [s EXCEPT !.at[n] = s.tx]

(* The last Arc of a view, or a private view, is dropped. *)
Dropped(s, n) == [s EXCEPT !.at[n] = 0]
-----------------------------------------------------------------------------
(* publish_locked: the next view is opened, and only then swapped in; the  *)
(* old one goes unless a caller still holds it.  With an interval of zero  *)
(* the next publication is due at once.                                    *)
Minted(s) == Opened(s, s.next_serial)

Swapped(s, shared) ==
  [(IF shared THEN s ELSE Dropped(s, s.published))
     EXCEPT !.published = s.next_serial, !.next_serial = @ + 1,
            !.elapsed = IntervalZero, !.dirty = FALSE]

(* publish_if_due and mark_dirty_and_maybe_publish ask this. *)
MutPublishDue(s) == s.dirty /\ ~s.elapsed

PublishDue(s) == s.dirty /\ s.elapsed

(* The store's commit when it succeeds: nothing to publish places no       *)
(* barrier; otherwise a log that became due is folded at once if no reader *)
(* has a slot.                                                             *)
Committed(s) ==
  IF s.work = 0 THEN s
  ELSE LET t == [s EXCEPT !.tx = @ + 1, !.log = @ + 1, !.work = 0]
       IN  IF Due(t) /\ NoReader(t) THEN [t EXCEPT !.log = 0] ELSE t

(* A commit with something in it appends to the log, up to the cap. *)
Appends(s) == s.work = 0 \/ s.log < LogCap

(* fold_if_due: the published view gives its slot back when only the       *)
(* service has it, the store folds when no slot is taken, and whether it   *)
(* did is left in fold_wanted for the holders of private views.            *)
MutReleased(s, shared) == Dropped(s, s.published)

Released(s, shared) == IF shared THEN s ELSE Dropped(s, s.published)

Checkpointed(s) ==
  IF NoReader(s) THEN [s EXCEPT !.log = 0, !.fold_wanted = FALSE, !.dirty = TRUE]
                 ELSE [s EXCEPT !.fold_wanted = TRUE, !.dirty = TRUE]

(* Database::rollback: the working tree is what the files hold. *)
RolledBack(s) == [s EXCEPT !.work = 0, !.failed = FALSE]
-----------------------------------------------------------------------------
(* PendingBatch.  Keys are told apart by their number only: `keys` is the  *)
(* length of the list, dropped whole once a key does not fit.  `unnamed`   *)
(* says that edge_types or unnamed_writes has something in it.             *)
NoBatch == [touched |-> FALSE, unnamed |-> FALSE,
            keys |-> 0, keys_total |-> 0, keys_truncated |-> FALSE]
Batches == [touched : BOOLEAN, unnamed : BOOLEAN,
            keys : Nat, keys_total : Nat, keys_truncated : BOOLEAN]

NoteKey(b) ==
  LET full == b.keys_truncated \/ b.keys = KeyCap
  IN  [b EXCEPT !.touched = TRUE, !.keys_total = @ + 1,
                !.keys = IF full THEN 0 ELSE @ + 1, !.keys_truncated = full]

(* note_edge_type and note_unnamed_write. *)
NoteUnnamed(b) == [b EXCEPT !.touched = TRUE, !.unnamed = TRUE]

(* A Receiver and its Subscriber: whether it is registered and still has   *)
(* its receiving end, the queue, and the events it lost.                   *)
NoSubscription == [live |-> FALSE, gone |-> FALSE, queue |-> <<>>, lagged |-> 0]
Subscribed     == [NoSubscription EXCEPT !.live = TRUE]

Listening(feed) == \E c \in DOMAIN feed : feed[c].live

(* deliver, for one subscriber: try_send. *)
MutOffered(sub, e) ==
  IF ~sub.live THEN sub
  ELSE IF sub.gone THEN NoSubscription
  ELSE IF Len(sub.queue) < QueueBound THEN [sub EXCEPT !.queue = Append(@, e)]
  ELSE [sub EXCEPT !.queue = Append(Tail(@), e)]

Offered(sub, e) ==
  IF ~sub.live THEN sub
  ELSE IF sub.gone THEN NoSubscription
  ELSE IF Len(sub.queue) < QueueBound THEN [sub EXCEPT !.queue = Append(@, e)]
  ELSE [sub EXCEPT !.lagged = @ + 1]

Delivered(feed, e) == [c \in DOMAIN feed |-> Offered(feed[c], e)]
=============================================================================
