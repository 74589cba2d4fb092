--------------------------- MODULE PageWalFormat ---------------------------
(***************************************************************************)
(* What the page-WAL store's files hold and how they are read: frames, the *)
(* metadata copies, the recovery scan and the publication hint of          *)
(* core/engine/src/store/pagewal.                                          *)
(*                                                                         *)
(* Abstractions.  A page holds one value of Vals.  A header's `root`       *)
(* stands for the whole tree it roots, so it IS the image of the pages of  *)
(* its transaction: a mixture of two transactions is then visible as       *)
(* pages that differ from the header's root.  A frame is one unit of       *)
(* length, so offsets count frames.  The running checksum tx_crc is the    *)
(* number of frames it covers.  The extent, the allocation cap, the free   *)
(* list and the database identity are left out.                            *)
(***************************************************************************)
EXTENDS Integers, Sequences, FiniteSets, FiniteSetsExt

CONSTANTS
  Pages,      \* tree pages (page numbers >= 2)
  Vals,       \* what one page can hold
  WalCap,     \* WAL_CAP in frames
  Meta,       \* page number 0, the metadata image in the WAL
  Torn        \* bytes that fail their checksum

Copies == {0, 1}
Image  == [Pages -> Vals \cup {Torn}]
Header == [tx : Nat, root : Image]
Hint   == [floor : Nat, tx : Nat, end : Nat]
NoHint == [floor |-> 0, tx |-> 0, end |-> WalCap + 1]   \* a damaged copy

ASSUME FormatAssumption ==
  /\ Pages # {} /\ IsFiniteSet(Pages)
  /\ Vals # {} /\ Torn \notin Vals \cup Header
  /\ Meta \notin Pages
  /\ WalCap \in Nat \ {0}

----------------------------------------------------------------------------
(* Frames *)

PageFrame(p, t, v) == [kind |-> "page",   tx |-> t, page |-> p,    val |-> v,    n |-> 0]
MetaFrame(t, root) == [kind |-> "meta",   tx |-> t, page |-> Meta, val |-> root, n |-> 0]
CommitFrame(t, k)  == [kind |-> "commit", tx |-> t, page |-> Meta, val |-> Torn, n |-> k]
TornFrame          == [kind |-> "torn",   tx |-> 0, page |-> Meta, val |-> Torn, n |-> 0]

Frame ==
       [kind : {"page"}, tx : Nat, page : Pages, val : Vals \cup {Torn}, n : {0}]
  \cup [kind : {"meta"}, tx : Nat, page : {Meta}, val : Image, n : {0}]
  \cup [kind : {"commit"}, tx : Nat, page : {Meta}, val : {Torn}, n : Nat]
  \cup {TornFrame}

Index   == [Pages \cup {Meta} -> Nat]      \* 0: the page is not in the WAL
NoIndex == [p \in Pages \cup {Meta} |-> 0]

MaxOr0(S) == IF S = {} THEN 0 ELSE Max(S)

(* The newest image of every page among the first n frames. *)
IndexOf(w, n) ==
  [p \in Pages \cup {Meta} |->
     MaxOr0({i \in 1..n : w[i].kind \in {"page", "meta"} /\ w[i].page = p})]

(* A page as a view sees it: from its pinned WAL frame, else from the data file. *)
ReadPage(f, idx, p) ==
  IF idx[p] = 0 THEN f.data[p]
  ELSE IF idx[p] <= Len(f.wal) THEN f.wal[idx[p]].val ELSE Torn
ReadImage(f, idx) == [p \in Pages |-> ReadPage(f, idx, p)]

----------------------------------------------------------------------------
(* disk_header and metadata_write_order *)

ValidHeaders(m) == {m[c] : c \in Copies} \ {Torn}

DiskOK(m) ==
  /\ ValidHeaders(m) # {}
  /\ \A h, g \in ValidHeaders(m) : h.tx = g.tx => h = g

DiskHeader(m) == CHOOSE h \in ValidHeaders(m) : \A g \in ValidHeaders(m) : g.tx <= h.tx

(* The copy the checkpoint replaces first: the damaged or the older one. *)
FirstCopy(m) ==
  IF m[0] # Torn /\ (m[1] = Torn \/ m[0].tx > m[1].tx) THEN 1 ELSE 0

----------------------------------------------------------------------------
(* Pager::inspect_bounded *)

Commits(w, n) == {i \in 1..n : w[i].kind = "commit"}

(* How many frames verify before the first damaged one. *)
Intact(w) == MaxOr0({n \in 1..Len(w) : \A i \in 1..n : w[i].kind # "torn"})

(* The damaged frame is a torn tail: no frame after it verifies. *)
TornTail(w, n) == \A i \in (n + 1)..Len(w) : w[i].kind = "torn"

(* The metadata image a commit frame closes; 0 when the transaction has none. *)
MetaOf(w, i) == MaxOr0({j \in 1..(i - 1) : w[j].kind = "meta" /\ w[j].tx = w[i].tx})

HeaderAt(w, i) == [tx |-> w[i].tx, root |-> w[MetaOf(w, i)].val]

(* Transaction numbers run on from frame to frame, each commit carries the  *)
(* checksum of its own frames and its own metadata, and a commit of the     *)
(* checkpointed transaction repeats the checkpointed header.                *)
FramesInOrder(w, n, disk) ==
  /\ w[1].tx \in 1..(disk.tx + 1)
  /\ \A i \in 2..n :
       w[i].tx = w[i - 1].tx + (IF w[i - 1].kind = "commit" THEN 1 ELSE 0)
  /\ \A i \in Commits(w, n) :
       /\ w[i].n = i - 1 - MaxOr0(Commits(w, i - 1))
       /\ MetaOf(w, i) # 0
       /\ w[i].tx = disk.tx => HeaderAt(w, i) = disk
  /\ w[1].tx <= disk.tx => \E i \in Commits(w, n) : w[i].tx = disk.tx

InspectOK(f, w, n) ==
  /\ DiskOK(f.meta)
  /\ n > 0 => FramesInOrder(w, n, DiskHeader(f.meta))

(* What the scan of the first n frames yields: the header in force, the end *)
(* of the last commit, and the committed index.                             *)
Scan(f, w, n) ==
  LET last == MaxOr0(Commits(w, n))
  IN  [hdr  |-> IF last = 0 THEN DiskHeader(f.meta) ELSE HeaderAt(w, last),
       idx  |-> IndexOf(w, last),
       last |-> last]

(* Unbounded: the whole file, ending at a torn tail. *)
CanInspect(f) == TornTail(f.wal, Intact(f.wal)) /\ InspectOK(f, f.wal, Intact(f.wal))
Inspect(f)    == Scan(f, f.wal, Intact(f.wal))

(* Bounded by a published end: every frame of the prefix must verify. *)
CanInspectTo(f, e) == e <= Intact(f.wal) /\ InspectOK(f, f.wal, e)
InspectTo(f, e)    == Scan(f, f.wal, e)

----------------------------------------------------------------------------
(* read_hint and validate_hint: the copy with the larger transaction, copy *)
(* 0 on a tie; it must fit the metadata floor and the length of the WAL.    *)

NewestHint(h) ==
  IF h[0] = NoHint \/ (h[1] # NoHint /\ h[1].tx > h[0].tx) THEN h[1] ELSE h[0]

HintValid(f, h) ==
  LET floor == DiskHeader(f.meta).tx
  IN  /\ h # NoHint
      /\ h.floor <= floor /\ floor <= h.tx
      /\ h.end <= Len(f.wal)
      /\ h.end = 0 => floor = h.tx
============================================================================
