---------------------------- MODULE PageWalProofs ----------------------------
(***************************************************************************)
(* The page-WAL store for any number of pages, values, readers, slots and  *)
(* frames: what the scan of a WAL and of the metadata copies returns; that *)
(* a fold is alone with the files; type correctness, the survival of a     *)
(* metadata copy and the soundness of the handle's index.                  *)
(***************************************************************************)
EXTENDS PageWal, WellFoundedInduction, TLAPS

USE SMTT(30)
-----------------------------------------------------------------------------
(* The least and the greatest element of a set of naturals exist. *)

(* A non-empty set of naturals contains its minimum. *)
LEMMA MinIsLeast ==
  ASSUME NEW S, S \subseteq Nat, S # {}
  PROVE  Min(S) \in S /\ \A y \in S : Min(S) <= y
<1> DEFINE Less == {ss \in Nat \X Nat : ss[1] < ss[2]}
<1>1. IsWellFoundedOn(Less, Nat)
  BY NatLessThanWellFounded, Zenon DEF OpToRel
<1>2. \E x \in S : \A y \in S : ~(<<y, x>> \in Less)
  <2> HIDE DEF Less
  <2> QED BY <1>1, WFMin, Zenon
<1>3. PICK x \in S : \A y \in S : ~(<<y, x>> \in Less)
  BY <1>2, Zenon
<1>4. ASSUME NEW y \in S PROVE x <= y
  <2>1. x \in Nat /\ y \in Nat
    BY Zenon
  <2>2. y < x => <<y, x>> \in Less
    BY <2>1, Zenon
  <2> QED
    BY <1>3, <2>1, <2>2
<1> QED
  BY <1>4, Zenon DEF Min

(* A non-empty bounded set of naturals contains its maximum. *)
LEMMA MaxIsGreatest ==
  ASSUME NEW n \in Nat, NEW S, S \subseteq 0..n, S # {}
  PROVE  Max(S) \in S /\ \A y \in S : y <= Max(S)
<1> DEFINE T == {n - s : s \in S}
<1>1. T \subseteq Nat /\ T # {}
  <2>1. \A s \in S : n - s \in Nat
    OBVIOUS
  <2>2. PICK s \in S : TRUE
    BY Zenon
  <2>3. n - s \in T
    BY Zenon
  <2> QED
    BY <2>1, <2>3, Zenon
<1>2. Min(T) \in T /\ \A y \in T : Min(T) <= y
  <2> HIDE DEF T
  <2> QED BY <1>1, MinIsLeast, Zenon
<1>3. PICK m \in S : Min(T) = n - m
  BY <1>2, Zenon
<1>4. ASSUME NEW y \in S PROVE y <= m
  <2>1. n - y \in T
    BY Zenon
  <2>2. n - m <= n - y
    BY <1>2, <1>3, <2>1, Zenon
  <2> QED
    BY <2>2
<1> QED
  BY <1>4, Zenon DEF Max
-----------------------------------------------------------------------------
(* The WAL and the metadata copies. *)

(* Every entry of idx names a frame of w, not past frame n, that holds an   *)
(* image of that page.                                                      *)
Names(w, n, idx) ==
  \A p \in Pages \cup {Meta} :
    idx[p] # 0 => /\ idx[p] <= n
                  /\ w[idx[p]].kind = IF p = Meta THEN "meta" ELSE "page"
                  /\ w[idx[p]].page = p

(* A frame of each kind carries what that kind stands for. *)
LEMMA FrameFields ==
  ASSUME NEW fr \in Frame
  PROVE  /\ fr.tx \in Nat /\ fr.n \in Nat
         /\ fr.kind = "page" => fr.page \in Pages /\ fr.val \in Vals \cup {Torn}
         /\ fr.kind = "meta" => fr.page = Meta /\ fr.val \in Image
         /\ fr.kind \in {"page", "meta", "commit", "torn"}
BY DEF Frame, TornFrame

(* The greatest element of a set of frame numbers, 0 when it is empty. *)
LEMMA MaxOr0Of ==
  ASSUME NEW n \in Nat, NEW S, S \subseteq 1..n
  PROVE  /\ MaxOr0(S) \in 0..n
         /\ MaxOr0(S) = 0 <=> S = {}
         /\ MaxOr0(S) # 0 => MaxOr0(S) \in S
         /\ \A i \in S : i <= MaxOr0(S)
<1>1. CASE S = {}
  BY <1>1 DEF MaxOr0
<1>2. CASE S # {}
  <2>1. S \subseteq 0..n
    OBVIOUS
  <2>2. Max(S) \in S /\ \A y \in S : y <= Max(S)
    BY <1>2, <2>1, MaxIsGreatest, Zenon
  <2>3. MaxOr0(S) = Max(S)
    BY <1>2, Zenon DEF MaxOr0
  <2>4. Max(S) \in 1..n
    BY <2>2, Zenon
  <2> QED
    BY <1>2, <2>2, <2>3, <2>4
<1> QED
  BY <1>1, <1>2, Zenon

(* A frame written at the end of the tail keeps the frames before it. *)
LEMMA WriteFrameKeeps ==
  ASSUME NEW w \in Seq(Frame), NEW i \in Nat, i <= Len(w), NEW fr \in Frame
  PROVE  /\ WriteFrame(w, i + 1, fr) \in Seq(Frame)
         /\ Len(WriteFrame(w, i + 1, fr)) >= i + 1
         /\ WriteFrame(w, i + 1, fr)[i + 1] = fr
         /\ \A j \in 1..i : WriteFrame(w, i + 1, fr)[j] = w[j]
<1>1. CASE i + 1 > Len(w)
  <2>1. i = Len(w)
    BY <1>1
  <2>2. WriteFrame(w, i + 1, fr) = Append(w, fr)
    BY <1>1, Zenon DEF WriteFrame
  <2> QED
    BY <2>1, <2>2
<1>2. CASE ~(i + 1 > Len(w))
  <2>1. i + 1 \in 1..Len(w)
    BY <1>2
  <2>2. WriteFrame(w, i + 1, fr) = [w EXCEPT ![i + 1] = fr]
    BY <1>2, Zenon DEF WriteFrame
  <2> QED
    BY <2>1, <2>2
<1> QED
  BY <1>1, <1>2, Zenon

(* The index of a prefix of the WAL names frames of that prefix, and names  *)
(* one for every page that has an image there.                              *)
LEMMA IndexOfNames ==
  ASSUME NEW w \in Seq(Frame), NEW n \in Nat, n <= Len(w)
  PROVE  /\ IndexOf(w, n) \in Index
         /\ Names(w, n, IndexOf(w, n))
         /\ (\E i \in 1..n : w[i].kind = "meta") => IndexOf(w, n)[Meta] # 0
<1> DEFINE At(p) == {i \in 1..n : w[i].kind \in {"page", "meta"} /\ w[i].page = p}
<1>1. \A i \in 1..n : w[i] \in Frame
  OBVIOUS
<1>2. ASSUME NEW p \in Pages \cup {Meta}
      PROVE  /\ MaxOr0(At(p)) \in 0..n
             /\ MaxOr0(At(p)) = 0 <=> At(p) = {}
             /\ MaxOr0(At(p)) # 0 => MaxOr0(At(p)) \in At(p)
  <2>1. At(p) \subseteq 1..n
    BY Zenon
  <2> HIDE DEF At
  <2> QED BY <2>1, MaxOr0Of, Zenon
<1>3. \A p \in Pages \cup {Meta} : IndexOf(w, n)[p] = MaxOr0(At(p))
  BY Zenon DEF IndexOf
<1>4. IndexOf(w, n) \in Index
  <2>1. IndexOf(w, n) = [p \in Pages \cup {Meta} |-> MaxOr0(At(p))]
    BY Zenon DEF IndexOf
  <2> HIDE DEF At
  <2> QED BY <1>2, <2>1 DEF Index
<1>5. Names(w, n, IndexOf(w, n))
  <2> DEFINE x == IndexOf(w, n)
  <2>1. ASSUME NEW p \in Pages \cup {Meta}, x[p] # 0
        PROVE  /\ x[p] <= n
               /\ w[x[p]].kind = IF p = Meta THEN "meta" ELSE "page"
               /\ w[x[p]].page = p
    <3>1. MaxOr0(At(p)) \in At(p) /\ x[p] = MaxOr0(At(p))
      BY <1>2, <1>3, <2>1, Zenon
    <3>2. x[p] \in 1..n /\ w[x[p]].kind \in {"page", "meta"} /\ w[x[p]].page = p
      BY <3>1, Zenon
    <3> HIDE DEF At, x
    <3>3. w[x[p]].kind = IF p = Meta THEN "meta" ELSE "page"
      BY <1>1, <3>2, FrameFields, FormatAssumption
    <3> QED BY <3>2, <3>3
  <2> QED
    BY <2>1, Zenon DEF Names
<1>6. ASSUME NEW i \in 1..n, w[i].kind = "meta" PROVE IndexOf(w, n)[Meta] # 0
  <2>1. w[i].page = Meta
    BY <1>1, <1>6, FrameFields, Zenon
  <2>2. i \in At(Meta)
    BY <1>6, <2>1, Zenon
  <2> HIDE DEF At
  <2> QED BY <1>2, <1>3, <2>2, Zenon
<1> QED
  BY <1>4, <1>5, <1>6, Zenon

(* The newest of the intact metadata copies is a header. *)
LEMMA DiskHeaderIsHeader ==
  ASSUME NEW m \in [Copies -> Header \cup {Torn}], NEW c \in Copies, m[c] # Torn
  PROVE  DiskHeader(m) \in Header
<1>1. ValidHeaders(m) \subseteq Header
  BY Zenon DEF ValidHeaders
<1>2. ValidHeaders(m) = {m[0], m[1]} \ {Torn}
  BY Zenon DEF ValidHeaders, Copies
<1>3. \A h \in Header : h.tx \in Nat
  BY Zenon DEF Header
<1>4. \E h \in ValidHeaders(m) : \A g \in ValidHeaders(m) : g.tx <= h.tx
  <2>1. CASE m[0] = Torn \/ m[1] = Torn
    <3>1. m[c] \in ValidHeaders(m)
      BY Zenon DEF ValidHeaders
    <3>2. ValidHeaders(m) = {m[c]}
      BY <2>1, <1>2, <3>1, Zenon
    <3> QED BY <1>1, <1>3, <3>1, <3>2
  <2>2. CASE m[0] # Torn /\ m[1] # Torn
    <3>1. m[0] \in ValidHeaders(m) /\ m[1] \in ValidHeaders(m)
      BY <2>2, <1>2, Zenon
    <3>2. m[0].tx \in Nat /\ m[1].tx \in Nat
      BY <1>1, <1>3, <3>1, Zenon
    <3>3. m[0].tx <= m[1].tx \/ m[1].tx <= m[0].tx
      BY <3>2
    <3> QED BY <1>2, <3>1, <3>2, <3>3
  <2> QED BY <2>1, <2>2, Zenon
<1> QED
  BY <1>1, <1>4, Zenon DEF DiskHeader

(* The intact prefix is a prefix. *)
LEMMA IntactBound ==
  ASSUME NEW w \in Seq(Frame)
  PROVE  Intact(w) \in 0..Len(w)
<1> DEFINE S == {n \in 1..Len(w) : \A i \in 1..n : w[i].kind # "torn"}
<1>1. S \subseteq 1..Len(w) /\ Len(w) \in Nat
  OBVIOUS
<1>2. Intact(w) = MaxOr0(S)
  BY Zenon DEF Intact
<1> HIDE DEF S
<1> QED
  BY <1>1, <1>2, MaxOr0Of, Zenon

(* A scan that is not refused yields a header, the end of a commit inside   *)
(* the scanned prefix, and an index of the frames up to it, the metadata    *)
(* image among them when there is a commit at all.                          *)
LEMMA ScanYields ==
  ASSUME NEW f \in Files, NEW n \in Nat, n <= Len(f.wal), InspectOK(f, f.wal, n)
  PROVE  LET s == Scan(f, f.wal, n)
         IN  /\ s.hdr \in Header /\ s.idx \in Index /\ s.last \in 0..n
             /\ Names(f.wal, s.last, s.idx)
             /\ s.last # 0 => s.idx[Meta] # 0
<1> DEFINE w    == f.wal
           last == MaxOr0(Commits(w, n))
           Metas == {j \in 1..(last - 1) : w[j].kind = "meta" /\ w[j].tx = w[last].tx}
           m    == MetaOf(w, last)
<1>1. w \in Seq(Frame) /\ f.meta \in [Copies -> Header \cup {Torn}]
  BY Zenon DEF Files
<1>2. \A i \in 1..n : w[i] \in Frame
  BY <1>1
<1>3. Commits(w, n) \subseteq 1..n
  BY Zenon DEF Commits
<1>4. last \in 0..n /\ (last # 0 => last \in Commits(w, n))
  BY <1>3, MaxOr0Of, Zenon
<1>5. DiskHeader(f.meta) \in Header
  <2>1. PICK c \in Copies : f.meta[c] # Torn
    BY Zenon DEF InspectOK, DiskOK, ValidHeaders
  <2> QED
    BY <1>1, <2>1, DiskHeaderIsHeader, Zenon
<1>6. last # 0 => m \in 1..n /\ m < last /\ w[m].kind = "meta"
  <2> SUFFICES ASSUME last # 0 PROVE m \in 1..n /\ m < last /\ w[m].kind = "meta"
    BY Zenon
  <2>1. last \in 1..n
    BY <1>4
  <2>2. MetaOf(w, last) # 0
    <3>1. FramesInOrder(w, n, DiskHeader(f.meta))
      BY <2>1 DEF InspectOK
    <3>2. last \in Commits(w, n)
      BY <1>4, Zenon
    <3> HIDE DEF last, w
    <3> QED BY <3>1, <3>2, Zenon DEF FramesInOrder
  <2>3. Metas \subseteq 1..(last - 1) /\ last - 1 \in Nat /\ MetaOf(w, last) = MaxOr0(Metas)
    BY <2>1 DEF MetaOf
  <2>4. MetaOf(w, last) \in Metas
    <3> HIDE DEF Metas, last, w
    <3> QED BY <2>2, <2>3, MaxOr0Of, Zenon
  <2>5. m \in 1..(last - 1) /\ w[m].kind = "meta"
    BY <2>4, Zenon
  <2> HIDE DEF m, w, last
  <2> QED BY <2>1, <2>5
<1>7. (IF last = 0 THEN DiskHeader(f.meta) ELSE HeaderAt(w, last)) \in Header
  <2>1. CASE last = 0
    BY <2>1, <1>5, Zenon
  <2>2. CASE last # 0
    <3>1. w[last].tx \in Nat
      BY <1>2, <1>4, <2>2, FrameFields
    <3>2. w[m].val \in Image
      BY <1>2, <1>6, <2>2, FrameFields, Zenon
    <3>3. HeaderAt(w, last) = [tx |-> w[last].tx, root |-> w[m].val]
      BY Zenon DEF HeaderAt
    <3> QED BY <2>2, <3>1, <3>2, <3>3 DEF Header
  <2> QED BY <2>1, <2>2, Zenon
<1>8. /\ IndexOf(w, last) \in Index /\ Names(w, last, IndexOf(w, last))
      /\ last # 0 => IndexOf(w, last)[Meta] # 0
  <2>1. last \in Nat /\ last <= Len(w)
    BY <1>1, <1>4
  <2>2. last # 0 => m \in 1..last
    BY <1>6, <2>1
  <2> HIDE DEF last, w, m
  <2> QED BY <1>1, <1>6, <2>1, <2>2, IndexOfNames, Zenon
<1>9. Scan(f, f.wal, n) =
        [hdr  |-> IF last = 0 THEN DiskHeader(f.meta) ELSE HeaderAt(w, last),
         idx  |-> IndexOf(w, last),
         last |-> last]
  BY Zenon DEF Scan
<1> HIDE DEF last, m
<1> QED
  BY <1>4, <1>7, <1>8, <1>9

-----------------------------------------------------------------------------
(* The admission gate and the reader slots. *)

(* The steps the writer takes with the gate in its hands. *)
GateSteps == FoldSteps \cup {"hint0", "hint1"} \cup OpenSteps

(* Who holds the gate and the slots at each step. *)
LockInv ==
  /\ slot \in [Readers -> Nat]
  /\ rpc \in [Readers -> ReaderPc]
  /\ wpc \in GateSteps => gateX = "writer"
  /\ opening => gateX = "opener"
  /\ wpc \in FoldSteps => \A r \in Readers : slot[r] = 0
  /\ \A r \in Readers : rpc[r] \in {"hint", "bounded", "open"} => slot[r] # 0

(* The lowest free slot is a free slot, and no slot is numbered 0. *)
LEMMA LowestSlot ==
  ASSUME FreeSlots # {}
  PROVE  Min(FreeSlots) \in Nat \ {0}
<1>1. FreeSlots \subseteq Nat \ {0}
  BY PageWalAssumption DEF FreeSlots
<1> QED
  BY <1>1, MinIsLeast, Zenon

(* A reader that is gone holds nothing; the others are as they were. *)
LEMMA VanishKeepsLocks ==
  ASSUME LockInv, NEW G, Vanish(G),
         wpc' \in GateSteps => wpc \in GateSteps /\ gateX' = gateX,
         wpc' \in FoldSteps => wpc \in FoldSteps,
         opening' => opening /\ gateX' = gateX
  PROVE  LockInv'
BY Zenon DEF LockInv, Vanish, ReaderPc, GateSteps, FoldSteps, OpenSteps

(* A step of the writer that takes no lock. *)
LEMMA WriterKeepsLocks ==
  ASSUME LockInv, UNCHANGED <<slot, rpc>>,
         wpc' \in GateSteps => wpc \in GateSteps /\ gateX' = gateX,
         wpc' \in FoldSteps => wpc \in FoldSteps,
         opening' => opening /\ gateX' = gateX
  PROVE  LockInv'
BY Zenon DEF LockInv, GateSteps, FoldSteps, OpenSteps
(* A reader that is admitted takes its slot while nobody folds. *)
LEMMA AdmissionKeepsLocks ==
  ASSUME LockInv, NEW r \in Readers, NEW to \in ReaderPc,
         gateX = "free", FreeSlots # {}, TakeSlot(r), Step(r, to),
         UNCHANGED <<wpc, gateX, opening>>
  PROVE  LockInv'
<1>1. wpc \notin FoldSteps
  BY Zenon DEF LockInv, GateSteps
<1>2. Min(FreeSlots) \in Nat \ {0}
  BY LowestSlot, Zenon
<1> QED
  BY <1>1, <1>2, Zenon DEF LockInv, TakeSlot, Step

(* LockInv is inductive: one step per action. *)
LEMMA LockStep ==
  ASSUME LockInv, [Next]_vars
  PROVE  LockInv'
<1> USE DEF LockInv, locks, others, files, writer, readers, GateSteps, FoldSteps, OpenSteps
<1>1. CASE WriterStep
  <2>1. ASSUME NEW p \in Pages \cup {Meta}, Flush(p) PROVE LockInv'
    BY <2>1, WriterKeepsLocks, Zenon DEF Flush, LogDirty
  <2>2. CASE AppendCommit
    BY <2>2, WriterKeepsLocks, Zenon DEF AppendCommit
  <2>3. CASE CommitSync
    BY <2>3, WriterKeepsLocks, Zenon DEF CommitSync
  <2>4. CASE Publish0
    BY <2>4, WriterKeepsLocks, Zenon DEF Publish0
  <2>5. CASE Publish1
    BY <2>5, WriterKeepsLocks, Zenon DEF Publish1
  <2>6. CASE CommitFold
    BY <2>6, Zenon DEF CommitFold, BeginFold, ExcludeReaders, GateFree, Poison
  <2>7. CASE CommitDone
    BY <2>7, WriterKeepsLocks, Zenon DEF CommitDone
  <2>8. ASSUME NEW p \in Pages, CopyPage(p) PROVE LockInv'
    BY <2>8, WriterKeepsLocks, Zenon DEF CopyPage
  <2>9. CASE CopySync
    BY <2>9, WriterKeepsLocks, Zenon DEF CopySync
  <2>10. CASE Verify
    BY <2>10, WriterKeepsLocks, Zenon DEF Verify, Poison
  <2>11. CASE WriteMeta0 \/ WriteMeta1
    BY <2>11, WriterKeepsLocks DEF WriteMeta0, WriteMeta1, WriteMeta
  <2>12. CASE MetaSync
    BY <2>12, WriterKeepsLocks, Zenon DEF MetaSync
  <2>13. CASE Truncate
    BY <2>13, WriterKeepsLocks, Zenon DEF Truncate
  <2>14. CASE Hint0 \/ Hint1
    BY <2>14, WriterKeepsLocks DEF Hint0, Hint1
  <2>15. CASE OpenTruncate \/ OpenSync
    BY <2>15, WriterKeepsLocks DEF OpenTruncate, OpenSync
  <2>16. CASE AppendRefused
    BY <2>16, WriterKeepsLocks, Zenon DEF AppendRefused, Poison
  <2> QED
    BY Zenon, <1>1, <2>1, <2>2, <2>3, <2>4, <2>5, <2>6, <2>7, <2>8, <2>9, <2>10, <2>11, <2>12,
       <2>13, <2>14, <2>15, <2>16 DEF WriterStep
<1>2. CASE WriterCall
  <2>1. ASSUME NEW p \in Pages, NEW v \in Vals, Mutate(p, v) PROVE LockInv'
    BY <2>1, WriterKeepsLocks, Zenon DEF Mutate
  <2>2. ASSUME NEW p \in Pages, Evict(p) PROVE LockInv'
    BY <2>2, WriterKeepsLocks, Zenon DEF Evict, LogDirty
  <2>3. CASE CommitBegin
    BY <2>3, WriterKeepsLocks, Zenon DEF CommitBegin
  <2>4. CASE Checkpoint
    BY <2>4, Zenon DEF Checkpoint, BeginFold, ExcludeReaders, GateFree, Poison
  <2>5. CASE Close
    BY <2>5, WriterKeepsLocks, Zenon DEF Close, Leave, DropGate
  <2>6. CASE RollbackBegin
    BY <2>6, WriterKeepsLocks, Zenon DEF RollbackBegin
  <2>7. CASE RollbackGate
    BY <2>7, WriterKeepsLocks, Zenon DEF RollbackGate, GateFree
  <2> QED
    BY <1>2, <2>1, <2>2, <2>3, <2>4, <2>5, <2>6, <2>7, Zenon DEF WriterCall
<1>3. CASE Failure
  <2>1. CASE IoError
    BY <2>1, WriterKeepsLocks, Zenon DEF IoError, Leave, DropGate, Poison
  <2>2. CASE Publish1Fail
    BY <2>2, WriterKeepsLocks, Zenon DEF Publish1Fail, Poison
  <2>3. CASE Crash
    BY <2>3, VanishKeepsLocks, Zenon DEF Crash, Leave, DropGate
  <2>4. CASE PowerLoss
    BY <2>4, VanishKeepsLocks, Zenon DEF PowerLoss, Leave
  <2> QED
    BY <1>3, <2>1, <2>2, <2>3, <2>4, Zenon DEF Failure
<1>4. CASE OpenGate
  BY <1>4, Zenon DEF OpenGate, GateFree
<1>5. CASE OpenClaim
  BY <1>5, Zenon DEF OpenClaim
<1>6. ASSUME NEW r \in Readers, ReaderStart(r) PROVE LockInv'
  BY <1>6, Zenon DEF ReaderStart, Step, ReaderPc
<1>7. ASSUME NEW r \in Readers, GiveUp(r) \/ ReaderLeave(r) PROVE LockInv'
  BY <1>7, VanishKeepsLocks DEF GiveUp, ReaderLeave
<1>8. ASSUME NEW r \in Readers, Admission(r) PROVE LockInv'
  <2>1. CASE QuiescentScan(r)
    BY <2>1, <1>7, Zenon DEF QuiescentScan, Step, ReaderPc
  <2>2. CASE QuiescentSlot(r)
    BY <2>2, <1>7, AdmissionKeepsLocks, Zenon DEF QuiescentSlot, ReaderPc
  <2>3. CASE LiveGate(r)
    BY <2>3, <1>7, AdmissionKeepsLocks, Zenon DEF LiveGate, ReaderPc
  <2>4. CASE LiveHint(r)
    BY <2>4, <1>7, Zenon DEF LiveHint, Step, ReaderPc
  <2>5. CASE LiveScan(r)
    BY <2>5, <1>7, Zenon DEF LiveScan, Step, ReaderPc
  <2> QED
    BY <1>8, <2>1, <2>2, <2>3, <2>4, <2>5, Zenon DEF Admission
<1>9. ASSUME NEW r \in Readers, Snapshot(r) PROVE LockInv'
  BY <1>9, AdmissionKeepsLocks, Zenon DEF Snapshot, ReaderPc
<1>10. CASE UNCHANGED vars
  BY <1>10, Zenon DEF vars
<1> QED
  BY <1>1, <1>2, <1>3, <1>4, <1>5, <1>6, <1>7, <1>8, <1>9, <1>10, Zenon DEF Next

(* From the first page a checkpoint overwrites to the reset of the WAL no   *)
(* reader is served from the files or being admitted to them, for any       *)
(* number of readers and slots (exclude_readers, take_slot).                *)
THEOREM FoldIsAlone == Spec => []FoldAlone
<1>1. Init => LockInv
  BY DEF Init, LockInv, ReaderPc, GateSteps, FoldSteps, OpenSteps
<1>2. LockInv /\ [Next]_vars => LockInv'
  BY LockStep, Zenon
<1>3. LockInv => FoldAlone
  BY Zenon DEF LockInv, FoldAlone
<1> QED
  BY <1>1, <1>2, <1>3, PTL DEF Spec

-----------------------------------------------------------------------------
(* One inductive invariant for types, copies and index. *)

(* TypeOK in three parts: locks and program counters, files and handle,     *)
(* readers.                                                                 *)
ControlOK ==
  /\ gateX \in {"free", "opener", "writer"} /\ gateS \subseteq Readers
  /\ own \subseteq Readers \cup {Writer} /\ ownS \subseteq Readers
  /\ slot \in [Readers -> 0..Slots] /\ opening \in BOOLEAN
  /\ wpc \in WriterPc /\ call \in {"none", "commit", "checkpoint", "open", "rollback"}
  /\ todo \subseteq Pages /\ first \in Copies
  /\ rpc \in [Readers -> ReaderPc]

StoreOK ==
  /\ file \in Files /\ disk \in Files
  /\ hint \in [Copies -> Hint] /\ hintD \in [Copies -> Hint]
  /\ st \in States /\ pool \in Pools /\ acked \in Header

ReadersOK ==
  view \in [Readers -> Views] /\ rhint \in [Readers -> Hint] /\ since \in [Readers -> Nat]

(* The tail of the WAL as the handle knows it.  A committed tail holds a    *)
(* metadata image, and so does a tail that is being committed or folded.    *)
TailInv ==
  /\ st.last <= st.end /\ st.end <= Len(file.wal)
  /\ Names(file.wal, st.end, st.latest) /\ Names(file.wal, st.end, st.committed)
  /\ wpc \in {"otrunc", "rgate"} => st.end = st.last
  /\ st.last # 0 => st.latest[Meta] # 0
  /\ wpc = "flush" => Meta \in pool.dp \/ st.latest[Meta] # 0
  /\ wpc \in {"sync", "pub0", "pub1"} \cup FoldSteps => st.latest[Meta] # 0
  /\ wpc = "copy" => \A p \in todo : st.latest[p] # 0

(* Which metadata copy is whole and durable at each step of a fold. *)
Durable(c) == file.meta[c] # Torn /\ file.meta[c] = disk.meta[c]

CopyInv ==
  /\ \E c \in Copies : Durable(c)
  /\ wpc = "verify" => file.meta = disk.meta
  /\ wpc \in {"meta0", "msync"} => Durable(1 - first)
  /\ wpc = "msync" => file.meta[first] # Torn
  /\ wpc = "meta1" => Durable(first)

StoreInv == ControlOK /\ StoreOK /\ ReadersOK /\ TailInv /\ CopyInv

(* The lowest free slot is one of the slots. *)
LEMMA FreeSlotBound ==
  ASSUME FreeSlots # {}
  PROVE  Min(FreeSlots) \in 0..Slots
<1>1. FreeSlots \subseteq 1..Slots /\ Slots \in Nat
  BY PageWalAssumption, Zenon DEF FreeSlots
<1>2. FreeSlots \subseteq Nat
  BY <1>1
<1>3. Min(FreeSlots) \in FreeSlots
  BY <1>2, MinIsLeast, Zenon
<1>4. Min(FreeSlots) \in 1..Slots
  BY <1>1, <1>3, Zenon
<1> QED
  BY <1>1, <1>4

(* Locks and program counters keep their types: one step per action. *)
LEMMA ControlStep ==
  ASSUME ControlOK, [Next]_vars
  PROVE  ControlOK'
<1> USE DEF ControlOK, locks, others, files, writer, readers, WriterPc, FoldSteps, HintSteps,
            OpenSteps, WriteSteps
<1>1. CASE WriterStep
  <2>1. ASSUME NEW p \in Pages \cup {Meta}, Flush(p) PROVE ControlOK'
    BY <2>1, Zenon DEF Flush, LogDirty
  <2>2. CASE AppendCommit \/ CommitSync \/ Publish0 \/ Publish1
    BY <2>2, Zenon DEF AppendCommit, CommitSync, Publish0, Publish1
  <2>3. CASE CommitFold
    BY <2>3, Zenon DEF CommitFold, BeginFold, Poison
  <2>4. CASE CommitDone \/ AppendRefused
    BY <2>4, Zenon DEF CommitDone, AppendRefused, Poison
  <2>5. ASSUME NEW p \in Pages, CopyPage(p) PROVE ControlOK'
    BY <2>5, Zenon DEF CopyPage
  <2>6. CASE CopySync \/ MetaSync
    BY <2>6, Zenon DEF CopySync, MetaSync
  <2>7. CASE Verify
    BY <2>7, Zenon DEF Verify, Poison, FirstCopy, Copies
  <2>8. CASE WriteMeta0 \/ WriteMeta1 \/ Truncate
    BY <2>8, Zenon DEF WriteMeta0, WriteMeta1, WriteMeta, Truncate
  <2>9. CASE Hint0 \/ Hint1
    BY <2>9, Zenon DEF Hint0, Hint1
  <2>10. CASE OpenTruncate \/ OpenSync
    BY <2>10, Zenon DEF OpenTruncate, OpenSync
  <2> QED
    BY <1>1, <2>1, <2>2, <2>3, <2>4, <2>5, <2>6, <2>7, <2>8, <2>9, <2>10, Zenon DEF WriterStep
<1>2. CASE WriterCall
  <2>1. ASSUME NEW p \in Pages, NEW v \in Vals, Mutate(p, v) PROVE ControlOK'
    BY <2>1, Zenon DEF Mutate
  <2>2. ASSUME NEW p \in Pages, Evict(p) PROVE ControlOK'
    BY <2>2, Zenon DEF Evict, LogDirty
  <2>3. CASE CommitBegin \/ RollbackBegin \/ RollbackGate
    BY <2>3, Zenon DEF CommitBegin, RollbackBegin, RollbackGate
  <2>4. CASE Checkpoint
    BY <2>4, Zenon DEF Checkpoint, BeginFold, Poison
  <2>5. CASE Close
    BY <2>5, Zenon DEF Close, Leave, DropGate, Copies
  <2> QED
    BY <1>2, <2>1, <2>2, <2>3, <2>4, <2>5, Zenon DEF WriterCall
<1>3. ASSUME NEW G, Vanish(G)
      PROVE  /\ slot' \in [Readers -> 0..Slots] /\ rpc' \in [Readers -> ReaderPc]
             /\ gateS' \subseteq Readers /\ ownS' \subseteq Readers
  BY <1>3, PageWalAssumption DEF Vanish, ReaderPc
<1>4. CASE Failure
  <2>1. CASE IoError
    BY <2>1, Zenon DEF IoError, Leave, DropGate, Poison, Copies
  <2>2. CASE Publish1Fail
    BY <2>2, Zenon DEF Publish1Fail, Poison
  <2>3. CASE Crash
    BY <2>3, <1>3, Zenon DEF Crash, Leave, DropGate, Copies
  <2>4. CASE PowerLoss
    BY <2>4, <1>3, Zenon DEF PowerLoss, Leave, Copies
  <2> QED
    BY <1>4, <2>1, <2>2, <2>3, <2>4, Zenon DEF Failure
<1>5. CASE OpenGate \/ OpenClaim
  BY <1>5, Zenon DEF OpenGate, OpenClaim
<1>6. ASSUME NEW r \in Readers, ReaderStart(r) PROVE ControlOK'
  BY <1>6, Zenon DEF ReaderStart, Step, ReaderPc
<1>7. ASSUME NEW r \in Readers, GiveUp(r) \/ ReaderLeave(r) PROVE ControlOK'
  BY <1>7, <1>3 DEF GiveUp, ReaderLeave
<1>8. ASSUME NEW r \in Readers, Admission(r) PROVE ControlOK'
  <2>1. CASE QuiescentScan(r)
    BY <2>1, <1>7 DEF QuiescentScan, Step, ReaderPc
  <2>2. CASE QuiescentSlot(r)
    BY <2>2, <1>7, FreeSlotBound DEF QuiescentSlot, TakeSlot, Step, ReaderPc
  <2>3. CASE LiveGate(r)
    BY <2>3, <1>7, FreeSlotBound DEF LiveGate, TakeSlot, Step, ReaderPc
  <2>4. CASE LiveHint(r)
    BY <2>4, <1>7 DEF LiveHint, Step, ReaderPc
  <2>5. CASE LiveScan(r)
    BY <2>5, <1>7, ZenonT(30) DEF LiveScan, Step, ReaderPc
  <2> QED
    BY <1>8, <2>1, <2>2, <2>3, <2>4, <2>5, Zenon DEF Admission
<1>9. ASSUME NEW r \in Readers, Snapshot(r) PROVE ControlOK'
  BY <1>9, FreeSlotBound, Zenon DEF Snapshot, TakeSlot, Step, ReaderPc
<1>10. CASE UNCHANGED vars
  BY <1>10, Zenon DEF vars
<1> QED
  BY <1>1, <1>2, <1>4, <1>5, <1>6, <1>7, <1>8, <1>9, <1>10, Zenon DEF Next
(* The frames the index names hold what the fold and the views read. *)
LEMMA IndexedFrames ==
  ASSUME StoreOK, TailInv, NEW idx \in {st.latest, st.committed}
  PROVE  /\ \A p \in Pages : idx[p] # 0 => file.wal[idx[p]].val \in Vals \cup {Torn}
         /\ idx[Meta] # 0 => [tx |-> file.wal[idx[Meta]].tx,
                              root |-> file.wal[idx[Meta]].val] \in Header
         /\ ReadImage(file, idx) \in Image
<1>1. idx \in Index /\ Names(file.wal, st.end, idx) /\ st.end <= Len(file.wal) /\ st.end \in Nat
  BY Zenon DEF StoreOK, TailInv, States
<1>2. file.wal \in Seq(Frame) /\ file.data \in Image
  BY Zenon DEF StoreOK, Files
<1>3. ASSUME NEW p \in Pages \cup {Meta}, idx[p] # 0 PROVE file.wal[idx[p]] \in Frame
  <2>1. idx[p] \in Nat /\ idx[p] <= st.end
    BY <1>1, <1>3, Zenon DEF Index, Names
  <2>2. idx[p] \in 1..Len(file.wal)
    BY <1>1, <1>2, <1>3, <2>1
  <2> QED
    BY <1>2, <2>2
<1>4. ASSUME NEW p \in Pages, idx[p] # 0 PROVE file.wal[idx[p]].val \in Vals \cup {Torn}
  <2>1. file.wal[idx[p]].kind = "page"
    BY <1>1, <1>4, FormatAssumption, Zenon DEF Names
  <2> QED
    BY <1>3, <1>4, <2>1, FrameFields, Zenon
<1>5. ASSUME idx[Meta] # 0
      PROVE  [tx |-> file.wal[idx[Meta]].tx, root |-> file.wal[idx[Meta]].val] \in Header
  <2>1. file.wal[idx[Meta]].kind = "meta"
    BY <1>1, <1>5, Zenon DEF Names
  <2> QED
    BY <1>3, <1>5, <2>1, FrameFields, Zenon DEF Header
<1>6. ASSUME NEW p \in Pages PROVE ReadPage(file, idx, p) \in Vals \cup {Torn}
  BY <1>2, <1>4, Zenon DEF ReadPage, Image
<1> QED
  BY <1>4, <1>5, <1>6, Zenon DEF ReadImage, Image

(* What an inspection of the files returns, to an opener, a rollback or a   *)
(* quiescent reader.                                                        *)
LEMMA InspectYields ==
  ASSUME StoreOK, CanInspect(file)
  PROVE  /\ Inspect(file).hdr \in Header /\ Inspect(file).idx \in Index
         /\ Inspect(file).last \in 0..Len(file.wal)
         /\ Names(file.wal, Inspect(file).last, Inspect(file).idx)
         /\ Inspect(file).last # 0 => Inspect(file).idx[Meta] # 0
<1>1. file \in Files /\ file.wal \in Seq(Frame) /\ Len(file.wal) \in Nat
  BY DEF StoreOK, Files
<1>2. Intact(file.wal) \in 0..Len(file.wal)
  BY <1>1, IntactBound, Zenon
<1>3. InspectOK(file, file.wal, Intact(file.wal))
  BY Zenon DEF CanInspect
<1>4. Intact(file.wal) \in Nat /\ Intact(file.wal) <= Len(file.wal)
  BY <1>1, <1>2
<1>5. Inspect(file) = Scan(file, file.wal, Intact(file.wal))
  BY Zenon DEF Inspect
<1> DEFINE s == Scan(file, file.wal, Intact(file.wal))
<1>6. /\ s.hdr \in Header /\ s.idx \in Index /\ s.last \in 0..Intact(file.wal)
      /\ Names(file.wal, s.last, s.idx)
      /\ s.last # 0 => s.idx[Meta] # 0
  BY <1>1, <1>3, <1>4, ScanYields, Zenon
<1> HIDE DEF s
<1>7. s.last \in 0..Len(file.wal)
  BY <1>1, <1>2, <1>6
<1> QED
  BY <1>5, <1>6, <1>7, Zenon DEF s

(* The newest intact metadata copy is a header. *)
LEMMA HeaderOnDisk ==
  ASSUME StoreOK, CopyInv
  PROVE  DiskHeader(file.meta) \in Header
BY DiskHeaderIsHeader, Zenon DEF StoreOK, CopyInv, Durable, Files

(* The state an open or a rollback adopts. *)
LEMMA RecoveredState ==
  ASSUME StoreOK, CopyInv, CanInspect(file)
  PROVE  /\ Recovered \in States
         /\ Recovered.end = Recovered.last /\ Recovered.end <= Len(file.wal)
         /\ Names(file.wal, Recovered.end, Recovered.latest)
         /\ Names(file.wal, Recovered.end, Recovered.committed)
         /\ Recovered.last # 0 => Recovered.latest[Meta] # 0
<1>1. DiskHeader(file.meta).tx \in Nat
  BY HeaderOnDisk, Zenon DEF Header
<1>2. Inspect(file).hdr.tx + 1 \in Nat \ {0}
  BY InspectYields DEF Header
<1>3. Len(file.wal) \in Nat
  BY DEF StoreOK, Files
<1>4. Inspect(file).last \in Nat /\ Inspect(file).last <= Len(file.wal)
  BY <1>3, InspectYields
<1> QED
  BY <1>1, <1>2, <1>4, InspectYields, Zenon DEF Recovered, States

(* A reader pins a header and an index. *)
LEMMA ReadersStep ==
  ASSUME StoreInv, [Next]_vars
  PROVE  ReadersOK'
<1> USE DEF StoreInv, ReadersOK, locks, others, files, writer, readers
<1>1. Closed \in Views /\ NoHint \in Hint /\ acked.tx \in Nat
  <2>1. Image0 \in Image
    BY FormatAssumption, Zenon DEF Image0, Image
  <2>2. NoIndex \in Index
    BY Zenon DEF NoIndex, Index
  <2>3. WalCap + 1 \in Nat
    BY FormatAssumption
  <2> QED
    BY <2>1, <2>2, <2>3, Zenon DEF Closed, Views, Header0, Header, NoHint, Hint, StoreOK
<1>2. ASSUME NEW G, Vanish(G) PROVE ReadersOK'
  BY <1>1, <1>2, Zenon DEF Vanish
<1>3. CASE WriterStep
  <2>1. UNCHANGED readers
    BY <1>3, Zenon DEF WriterStep, Flush, LogDirty, AppendCommit, CommitSync, Publish0, Publish1,
                CommitFold, BeginFold, CommitDone, CopyPage, CopySync, Verify, WriteMeta0,
                WriteMeta1, WriteMeta, MetaSync, Truncate, Hint0, Hint1, OpenTruncate,
                OpenSync, AppendRefused
  <2> QED BY <2>1, Zenon
<1>4. CASE WriterCall
  <2>1. UNCHANGED readers
    BY <1>4, Zenon DEF WriterCall, Mutate, Evict, LogDirty, CommitBegin, Checkpoint, BeginFold,
                Close, RollbackBegin, RollbackGate
  <2> QED BY <2>1, Zenon
<1>5. CASE Failure
  BY <1>2, <1>5, Zenon DEF Failure, IoError, Publish1Fail, Crash, PowerLoss
<1>6. CASE OpenGate \/ OpenClaim
  BY <1>6, Zenon DEF OpenGate, OpenClaim
<1>7. ASSUME NEW r \in Readers, ReaderStart(r) PROVE ReadersOK'
  BY <1>1, <1>7, Zenon DEF ReaderStart
<1>8. ASSUME NEW r \in Readers, GiveUp(r) \/ ReaderLeave(r) PROVE ReadersOK'
  BY <1>2, <1>8, Zenon DEF GiveUp, ReaderLeave
<1>9. ASSUME NEW r \in Readers, QuiescentScan(r) PROVE ReadersOK'
  <2>1. CASE CanInspect(file)
    <3>1. /\ Inspect(file).hdr \in Header /\ Inspect(file).idx \in Index
          /\ Inspect(file).last \in 0..Len(file.wal)
      BY <2>1, InspectYields, Zenon
    <3>2. Inspect(file).last \in Nat
      BY <3>1
    <3>3. /\ view' = [view EXCEPT ![r] = [hdr |-> Inspect(file).hdr, idx |-> Inspect(file).idx,
                                          last |-> Inspect(file).last, via |-> "files"]]
          /\ UNCHANGED <<rhint, since>>
      BY <1>9, <2>1, Zenon DEF QuiescentScan
    <3> QED
      BY <3>1, <3>2, <3>3, Zenon DEF Views
  <2> QED
    BY <1>8, <1>9, <2>1, Zenon DEF QuiescentScan
<1>10. ASSUME NEW r \in Readers, QuiescentSlot(r) \/ LiveGate(r) PROVE ReadersOK'
  BY <1>8, <1>10, Zenon DEF QuiescentSlot, LiveGate
<1>11. ASSUME NEW r \in Readers, LiveHint(r) PROVE ReadersOK'
  <2>1. NewestHint(hint) \in Hint
    BY Zenon DEF NewestHint, StoreOK, Copies
  <2> QED
    BY <1>8, <1>11, <2>1, Zenon DEF LiveHint
<1>12. ASSUME NEW r \in Readers, LiveScan(r) PROVE ReadersOK'
  <2> DEFINE e == rhint[r].end
             s == InspectTo(file, e)
  <2>1. CASE GiveUp(r)
    BY <1>8, <2>1, Zenon
  <2>2. CASE ~GiveUp(r)
    <3>1. /\ CanInspectTo(file, e)
          /\ view' = [view EXCEPT ![r] = [hdr |-> s.hdr, idx |-> s.idx,
                                          last |-> s.last, via |-> "hint"]]
          /\ rhint' = [rhint EXCEPT ![r] = NoHint] /\ UNCHANGED since
      BY <1>12, <2>2, Zenon DEF LiveScan
    <3>2. file \in Files /\ file.wal \in Seq(Frame) /\ Len(file.wal) \in Nat /\ e \in Nat
      <4>1. file \in Files /\ e \in Nat
        BY Zenon DEF StoreOK, Hint
      <4> QED
        BY <4>1 DEF Files
    <3>3. e <= Len(file.wal) /\ InspectOK(file, file.wal, e)
      <4>1. Intact(file.wal) \in 0..Len(file.wal)
        BY <3>2, IntactBound, Zenon
      <4> HIDE DEF e
      <4> QED BY <3>1, <3>2, <4>1 DEF CanInspectTo
    <3>4. s.hdr \in Header /\ s.idx \in Index /\ s.last \in 0..e
      <4> HIDE DEF e
      <4> QED BY <3>2, <3>3, ScanYields, Zenon DEF InspectTo
    <3>5. s.last \in Nat
      <4> HIDE DEF e, s
      <4> QED BY <3>2, <3>4
    <3> HIDE DEF e, s
    <3> QED
      BY <1>1, <3>1, <3>4, <3>5, Zenon DEF Views
  <2> QED BY <2>1, <2>2, Zenon
<1>13. ASSUME NEW r \in Readers, Snapshot(r) PROVE ReadersOK'
  <2> DEFINE h == IF st.committed[Meta] = 0 THEN DiskHeader(file.meta)
                  ELSE [tx |-> file.wal[st.committed[Meta]].tx,
                        root |-> file.wal[st.committed[Meta]].val]
  <2>1. h \in Header
    BY HeaderOnDisk, IndexedFrames, Zenon
  <2>2. st.committed \in Index /\ st.last \in Nat
    BY Zenon DEF StoreOK, States
  <2>3. /\ view' = [view EXCEPT ![r] = [hdr |-> h, idx |-> st.committed, last |-> st.last,
                                        via |-> "handle"]]
        /\ since' = [since EXCEPT ![r] = acked.tx] /\ UNCHANGED rhint
    BY <1>13, Zenon DEF Snapshot
  <2> HIDE DEF h
  <2> QED
    BY <1>1, <2>1, <2>2, <2>3, Zenon DEF Views
<1>14. CASE UNCHANGED vars
  BY <1>14, Zenon DEF vars
<1> QED
  BY <1>3, <1>4, <1>5, <1>6, <1>7, <1>8, <1>9, <1>10, <1>11, <1>12, <1>13, <1>14, Zenon
     DEF Next, Admission
(* A file with one part replaced. *)
LEMMA FileParts ==
  ASSUME NEW f \in Files
  PROVE  /\ \A w \in Seq(Frame) :
              /\ [f EXCEPT !.wal = w] \in Files
              /\ [f EXCEPT !.wal = w].wal = w /\ [f EXCEPT !.wal = w].meta = f.meta
         /\ \A p \in Pages : \A v \in Vals \cup {Torn} :
              /\ [f EXCEPT !.data[p] = v] \in Files
              /\ [f EXCEPT !.data[p] = v].wal = f.wal /\ [f EXCEPT !.data[p] = v].meta = f.meta
         /\ \A c \in Copies : \A h \in Header \cup {Torn} :
              /\ [f EXCEPT !.meta[c] = h] \in Files
              /\ [f EXCEPT !.meta[c] = h].wal = f.wal
              /\ [f EXCEPT !.meta[c] = h].meta = [f.meta EXCEPT ![c] = h]
BY Zenon DEF Files, Image

(* A frame is appended: the index follows it and names nothing else anew. *)
LEMMA LogStep ==
  ASSUME StoreOK, TailInv, NEW fr \in Frame, fr.kind # "torn", Log(fr)
  PROVE  /\ file' \in Files /\ st' \in States /\ file'.meta = file.meta
         /\ st'.last = st.last /\ st'.last <= st'.end /\ st'.end <= Len(file'.wal)
         /\ Names(file'.wal, st'.end, st'.latest) /\ Names(file'.wal, st'.end, st'.committed)
         /\ st.latest[Meta] # 0 \/ fr.kind = "meta" => st'.latest[Meta] # 0
<1> DEFINE w == file.wal
           e == st.end
           w1 == WriteFrame(w, e + 1, fr)
<1>1. /\ w \in Seq(Frame) /\ file \in Files /\ Len(w) \in Nat
      /\ st \in States /\ e \in Nat /\ e <= Len(w) /\ st.last \in Nat /\ st.last <= e
      /\ Names(w, e, st.latest) /\ Names(w, e, st.committed)
      /\ st.latest \in Index /\ st.committed \in Index
  <2>1. /\ file \in Files /\ st \in States /\ st.last <= st.end /\ st.end <= Len(w)
        /\ Names(w, st.end, st.latest) /\ Names(w, st.end, st.committed)
    BY Zenon DEF StoreOK, TailInv
  <2>2. w \in Seq(Frame)
    BY <2>1, Zenon DEF Files
  <2>3. /\ st.end \in Nat /\ st.last \in Nat
        /\ st.latest \in Index /\ st.committed \in Index
    BY <2>1, Zenon DEF States
  <2>4. Len(w) \in Nat
    BY <2>2
  <2> QED
    BY <2>1, <2>2, <2>3, <2>4, Zenon
<1>2. /\ file' = [file EXCEPT !.wal = w1]
      /\ st' = [st EXCEPT !.end = e + 1,
                          !.latest = IF fr.kind = "commit" THEN st.latest
                                     ELSE [st.latest EXCEPT ![fr.page] = e + 1]]
  BY Zenon DEF Log
<1> HIDE DEF w, e
<1>3. /\ w1 \in Seq(Frame) /\ Len(w1) >= e + 1 /\ w1[e + 1] = fr
      /\ \A j \in 1..e : w1[j] = w[j]
  BY <1>1, WriteFrameKeeps, Zenon
<1>4. file' \in Files /\ file'.wal = w1 /\ file'.meta = file.meta /\ Len(w1) \in Nat
  <2>1. Len(w1) \in Nat
    BY <1>3
  <2> HIDE DEF w1
  <2> QED
    BY <1>1, <1>2, <1>3, <2>1, FileParts, Zenon
<1> HIDE DEF w1
<1>5. fr.kind # "commit" => fr.page \in Pages \cup {Meta}
  BY FrameFields, Zenon
<1>6. /\ st' \in States /\ st'.last = st.last /\ st'.end = e + 1
      /\ st'.committed = st.committed
      /\ fr.kind = "commit" => st'.latest = st.latest
      /\ fr.kind # "commit" => st'.latest = [st.latest EXCEPT ![fr.page] = e + 1]
  <2> DEFINE l == IF fr.kind = "commit" THEN st.latest
                  ELSE [st.latest EXCEPT ![fr.page] = e + 1]
  <2>1. l \in Index
    BY <1>1, <1>5 DEF Index
  <2>2. st' = [st EXCEPT !.end = e + 1, !.latest = l]
    BY <1>2, Zenon
  <2>3. st' \in States /\ st'.last = st.last /\ st'.end = e + 1
        /\ st'.committed = st.committed /\ st'.latest = l
    <3>1. st \in States /\ e + 1 \in Nat
      BY <1>1
    <3> HIDE DEF l
    <3> DEFINE s == [st EXCEPT !.end = e + 1, !.latest = l]
    <3>2. s \in States
      BY <2>1, <3>1, Zenon DEF States
    <3>3. s.last = st.last /\ s.end = e + 1 /\ s.committed = st.committed /\ s.latest = l
      BY <2>1, <3>1, Zenon DEF States
    <3>4. st' = s
      BY <2>2, Zenon
    <3> HIDE DEF s
    <3> QED BY <3>2, <3>3, <3>4, Zenon
  <2>4. fr.kind = "commit" => l = st.latest
    BY Zenon
  <2>5. fr.kind # "commit" => l = [st.latest EXCEPT ![fr.page] = e + 1]
    BY Zenon
  <2> HIDE DEF l
  <2> QED BY <2>3, <2>4, <2>5, Zenon
<1>7. ASSUME NEW idx \in Index, Names(w, e, idx) PROVE Names(w1, e + 1, idx)
  <2>1. ASSUME NEW p \in Pages \cup {Meta}, idx[p] # 0
        PROVE  /\ idx[p] <= e + 1
               /\ w1[idx[p]].kind = IF p = Meta THEN "meta" ELSE "page"
               /\ w1[idx[p]].page = p
    <3>1. idx[p] \in 1..e
      BY <1>1, <1>7, <2>1 DEF Names, Index
    <3>2. w[idx[p]].kind = (IF p = Meta THEN "meta" ELSE "page") /\ w[idx[p]].page = p
      BY <1>7, <2>1, Zenon DEF Names
    <3>3. w1[idx[p]] = w[idx[p]]
      BY <1>3, <3>1, Zenon
    <3>4. idx[p] <= e + 1
      BY <1>1, <3>1
    <3> QED BY <3>2, <3>3, <3>4, Zenon
  <2> QED BY <2>1, Zenon DEF Names
<1>8. Names(w1, e + 1, st'.latest)
  <2>1. CASE fr.kind = "commit"
    BY <1>1, <1>6, <1>7, <2>1, Zenon
  <2>2. CASE fr.kind # "commit"
    <3>1. /\ fr.page \in Pages \cup {Meta}
          /\ fr.kind = IF fr.page = Meta THEN "meta" ELSE "page"
      BY <2>2, FrameFields, FormatAssumption, Zenon
    <3>2. Names(w1, e + 1, st.latest)
      BY <1>1, <1>7, Zenon
    <3>3. ASSUME NEW p \in Pages \cup {Meta}, st'.latest[p] # 0
          PROVE  /\ st'.latest[p] <= e + 1
                 /\ w1[st'.latest[p]].kind = IF p = Meta THEN "meta" ELSE "page"
                 /\ w1[st'.latest[p]].page = p
      <4>1. CASE p = fr.page
        <5>1. st'.latest[p] = e + 1
          BY <1>1, <1>6, <2>2, <4>1, Zenon DEF Index
        <5> QED BY <1>1, <1>3, <3>1, <4>1, <5>1
      <4>2. CASE p # fr.page
        <5>1. st'.latest[p] = st.latest[p]
          BY <1>1, <1>6, <2>2, <4>2, Zenon DEF Index
        <5> QED BY <3>2, <3>3, <5>1, Zenon DEF Names
      <4> QED BY <4>1, <4>2, Zenon
    <3> QED BY <3>3, Zenon DEF Names
  <2> QED BY <2>1, <2>2, Zenon
<1>9. st.latest[Meta] # 0 \/ fr.kind = "meta" => st'.latest[Meta] # 0
  BY <1>1, <1>6, FrameFields DEF Index
<1>10. st'.last <= st'.end /\ st'.end <= Len(file'.wal)
  BY <1>1, <1>3, <1>4, <1>6
<1>11. Names(file'.wal, st'.end, st'.latest)
  BY <1>4, <1>6, <1>8, Zenon
<1>12. Names(file'.wal, st'.end, st'.committed)
  BY <1>1, <1>4, <1>6, <1>7, Zenon
<1> QED
  BY <1>4, <1>6, <1>9, <1>10, <1>11, <1>12, Zenon

(* The frame the pool writes for one of its dirty pages. *)
LEMMA PoolFrameIsFrame ==
  ASSUME StoreOK, NEW p \in Pages \cup {Meta}
  PROVE  /\ PoolFrame(p) \in Frame /\ PoolFrame(p).kind \in {"page", "meta"}
         /\ p = Meta => PoolFrame(p).kind = "meta"
BY FormatAssumption, Zenon
   DEF StoreOK, PoolFrame, PageFrame, MetaFrame, Frame, Pools, States, Image

(* Nothing of the WAL and of the handle's tail changed. *)
LEMMA TailKept ==
  ASSUME TailInv, file'.wal = file.wal,
         st'.latest = st.latest, st'.committed \in {st.latest, st.committed},
         st'.end = st.end, st'.last \in {st.last, st.end},
         st'.last # st.last => st.latest[Meta] # 0,
         wpc' \in {"otrunc", "rgate"} => wpc \in {"otrunc", "rgate"} /\ st'.last = st.last,
         wpc' = "flush" => Meta \in pool'.dp \/ st.latest[Meta] # 0,
         wpc' \in {"sync", "pub0", "pub1"} \cup FoldSteps => st.latest[Meta] # 0,
         wpc' = "copy" => \A p \in todo' : st.latest[p] # 0,
         StoreOK
  PROVE  TailInv'
BY DEF TailInv, FoldSteps, StoreOK, States

(* No step of the two metadata copies. *)
LEMMA CopiesKept ==
  ASSUME CopyInv, file'.meta = file.meta, disk'.meta = disk.meta,
         wpc' \in {"verify", "meta0", "msync", "meta1"} => wpc' = wpc /\ first' = first
  PROVE  CopyInv'
BY Zenon DEF CopyInv, Durable

(* The handle is gone and its tail with it. *)
LEMMA LeaveKeeps ==
  ASSUME Leave, file' \in Files
  PROVE  st' \in States /\ pool' \in Pools /\ TailInv'
<1>1. Image0 \in Image
  BY FormatAssumption, Zenon DEF Image0, Image
<1>2. NoIndex \in Index /\ \A p \in Pages \cup {Meta} : NoIndex[p] = 0
  BY Zenon DEF NoIndex, Index
<1>3. st' \in States /\ pool' \in Pools
  BY <1>1, <1>2 DEF Leave, NoState, States, ClosedPool, LoadedPool, Pools
<1>4. Len(file'.wal) \in Nat
  BY DEF Files
<1>5. /\ st'.latest = NoIndex /\ st'.committed = NoIndex /\ st'.end = 0 /\ st'.last = 0
      /\ wpc' = "closed"
  BY Zenon DEF Leave, NoState
<1>6. Names(file'.wal, 0, NoIndex)
  BY <1>2, Zenon DEF Names
<1>7. /\ wpc' \notin {"otrunc", "rgate"} /\ wpc' # "flush"
      /\ wpc' \notin {"sync", "pub0", "pub1"} \cup FoldSteps /\ wpc' # "copy"
  BY <1>5, Zenon DEF FoldSteps
<1>8. st'.last <= st'.end /\ st'.end <= Len(file'.wal)
  BY <1>4, <1>5
<1>9. Names(file'.wal, st'.end, st'.latest) /\ Names(file'.wal, st'.end, st'.committed)
  BY <1>5, <1>6, Zenon
<1> QED
  BY <1>3, <1>5, <1>7, <1>8, <1>9, Zenon DEF TailInv
Core == StoreOK /\ TailInv /\ CopyInv

(* The hints the writer publishes, and the damaged one. *)
LEMMA HintsAreHints ==
  ASSUME StoreOK
  PROVE  /\ HintNow \in Hint /\ HintNext \in Hint /\ NoHint \in Hint
         /\ hint[0] \in Hint /\ hint[1] \in Hint
         /\ \A h \in Hint : \A c \in Copies : [hint EXCEPT ![c] = h] \in [Copies -> Hint]
<1>1. st.tx - 1 \in Nat /\ st.tx \in Nat /\ st.floor \in Nat /\ st.end \in Nat /\ st.last \in Nat
  BY DEF StoreOK, States
<1>2. HintNow \in Hint /\ HintNext \in Hint
  BY <1>1, Zenon DEF HintNow, HintNext, Hint
<1>3. NoHint \in Hint
  BY FormatAssumption DEF NoHint, Hint
<1> QED
  BY <1>2, <1>3, Zenon DEF StoreOK, Copies

(* The header of an acknowledged commit. *)
LEMMA AcknowledgedHeader ==
  ASSUME StoreOK, Acknowledge
  PROVE  acked' \in Header
<1>1. st.tx - 1 \in Nat
  BY DEF StoreOK, States
<1>2. pool.work \in Image
  BY Zenon DEF StoreOK, Pools
<1> QED
  BY <1>1, <1>2, Zenon DEF Acknowledge, Header

(* The handle's state after a publication. *)
LEMMA PublishedState ==
  ASSUME StoreOK
  PROVE  /\ Published \in States /\ Published.latest = st.latest
         /\ Published.committed = st.latest /\ Published.end = st.end
         /\ Published.last = st.end
<1>1. st \in States /\ st.tx + 1 \in Nat \ {0} /\ st.latest \in Index /\ st.end \in Nat
  BY DEF StoreOK, States
<1>2. Published \in States
  BY <1>1, Zenon DEF Published, States
<1>3. Published.latest = st.latest /\ Published.committed = st.latest
  BY <1>1, Zenon DEF Published, States
<1>4. Published.end = st.end /\ Published.last = st.end
  BY <1>1, Zenon DEF Published, States
<1> QED
  BY <1>2, <1>3, <1>4, Zenon

(* Appending a dirty page, as an eviction or under a commit. *)
LEMMA LogDirtyStep ==
  ASSUME StoreInv, NEW p \in Pages \cup {Meta}, LogDirty(p), wpc \in {"idle", "flush"}
  PROVE  Core'
<1> USE DEF StoreInv, locks, others, writer, readers
<1>1. PoolFrame(p) \in Frame /\ PoolFrame(p).kind # "torn" /\ Log(PoolFrame(p))
  BY PoolFrameIsFrame, Zenon DEF LogDirty
<1>2. /\ file' \in Files /\ st' \in States /\ file'.meta = file.meta
      /\ st'.last = st.last /\ st'.last <= st'.end /\ st'.end <= Len(file'.wal)
      /\ Names(file'.wal, st'.end, st'.latest) /\ Names(file'.wal, st'.end, st'.committed)
      /\ st.latest[Meta] # 0 \/ PoolFrame(p).kind = "meta" => st'.latest[Meta] # 0
  BY <1>1, LogStep, Zenon
<1>3. pool' \in Pools /\ pool'.dp = pool.dp \ {p}
  BY Zenon DEF LogDirty, StoreOK, Pools
<1>4. StoreOK'
  BY <1>2, <1>3, Zenon DEF LogDirty, StoreOK
<1>5. TailInv'
  <2>1. wpc' = wpc
    BY Zenon DEF LogDirty
  <2>2. p = Meta => st'.latest[Meta] # 0
    BY <1>2, PoolFrameIsFrame, Zenon
  <2> QED
    BY <1>2, <1>3, <2>1, <2>2, Zenon DEF TailInv, FoldSteps
<1>6. CopyInv'
  BY <1>2, CopiesKept, Zenon DEF LogDirty
<1> QED
  BY <1>4, <1>5, <1>6, Zenon DEF Core

(* What the invariant says of the types of the writer's variables. *)
LEMMA Parts ==
  ASSUME StoreInv
  PROVE  /\ file \in Files /\ disk \in Files /\ st \in States /\ pool \in Pools /\ acked \in Header
         /\ st.end \in Nat /\ st.last \in Nat /\ st.tx \in Nat \ {0}
         /\ file.wal \in Seq(Frame) /\ Len(file.wal) \in Nat
         /\ first \in Copies /\ 1 - first \in Copies /\ Copies = {0, 1}
         /\ file.meta \in [Copies -> Header \cup {Torn}] /\ disk.meta \in [Copies -> Header \cup {Torn}]
<1>1. file \in Files /\ disk \in Files /\ st \in States /\ pool \in Pools /\ acked \in Header
  BY Zenon DEF StoreInv, StoreOK
<1>2. st.end \in Nat /\ st.last \in Nat /\ st.tx \in Nat \ {0}
  BY <1>1, Zenon DEF States
<1>3. /\ file.wal \in Seq(Frame) /\ Len(file.wal) \in Nat
      /\ file.meta \in [Copies -> Header \cup {Torn}] /\ disk.meta \in [Copies -> Header \cup {Torn}]
  BY <1>1 DEF Files
<1>4. first \in Copies /\ 1 - first \in Copies /\ Copies = {0, 1}
  BY DEF StoreInv, ControlOK, Copies
<1> QED
  BY <1>1, <1>2, <1>3, <1>4, Zenon

(* The commit frame. *)
LEMMA AppendCommitKeeps ==
  ASSUME StoreInv, AppendCommit
  PROVE  Core'
<1> USE DEF StoreInv, locks, others, files, writer, readers
<1> DEFINE fr == CommitFrame(st.tx, st.end - st.last)
<1>1. st.end - st.last \in Nat
  BY Parts DEF TailInv
<1>2. fr \in Frame /\ fr.kind = "commit"
  BY Parts, <1>1, Zenon DEF CommitFrame, Frame
<1>3. Log(fr)
  BY Zenon DEF AppendCommit
<1> HIDE DEF fr
<1>4. /\ file' \in Files /\ st' \in States /\ file'.meta = file.meta
      /\ st'.last = st.last /\ st'.last <= st'.end /\ st'.end <= Len(file'.wal)
      /\ Names(file'.wal, st'.end, st'.latest) /\ Names(file'.wal, st'.end, st'.committed)
      /\ st.latest[Meta] # 0 => st'.latest[Meta] # 0
  BY <1>2, <1>3, LogStep, Zenon
<1>5. st.latest[Meta] # 0
  BY Zenon DEF AppendCommit, TailInv
<1>6. StoreOK'
  BY <1>4, Zenon DEF AppendCommit, StoreOK
<1>7. TailInv'
  BY <1>4, <1>5, Zenon DEF AppendCommit, TailInv, FoldSteps
<1>8. CopyInv'
  BY <1>4, CopiesKept, Zenon DEF AppendCommit
<1> QED BY <1>6, <1>7, <1>8, Zenon DEF Core

(* The barrier. *)
LEMMA CommitSyncKeeps ==
  ASSUME StoreInv, CommitSync
  PROVE  Core'
<1> USE DEF StoreInv, locks, others, files, writer, readers
<1>1. disk' \in Files /\ disk'.meta = disk.meta
  BY Parts, FileParts, Zenon DEF CommitSync
<1>2. StoreOK'
  BY <1>1, Zenon DEF CommitSync, StoreOK
<1>3. TailInv'
  BY TailKept, Zenon DEF CommitSync, TailInv, FoldSteps
<1>4. CopyInv'
  BY <1>1, CopiesKept, Zenon DEF CommitSync
<1> QED BY <1>2, <1>3, <1>4, Zenon DEF Core

(* The hint copies are published. *)
LEMMA Publish0Keeps ==
  ASSUME StoreInv, Publish0
  PROVE  Core'
<1> USE DEF StoreInv, locks, others, files, writer, readers
<1>1. /\ st' \in States /\ st'.latest = st.latest /\ st'.committed = st.committed
      /\ st'.end = st.end /\ st'.last = st.last
  BY Parts, Zenon DEF Publish0, States
<1>2. hint' \in [Copies -> Hint]
  BY HintsAreHints, Zenon DEF Publish0, PutHint, Copies
<1>3. StoreOK'
  BY <1>1, <1>2, Zenon DEF Publish0, PutHint, StoreOK
<1>4. TailInv'
  BY <1>1, TailKept, Zenon DEF Publish0, TailInv, FoldSteps
<1>5. CopyInv'
  BY CopiesKept, Zenon DEF Publish0
<1> QED BY <1>3, <1>4, <1>5, Zenon DEF Core

(* The transaction becomes the published one. *)
LEMMA Publish1Keeps ==
  ASSUME StoreInv, Publish1
  PROVE  Core'
<1> USE DEF StoreInv, locks, others, files, writer, readers
<1>1. /\ st' \in States /\ st'.latest = st.latest /\ st'.committed = st.latest
      /\ st'.end = st.end /\ st'.last = st.end
  <2>1. /\ Published \in States /\ Published.latest = st.latest
        /\ Published.committed = st.latest /\ Published.end = st.end
        /\ Published.last = st.end
    BY PublishedState, Zenon
  <2>2. st' = [Published EXCEPT !.current = TRUE]
    BY Zenon DEF Publish1
  <2> QED BY <2>1, <2>2, Zenon DEF States
<1>2. hint' \in [Copies -> Hint]
  BY HintsAreHints, Zenon DEF Publish1, PutHint, Copies
<1>3. pool' \in Pools /\ pool'.dp = pool.dp
  BY Parts, Zenon DEF Publish1, Pools
<1>4. StoreOK'
  BY <1>1, <1>2, <1>3, Zenon DEF Publish1, PutHint, StoreOK
<1>5. TailInv'
  BY <1>1, TailKept, Zenon DEF Publish1, TailInv, FoldSteps
<1>6. CopyInv'
  BY CopiesKept, Zenon DEF Publish1
<1> QED BY <1>4, <1>5, <1>6, Zenon DEF Core

(* A fold begins, or is refused. *)
LEMMA BeginFoldKeeps ==
  ASSUME StoreInv, NEW c, BeginFold(c), st.end # 0
  PROVE  Core'
<1> USE DEF StoreInv, locks, others, files, writer, readers
<1>0. pool \in Pools
  BY Parts, Zenon
<1>1. pool' \in Pools /\ pool'.dp = pool.dp
  BY <1>0, Zenon DEF BeginFold, Poison, Pools
<1>2. StoreOK'
  BY <1>1, Zenon DEF BeginFold, StoreOK
<1>3. st.end = st.last => st.latest[Meta] # 0
  BY Zenon DEF TailInv
<1>4. TailInv'
  BY <1>1, <1>3, TailKept, Zenon DEF BeginFold, Poison, TailInv, FoldSteps
<1>5. CopyInv'
  BY CopiesKept, Zenon DEF BeginFold, Poison
<1> QED BY <1>2, <1>4, <1>5, Zenon DEF Core

(* A commit that finds the log due begins a fold. *)
LEMMA CommitFoldKeeps ==
  ASSUME StoreInv, CommitFold
  PROVE  Core'
BY Parts, BeginFoldKeeps, PageWalAssumption DEF CommitFold, CheckpointDue, StoreInv, locks, others, files, writer, readers

(* A checkpoint that is called for. *)
LEMMA CheckpointKeeps ==
  ASSUME StoreInv, Checkpoint
  PROVE  Core'
BY Parts, BeginFoldKeeps DEF Checkpoint, StoreInv, locks, others, files, writer, readers

(* The commit is acknowledged. *)
LEMMA CommitDoneKeeps ==
  ASSUME StoreInv, CommitDone
  PROVE  Core'
<1> USE DEF StoreInv, locks, others, files, writer, readers
<1>1. acked' \in Header
  BY AcknowledgedHeader, Zenon DEF CommitDone
<1>2. StoreOK'
  BY <1>1, Zenon DEF CommitDone, StoreOK
<1>3. TailInv'
  BY TailKept, Zenon DEF CommitDone, TailInv, FoldSteps
<1>4. CopyInv'
  BY CopiesKept, Zenon DEF CommitDone
<1> QED BY <1>2, <1>3, <1>4, Zenon DEF Core

(* The log is full: the handle is poisoned. *)
LEMMA AppendRefusedKeeps ==
  ASSUME StoreInv, AppendRefused
  PROVE  Core'
<1> USE DEF StoreInv, locks, others, files, writer, readers
<1>1. pool' \in Pools
  BY Parts, Zenon DEF AppendRefused, Poison, Pools
<1>2. StoreOK'
  BY <1>1, Zenon DEF AppendRefused, StoreOK
<1>3. TailInv'
  BY TailKept, Zenon DEF AppendRefused, Poison, TailInv, FoldSteps
<1>4. CopyInv'
  BY CopiesKept, Zenon DEF AppendRefused, Poison
<1> QED BY <1>2, <1>3, <1>4, Zenon DEF Core

(* The commit dirties the metadata page. *)
LEMMA CommitBeginKeeps ==
  ASSUME StoreInv, CommitBegin
  PROVE  Core'
<1> USE DEF StoreInv, locks, others, files, writer, readers
<1>1. pool' \in Pools /\ Meta \in pool'.dp
  BY Parts, Zenon DEF CommitBegin, Pools
<1>2. StoreOK'
  BY <1>1, Zenon DEF CommitBegin, StoreOK
<1>3. TailInv'
  BY <1>1, TailKept, Zenon DEF CommitBegin, TailInv, FoldSteps
<1>4. CopyInv'
  BY CopiesKept, Zenon DEF CommitBegin
<1> QED BY <1>2, <1>3, <1>4, Zenon DEF Core

(* The commit: commit frame, barrier, publication. *)
LEMMA CommitSteps ==
  ASSUME StoreInv,
         AppendCommit \/ CommitSync \/ Publish0 \/ Publish1 \/ CommitFold \/ CommitDone
           \/ Checkpoint \/ AppendRefused \/ CommitBegin
  PROVE  Core'
<1> QED
  BY AppendCommitKeeps, CommitSyncKeeps, Publish0Keeps, Publish1Keeps,
     CommitFoldKeeps, CheckpointKeeps, CommitDoneKeeps, AppendRefusedKeeps,
     CommitBeginKeeps, Zenon

(* A page is copied to the data file. *)
LEMMA CopyPageKeeps ==
  ASSUME StoreInv, NEW p \in Pages, CopyPage(p)
  PROVE  Core'
<1> USE DEF StoreInv, locks, others, files, writer, readers
<1>1. file.wal[st.latest[p]].val \in Vals \cup {Torn}
  BY IndexedFrames, Zenon DEF CopyPage, TailInv
<1>2. file' \in Files /\ file'.wal = file.wal /\ file'.meta = file.meta
  <2>0. file \in Files
    BY Parts, Zenon
  <2>1. CASE UNCHANGED file
    BY <2>0, <2>1, Zenon
  <2>2. CASE file' = [file EXCEPT !.data[p] = file.wal[st.latest[p]].val]
    BY <1>1, <2>0, <2>2, Zenon DEF Files, Image
  <2> QED BY <2>1, <2>2, Zenon DEF CopyPage
<1>3. StoreOK'
  BY <1>2, Zenon DEF CopyPage, StoreOK
<1>4. TailInv'
  BY <1>2, TailKept, Zenon DEF CopyPage, TailInv, FoldSteps
<1>5. CopyInv'
  BY <1>2, CopiesKept, Zenon DEF CopyPage
<1> QED BY <1>3, <1>4, <1>5, Zenon DEF Core

(* The barrier on the data file takes the copies as they are. *)
LEMMA SyncDataCopies ==
  ASSUME StoreInv, SyncData
  PROVE  disk' \in Files /\ disk'.meta = file.meta /\ disk'.wal = disk.wal
<1>1. disk \in Files /\ file \in Files
  BY Parts, Zenon
<1>2. file.data \in Image /\ file.meta \in [Copies -> Header \cup {Torn}]
  BY <1>1, Zenon DEF Files
<1>3. disk' = [disk EXCEPT !.data = file.data, !.meta = file.meta]
  BY Zenon DEF SyncData
<1> QED
  BY <1>1, <1>2, <1>3, Zenon DEF Files

(* The barrier after the pages. *)
LEMMA CopySyncKeeps ==
  ASSUME StoreInv, CopySync
  PROVE  Core'
<1> USE DEF StoreInv, locks, others, files, writer, readers
<1>1. disk' \in Files /\ disk'.meta = file.meta
  BY SyncDataCopies, Zenon DEF CopySync
<1>2. StoreOK'
  BY <1>1, Zenon DEF CopySync, StoreOK
<1>3. TailInv'
  BY TailKept, Zenon DEF CopySync, TailInv, FoldSteps
<1>4. CopyInv'
  BY <1>1, Zenon DEF CopySync, CopyInv, Durable
<1> QED BY <1>2, <1>3, <1>4, Zenon DEF Core

(* The pages are read back before a copy is written. *)
LEMMA VerifyKeeps ==
  ASSUME StoreInv, Verify
  PROVE  Core'
<1> USE DEF StoreInv, locks, others, files, writer, readers
<1>0. pool \in Pools
  BY Parts, Zenon
<1>1. pool' \in Pools
  BY <1>0, Zenon DEF Verify, Poison, Pools
<1>2. StoreOK'
  BY <1>1, Zenon DEF Verify, StoreOK
<1>3. TailInv'
  BY TailKept, Zenon DEF Verify, Poison, TailInv, FoldSteps
<1>4. file.meta = disk.meta /\ \E c \in Copies : file.meta[c] # Torn
  BY Zenon DEF Verify, CopyInv, Durable
<1>5. file.meta[1 - FirstCopy(file.meta)] # Torn
  BY <1>4 DEF FirstCopy, Copies
<1>6. ASSUME ReadBack PROVE CopyInv'
  BY <1>4, <1>5, <1>6, Zenon DEF Verify, CopyInv, Durable
<1>7. ASSUME ~ReadBack PROVE CopyInv'
  BY <1>7, CopiesKept, Zenon DEF Verify, Poison
<1> QED BY <1>2, <1>3, <1>6, <1>7, Zenon DEF Core

(* What a fold writes into a metadata copy is a header. *)
LEMMA FoldHeaderIsHeader ==
  ASSUME StoreInv
  PROVE  wpc \in FoldSteps => FoldHeader \in Header /\ FoldHeader # Torn
BY IndexedFrames, FormatAssumption, Zenon DEF TailInv, FoldHeader, StoreInv, locks, others, files, writer, readers

(* One metadata copy is written, the other is not touched. *)
LEMMA WriteMetaWrites ==
  ASSUME StoreInv, NEW c \in Copies, NEW from \in FoldSteps, NEW to, WriteMeta(c, from, to)
  PROVE  /\ file' \in Files /\ file'.wal = file.wal
          /\ file'.meta[c] # Torn /\ file'.meta[1 - c] = file.meta[1 - c]
          /\ StoreOK'
<1> USE DEF StoreInv, locks, others, files, writer, readers
<1>1. FoldHeader \in Header /\ FoldHeader # Torn
  BY FoldHeaderIsHeader, Zenon DEF WriteMeta
<1>2. /\ file' \in Files /\ file'.wal = file.wal
      /\ file'.meta = [file.meta EXCEPT ![c] = FoldHeader]
  BY Parts, <1>1, FileParts DEF WriteMeta
<1>3. file'.meta[c] # Torn /\ file'.meta[1 - c] = file.meta[1 - c]
  BY Parts, <1>1, <1>2 DEF Copies
<1>4. StoreOK'
  BY <1>2, Zenon DEF WriteMeta, StoreOK
<1> QED BY <1>2, <1>3, <1>4, Zenon

(* The first metadata copy. *)
LEMMA WriteMeta0Keeps ==
  ASSUME StoreInv, WriteMeta0
  PROVE  Core'
<1> USE DEF StoreInv, locks, others, files, writer, readers
<1>1. WriteMeta(first, "meta0", "msync")
  BY Zenon DEF WriteMeta0
<1>2. /\ file' \in Files /\ file'.wal = file.wal /\ StoreOK'
      /\ file'.meta[first] # Torn /\ file'.meta[1 - first] = file.meta[1 - first]
  BY Parts, WriteMetaWrites, <1>1, Zenon DEF FoldSteps
<1>3. TailInv'
  BY <1>1, <1>2, TailKept, Zenon DEF WriteMeta, TailInv, FoldSteps
<1>4. CopyInv'
  BY Parts, <1>1, <1>2, Zenon DEF WriteMeta, CopyInv, Durable
<1> QED BY <1>2, <1>3, <1>4, Zenon DEF Core

(* The barrier between the copies. *)
LEMMA MetaSyncKeeps ==
  ASSUME StoreInv, MetaSync
  PROVE  Core'
<1> USE DEF StoreInv, locks, others, files, writer, readers
<1>1. disk' \in Files /\ disk'.meta = file.meta
  BY SyncDataCopies, Zenon DEF MetaSync
<1>2. StoreOK'
  BY <1>1, Zenon DEF MetaSync, StoreOK
<1>3. TailInv'
  BY TailKept, Zenon DEF MetaSync, TailInv, FoldSteps
<1>4. CopyInv'
  BY Parts, <1>1, Zenon DEF MetaSync, CopyInv, Durable
<1> QED BY <1>2, <1>3, <1>4, Zenon DEF Core

(* The second metadata copy. *)
LEMMA WriteMeta1Keeps ==
  ASSUME StoreInv, WriteMeta1
  PROVE  Core'
<1> USE DEF StoreInv, locks, others, files, writer, readers
<1>1. WriteMeta(1 - first, "meta1", "trunc")
  BY Zenon DEF WriteMeta1
<1>2. 1 - (1 - first) = first
  BY Parts DEF Copies
<1>3. file' \in Files /\ file'.wal = file.wal /\ StoreOK' /\ file'.meta[first] = file.meta[first]
  BY Parts, WriteMetaWrites, <1>1, <1>2, Zenon DEF FoldSteps
<1>4. TailInv'
  BY <1>1, <1>3, TailKept, Zenon DEF WriteMeta, TailInv, FoldSteps
<1>5. CopyInv'
  BY Parts, <1>1, <1>3, Zenon DEF WriteMeta, CopyInv, Durable
<1> QED BY <1>3, <1>4, <1>5, Zenon DEF Core

(* The log is reset; nothing is named in it any more. *)
LEMMA TruncateKeeps ==
  ASSUME StoreInv, Truncate
  PROVE  Core'
<1> USE DEF StoreInv, locks, others, files, writer, readers
<1>1. <<>> \in Seq(Frame)
  OBVIOUS
<1>2. file' \in Files /\ file'.wal = <<>> /\ file'.meta = file.meta
  <2>1. file \in Files /\ file' = [file EXCEPT !.wal = <<>>]
    BY Parts, Zenon DEF Truncate
  <2> QED
    BY <1>1, <2>1, FileParts, Zenon
<1>3. NoIndex \in Index /\ \A p \in Pages \cup {Meta} : NoIndex[p] = 0
  BY Zenon DEF NoIndex, Index
<1>4. FoldHeader.tx \in Nat
  BY FoldHeaderIsHeader, Zenon DEF Truncate, FoldSteps, Header
<1>5. /\ st' \in States /\ st'.latest = NoIndex /\ st'.committed = NoIndex
      /\ st'.end = 0 /\ st'.last = 0
  BY Parts, <1>3, <1>4, Zenon DEF Truncate, States
<1>6. StoreOK'
  BY <1>2, <1>5, Zenon DEF Truncate, StoreOK
<1>7. Len(file'.wal) = 0
  BY <1>2
<1>8. TailInv'
  BY <1>3, <1>5, <1>7 DEF Truncate, TailInv, Names, FoldSteps
<1>9. CopyInv'
  BY <1>2, CopiesKept, Zenon DEF Truncate
<1> QED BY <1>6, <1>8, <1>9, Zenon DEF Core

(* The fold: pages, barrier, read back, metadata copies, reset. *)
LEMMA FoldStepsKeep ==
  ASSUME StoreInv,
         (\E p \in Pages : CopyPage(p)) \/ CopySync \/ Verify \/ WriteMeta0 \/ MetaSync
           \/ WriteMeta1 \/ Truncate
  PROVE  Core'
<1> QED
  BY CopyPageKeeps, CopySyncKeeps, VerifyKeeps, WriteMeta0Keeps, MetaSyncKeeps,
     WriteMeta1Keeps, TruncateKeeps, Zenon

(* Whether the shared index is current is nothing to the rest. *)
LEMMA CurrentAside ==
  ASSUME StoreInv, NEW b \in BOOLEAN, st' = [st EXCEPT !.current = b]
  PROVE  /\ st' \in States /\ st'.latest = st.latest /\ st'.committed = st.committed
          /\ st'.end = st.end /\ st'.last = st.last
BY Parts, Zenon DEF States, StoreInv, locks, others, files, writer, readers

(* The first hint after a fold or an open. *)
LEMMA Hint0Keeps ==
  ASSUME StoreInv, Hint0
  PROVE  Core'
<1> USE DEF StoreInv, locks, others, files, writer, readers
<1>1. /\ st' \in States /\ st'.latest = st.latest /\ st'.committed = st.committed
      /\ st'.end = st.end /\ st'.last = st.last
  BY CurrentAside, Zenon DEF Hint0
<1>2. hint' \in [Copies -> Hint]
  BY HintsAreHints, Zenon DEF Hint0, PutHint, Copies
<1>3. StoreOK'
  BY <1>1, <1>2, Zenon DEF Hint0, PutHint, StoreOK
<1>4. TailInv'
  BY <1>1, TailKept, Zenon DEF Hint0, FoldSteps
<1>5. CopyInv'
  BY CopiesKept, Zenon DEF Hint0
<1> QED BY <1>3, <1>4, <1>5, Zenon DEF Core

(* The second hint. *)
LEMMA Hint1Keeps ==
  ASSUME StoreInv, Hint1
  PROVE  Core'
<1> USE DEF StoreInv, locks, others, files, writer, readers
<1>1. /\ st' \in States /\ st'.latest = st.latest /\ st'.committed = st.committed
      /\ st'.end = st.end /\ st'.last = st.last
  BY CurrentAside, Zenon DEF Hint1
<1>2. hint' \in [Copies -> Hint]
  BY HintsAreHints, Zenon DEF Hint1, PutHint, Copies
<1>3. acked' \in Header
  BY Parts, AcknowledgedHeader, Zenon DEF Hint1
<1>4. pool' \in Pools
  <2>1. ReadImage(file, st.latest) \in Image
    BY IndexedFrames, Zenon
  <2> DEFINE img == ReadImage(file, st.latest)
  <2>2. LoadedPool(img) \in Pools
    <3> HIDE DEF img
    <3> QED BY <2>1, Zenon DEF LoadedPool, Pools, img
  <2>3. pool' = LoadedPool(img) \/ pool' = pool
    BY Zenon DEF Hint1
  <2> QED BY Parts, <2>2, <2>3, Zenon
<1>5. StoreOK'
  BY <1>1, <1>2, <1>3, <1>4, Zenon DEF Hint1, PutHint, StoreOK
<1>6. TailInv'
  BY <1>1, TailKept, Zenon DEF Hint1, FoldSteps
<1>7. CopyInv'
  BY CopiesKept, Zenon DEF Hint1
<1> QED BY <1>5, <1>6, <1>7, Zenon DEF Core

(* An open cuts the tail off the log. *)
LEMMA OpenTruncateKeeps ==
  ASSUME StoreInv, OpenTruncate
  PROVE  Core'
<1> USE DEF StoreInv, locks, others, files, writer, readers
<1> DEFINE w == SubSeq(file.wal, 1, st.last)
<1>1. st.last = st.end /\ st.last <= Len(file.wal)
  BY Zenon DEF OpenTruncate, TailInv
<1>2. \A i \in 1..st.last : file.wal[i] \in Frame
  BY Parts, <1>1
<1>3. w \in Seq(Frame) /\ Len(w) = st.last /\ \A i \in 1..st.last : w[i] = file.wal[i]
  BY Parts, <1>2
<1>4. file' = [file EXCEPT !.wal = w]
  BY Zenon DEF OpenTruncate
<1> HIDE DEF w
<1>5. file' \in Files /\ file'.wal = w /\ file'.meta = file.meta
  BY Parts, <1>3, <1>4, FileParts
<1>6. StoreOK'
  BY <1>5, Zenon DEF OpenTruncate, StoreOK
<1>7. ASSUME NEW idx \in {st.latest, st.committed} PROVE Names(w, st.end, idx)
  <2>1. idx \in Index /\ Names(file.wal, st.end, idx)
    BY Parts, Zenon DEF States, TailInv
  <2>2. ASSUME NEW p \in Pages \cup {Meta}, idx[p] # 0 PROVE w[idx[p]] = file.wal[idx[p]]
    <3>1. idx[p] \in 1..st.last
      <4>1. idx[p] \in Nat
        BY <2>1, Zenon DEF Index
      <4>2. idx[p] <= st.end
        BY <2>1, <2>2, Zenon DEF Names
      <4>3. st.last \in Nat
        BY Parts, Zenon DEF States
      <4> QED BY <1>1, <2>2, <4>1, <4>2, <4>3
    <3> QED BY <1>3, <3>1, Zenon
  <2> QED BY <2>1, <2>2, Zenon DEF Names
<1>8. TailInv'
  BY Parts, <1>1, <1>3, <1>5, <1>7, Zenon DEF OpenTruncate, TailInv, FoldSteps
<1>9. CopyInv'
  BY <1>5, CopiesKept DEF OpenTruncate
<1> QED BY <1>6, <1>8, <1>9, Zenon DEF Core

(* The barrier of an open. *)
LEMMA OpenSyncKeeps ==
  ASSUME StoreInv, OpenSync
  PROVE  Core'
<1> USE DEF StoreInv, locks, others, files, writer, readers
<1>1. disk' \in Files /\ disk'.meta = disk.meta
  BY Parts, FileParts, Zenon DEF OpenSync
<1>2. StoreOK'
  BY <1>1, Zenon DEF OpenSync, StoreOK
<1>3. TailInv'
  BY TailKept, Zenon DEF OpenSync, FoldSteps
<1>4. CopyInv'
  BY <1>1, CopiesKept, Zenon DEF OpenSync
<1> QED BY <1>2, <1>3, <1>4, Zenon DEF Core

(* The handle is closed. *)
LEMMA CloseKeeps ==
  ASSUME StoreInv, Close
  PROVE  Core'
<1> USE DEF StoreInv, locks, others, files, writer, readers
<1>1. st' \in States /\ pool' \in Pools /\ TailInv'
  BY Parts, LeaveKeeps, Zenon DEF Close
<1>2. StoreOK'
  BY <1>1, Zenon DEF Close, StoreOK
<1>3. CopyInv'
  BY CopiesKept, Zenon DEF Close, Leave
<1> QED BY <1>1, <1>2, <1>3, Zenon DEF Core

(* A handle that has inspected the files stands on what it found. *)
LEMMA RecoverKeeps ==
  ASSUME StoreInv, CanInspect(file), st' = Recovered, UNCHANGED file, wpc' \in {"otrunc", "rgate"}
  PROVE  st' \in States /\ TailInv'
<1> USE DEF StoreInv, locks, others, files, writer, readers
<1>1. /\ st' \in States /\ st'.end = st'.last /\ st'.end <= Len(file'.wal)
      /\ Names(file'.wal, st'.end, st'.latest) /\ Names(file'.wal, st'.end, st'.committed)
      /\ st'.last # 0 => st'.latest[Meta] # 0
  BY RecoveredState, Zenon
<1>2. st'.last <= st'.end
  BY <1>1 DEF States
<1>3. wpc' \notin {"flush", "sync", "pub0", "pub1", "copy"} \cup FoldSteps
  BY Zenon DEF FoldSteps
<1> QED BY <1>1, <1>2, <1>3, Zenon DEF TailInv

(* A rollback inspects the files again. *)
LEMMA RollbackBeginKeeps ==
  ASSUME StoreInv, RollbackBegin
  PROVE  Core'
<1> USE DEF StoreInv, locks, others, files, writer, readers
<1>1. pool' \in Pools
  BY Parts, Zenon DEF RollbackBegin, Pools
<1>2. CASE CanInspect(file)
  <2>1. st' \in States /\ TailInv'
    BY RecoverKeeps, <1>2, Zenon DEF RollbackBegin
  <2>2. StoreOK'
    BY <1>1, <2>1, Zenon DEF RollbackBegin, StoreOK
  <2>3. CopyInv'
    BY <1>2, CopiesKept, Zenon DEF RollbackBegin
  <2> QED BY <2>1, <2>2, <2>3, Zenon DEF Core
<1>3. CASE ~CanInspect(file)
  <2>1. StoreOK'
    BY <1>1, <1>3, Zenon DEF RollbackBegin, StoreOK
  <2>2. TailInv'
    BY <1>3, TailKept, Zenon DEF RollbackBegin, FoldSteps
  <2>3. CopyInv'
    BY <1>3, CopiesKept, Zenon DEF RollbackBegin
  <2> QED BY <2>1, <2>2, <2>3, Zenon DEF Core
<1> QED BY <1>2, <1>3, Zenon

(* A rollback waits for the gate. *)
LEMMA RollbackGateKeeps ==
  ASSUME StoreInv, RollbackGate
  PROVE  Core'
<1> USE DEF StoreInv, locks, others, files, writer, readers
<1>1. StoreOK'
  BY Zenon DEF RollbackGate, StoreOK
<1>2. TailInv'
  BY TailKept, Zenon DEF RollbackGate, FoldSteps
<1>3. CopyInv'
  BY CopiesKept, Zenon DEF RollbackGate
<1> QED BY <1>1, <1>2, <1>3, Zenon DEF Core

(* An open waits for the gate. *)
LEMMA OpenGateKeeps ==
  ASSUME StoreInv, OpenGate
  PROVE  Core'
BY Zenon DEF OpenGate, Core, StoreOK, TailInv, CopyInv, Durable, StoreInv, locks, others, files, writer, readers

(* An open claims the writer. *)
LEMMA OpenClaimKeeps ==
  ASSUME StoreInv, OpenClaim
  PROVE  Core'
<1> USE DEF StoreInv, locks, others, files, writer, readers
<1>1. CASE own = {} /\ ownS = {} /\ CanInspect(file)
  <2>1. st' \in States /\ TailInv'
    BY RecoverKeeps, <1>1, Zenon DEF OpenClaim
  <2>2. StoreOK'
    BY <2>1, Zenon DEF OpenClaim, StoreOK
  <2>3. CopyInv'
    BY <1>1, CopiesKept, Zenon DEF OpenClaim
  <2> QED BY <2>1, <2>2, <2>3, Zenon DEF Core
<1>2. CASE ~(own = {} /\ ownS = {} /\ CanInspect(file))
  BY <1>2, Zenon DEF OpenClaim, Core, StoreOK, TailInv, CopyInv, Durable
<1> QED BY <1>1, <1>2, Zenon

(* A put dirties its page. *)
LEMMA MutateKeeps ==
  ASSUME StoreInv, NEW p \in Pages, NEW v \in Vals, Mutate(p, v)
  PROVE  Core'
<1> USE DEF StoreInv, locks, others, files, writer, readers
<1>1. pool' \in Pools /\ pool'.dp = pool.dp \cup {p}
  BY Parts, Zenon DEF Mutate, Pools, Image
<1>2. StoreOK'
  BY <1>1, Zenon DEF Mutate, StoreOK
<1>3. TailInv'
  BY TailKept, Zenon DEF Mutate, Healthy, FoldSteps
<1>4. CopyInv'
  BY CopiesKept, Zenon DEF Mutate
<1> QED BY <1>2, <1>3, <1>4, Zenon DEF Core

(* The remaining calls: hints after a fold or an open, open, rollback, put. *)
LEMMA CallSteps ==
  ASSUME StoreInv,
         Hint0 \/ Hint1 \/ OpenTruncate \/ OpenSync \/ Close \/ RollbackBegin \/ RollbackGate
           \/ OpenGate \/ OpenClaim \/ \E p \in Pages, v \in Vals : Mutate(p, v)
  PROVE  Core'
<1> QED
  BY Hint0Keeps, Hint1Keeps, OpenTruncateKeeps, OpenSyncKeeps, CloseKeeps,
     RollbackBeginKeeps, RollbackGateKeeps, OpenGateKeeps, OpenClaimKeeps,
     MutateKeeps, Zenon

(* What power loss leaves of the WAL is a sequence of frames. *)
LEMMA WalAfterPowerLoss ==
  ASSUME StoreOK, NEW w \in WalsAfterPowerLoss
  PROVE  w \in Seq(Frame)
<1> DEFINE kept == Common(file.wal, disk.wal)
           TornSets(n) == {t \in SUBSET ((kept + 1)..n) :
                       "reorder" \in Faults \/ \A i \in t : \A j \in i..n : j \in t}
           Damaged(n, t) == [i \in 1..n |-> IF i \in t THEN TornFrame ELSE file.wal[i]]
<1>1. file.wal \in Seq(Frame) /\ disk.wal \in Seq(Frame) /\ Len(file.wal) \in Nat
  BY DEF StoreOK, Files
<1>2. kept \in Nat
  <2> DEFINE S == {n \in 1..Len(file.wal) : n <= Len(disk.wal) /\ \A i \in 1..n : file.wal[i] = disk.wal[i]}
  <2>1. S \subseteq 1..Len(file.wal)
    BY Zenon
  <2>2. kept = MaxOr0(S)
    BY Zenon DEF Common
  <2>3. MaxOr0(S) \in 0..Len(file.wal)
    <3> HIDE DEF S
    <3> QED BY <1>1, <2>1, MaxOr0Of, Zenon
  <2> HIDE DEF S, kept
  <2> QED BY <1>1, <2>2, <2>3
<1>3. CASE w = disk.wal
  BY <1>1, <1>3, Zenon
<1>4. ASSUME NEW n \in kept..Len(file.wal), NEW t \in TornSets(n), w = Damaged(n, t)
      PROVE  w \in Seq(Frame)
  <2>1. n \in Nat /\ n <= Len(file.wal)
    <3> HIDE DEF kept
    <3> QED BY <1>1, <1>2
  <2>2. \A i \in 1..n : file.wal[i] \in Frame
    BY <1>1, <2>1
  <2>3. TornFrame \in Frame
    BY Zenon DEF Frame
  <2>4. w \in [1..n -> Frame]
    BY <1>4, <2>2, <2>3, Zenon
  <2> QED
    BY <2>1, <2>4
<1>5. WalsAfterPowerLoss =
        {disk.wal} \cup UNION {{Damaged(n, t) : t \in TornSets(n)} : n \in kept..Len(file.wal)}
  BY Zenon DEF WalsAfterPowerLoss
<1> HIDE DEF kept, TornSets, Damaged
<1>6. w = disk.wal \/ \E n \in kept..Len(file.wal) : \E t \in TornSets(n) : w = Damaged(n, t)
  BY <1>5, Zenon
<1> QED
  BY <1>3, <1>4, <1>6, Zenon

(* A file operation fails. *)
LEMMA IoErrorKeeps ==
  ASSUME StoreInv, IoError
  PROVE  Core'
<1> USE DEF StoreInv, locks, others, files, writer, readers
<1>1. hint' \in [Copies -> Hint]
  BY Parts, HintsAreHints DEF IoError, HintsAfterFailure, StoreOK
<1>2. \/ file' = file
      \/ wpc = "copy" /\ \E p \in todo : file' = [file EXCEPT !.data[p] = Torn]
      \/ wpc = "meta0" /\ file' = [file EXCEPT !.meta[first] = Torn]
      \/ wpc = "meta1" /\ file' = [file EXCEPT !.meta[1 - first] = Torn]
  BY Zenon DEF IoError, AfterFailure
<1>3. ASSUME NEW c \in Copies, file' = [file EXCEPT !.meta[c] = Torn]
      PROVE  /\ file' \in Files /\ file'.wal = file.wal
             /\ file'.meta[1 - c] = file.meta[1 - c]
  <2>1. /\ file' \in Files /\ file'.wal = file.wal
        /\ file'.meta = [file.meta EXCEPT ![c] = Torn]
    BY Parts, <1>3, FileParts
  <2>2. c # 1 - c /\ 1 - c \in Copies
    BY Parts
  <2> QED BY Parts, <2>1, <2>2, Zenon
<1>4. ASSUME NEW p \in todo, file' = [file EXCEPT !.data[p] = Torn]
      PROVE  file' \in Files /\ file'.wal = file.wal /\ file'.meta = file.meta
  BY Parts, <1>4, Zenon DEF Files, Image, ControlOK
<1>5. file' \in Files /\ file'.wal = file.wal
  BY Parts, <1>2, <1>3, <1>4, Zenon
<1>6. UNCHANGED disk /\ wpc' \notin {"verify", "meta0", "msync", "meta1"}
  BY Zenon DEF IoError, Leave, Poison
<1>7. 1 - (1 - first) = first
  BY Parts
<1>8. \E c \in Copies : Durable(c) /\ file'.meta[c] = file.meta[c]
  <2>1. CASE file'.meta = file.meta
    BY <2>1, Zenon DEF CopyInv
  <2>2. CASE wpc = "meta0" /\ file' = [file EXCEPT !.meta[first] = Torn]
    BY Parts, <1>3, <2>2, Zenon DEF CopyInv
  <2>3. CASE wpc = "meta1" /\ file' = [file EXCEPT !.meta[1 - first] = Torn]
    BY Parts, <1>3, <1>7, <2>3, Zenon DEF CopyInv
  <2> QED BY <1>2, <1>4, <2>1, <2>2, <2>3, Zenon
<1>9. CopyInv'
  BY <1>6, <1>8, Zenon DEF CopyInv, Durable
<1>10. CASE call = "open"
  <2>1. st' \in States /\ pool' \in Pools /\ TailInv'
    BY <1>5, <1>10, LeaveKeeps, Zenon DEF IoError
  <2>2. StoreOK'
    BY <1>1, <1>5, <2>1, Zenon DEF IoError, StoreOK
  <2> QED BY <1>9, <2>1, <2>2, Zenon DEF Core
<1>11. CASE call # "open"
  <2>0. pool \in Pools
    BY Parts, Zenon
  <2>1. pool' \in Pools
    BY <1>11, <2>0, Zenon DEF IoError, Poison, Pools
  <2>2. /\ st' \in States /\ st'.latest = st.latest /\ st'.committed = st.committed
        /\ st'.end = st.end /\ st'.last = st.last
    <3>1. PICK b \in BOOLEAN : st' = [st EXCEPT !.current = b]
      <4>1. (st.current /\ wpc \notin HintSteps) \in BOOLEAN
        BY Zenon
      <4>2. st' = [st EXCEPT !.current = st.current /\ wpc \notin HintSteps]
        BY <1>11, Zenon DEF IoError
      <4> QED BY <4>1, <4>2, Zenon
    <3> QED BY Parts, <3>1, Zenon DEF States
  <2>3. StoreOK'
    BY <1>1, <1>5, <2>1, <2>2, Zenon DEF IoError, StoreOK
  <2>4. wpc' = "idle"
    BY <1>11, Zenon DEF IoError, Poison
  <2>5. TailInv'
    BY <1>5, <2>2, <2>4, TailKept, Zenon DEF FoldSteps
  <2> QED BY <1>9, <2>3, <2>5, Zenon DEF Core
<1> QED BY <1>10, <1>11, Zenon

(* The publication of the second hint fails. *)
LEMMA Publish1FailKeeps ==
  ASSUME StoreInv, Publish1Fail
  PROVE  Core'
<1> USE DEF StoreInv, locks, others, files, writer, readers
<1>1. hint' \in [Copies -> Hint]
  BY Parts, HintsAreHints DEF Publish1Fail
<1>2. pool' \in Pools
  BY Parts, Zenon DEF Publish1Fail, Poison, Pools
<1>3. /\ st' \in States /\ st'.latest = st.latest /\ st'.committed = st.latest
      /\ st'.end = st.end /\ st'.last = st.end
  BY PublishedState, Zenon DEF Publish1Fail
<1>4. StoreOK'
  BY <1>1, <1>2, <1>3, Zenon DEF Publish1Fail, StoreOK
<1>5. TailInv'
  BY <1>3, TailKept, Zenon DEF Publish1Fail, Poison, TailInv, FoldSteps
<1>6. CopyInv'
  BY CopiesKept, Zenon DEF Publish1Fail, Poison
<1> QED BY <1>4, <1>5, <1>6, Zenon DEF Core

(* The process dies. *)
LEMMA CrashKeeps ==
  ASSUME StoreInv, Crash
  PROVE  Core'
<1> USE DEF StoreInv, locks, others, files, writer, readers
<1>1. st' \in States /\ pool' \in Pools /\ TailInv'
  BY Parts, LeaveKeeps, Zenon DEF Crash
<1>2. StoreOK'
  BY <1>1, Zenon DEF Crash, StoreOK
<1>3. CopyInv'
  BY CopiesKept, Zenon DEF Crash, Leave
<1> QED BY <1>1, <1>2, <1>3, Zenon DEF Core

(* The power is lost. *)
LEMMA PowerLossKeeps ==
  ASSUME StoreInv, PowerLoss
  PROVE  Core'
<1> USE DEF StoreInv, locks, others, files, writer, readers
<1>1. PICK d \in [Pages -> Vals \cup {Torn}],
           c0 \in Either(file.meta[0], disk.meta[0]),
           c1 \in Either(file.meta[1], disk.meta[1]), w \in WalsAfterPowerLoss :
        /\ file' = [data |-> d, meta |-> [c \in Copies |-> IF c = 0 THEN c0 ELSE c1], wal |-> w]
        /\ disk' = file'
  BY Zenon DEF PowerLoss
<1>2. c0 \in Header \cup {Torn} /\ c1 \in Header \cup {Torn}
  BY Parts, Zenon DEF Either
<1>3. w \in Seq(Frame)
  BY WalAfterPowerLoss, Zenon
<1>4. file' \in Files /\ disk' \in Files /\ disk'.meta = file'.meta
  BY <1>1, <1>2, <1>3, Zenon DEF Files, Image
<1>5. st' \in States /\ pool' \in Pools /\ TailInv'
  BY <1>4, LeaveKeeps, Zenon DEF PowerLoss
<1>6. StoreOK'
  BY <1>4, <1>5, Zenon DEF PowerLoss, StoreOK
<1>7. \E c \in Copies : file'.meta[c] # Torn
  <2>1. file'.meta[0] = c0 /\ file'.meta[1] = c1
    <3>1. file'.meta = [c \in Copies |-> IF c = 0 THEN c0 ELSE c1]
      BY <1>1, Zenon
    <3>2. 0 \in Copies /\ 1 \in Copies
      BY Zenon DEF Copies
    <3>3. 1 # 0
      OBVIOUS
    <3> QED BY <3>1, <3>2, <3>3, Zenon
  <2>2. PICK c \in Copies : Durable(c)
    BY Zenon DEF CopyInv
  <2> QED BY Parts, <2>1, <2>2, Zenon DEF Durable, Either
<1>8. CopyInv'
  BY <1>4, <1>7, Zenon DEF PowerLoss, Leave, CopyInv, Durable
<1> QED BY <1>5, <1>6, <1>8, Zenon DEF Core

(* Failures: a file operation, the process, the power. *)
LEMMA FailureSteps ==
  ASSUME StoreInv, Failure
  PROVE  Core'
<1> QED
  BY IoErrorKeeps, Publish1FailKeeps, CrashKeeps, PowerLossKeeps, Zenon DEF Failure


(* StoreInv is inductive. *)
LEMMA StoreStep ==
  ASSUME StoreInv, [Next]_vars
  PROVE  StoreInv'
<1>1. ControlOK'
  BY ControlStep, Zenon DEF StoreInv
<1>2. ReadersOK'
  BY ReadersStep, Zenon
<1>3. Core'
  <2>1. CASE WriterStep
    <3>1. ASSUME NEW p \in Pages \cup {Meta}, Flush(p) PROVE Core'
      BY <3>1, LogDirtyStep, Zenon DEF Flush
    <3> QED
      BY <2>1, <3>1, CommitSteps, FoldStepsKeep, CallSteps, Zenon DEF WriterStep
  <2>2. CASE WriterCall
    <3>1. ASSUME NEW p \in Pages, Evict(p) PROVE Core'
      BY <3>1, LogDirtyStep, Zenon DEF Evict, Healthy
    <3> QED
      BY <2>2, <3>1, CommitSteps, CallSteps, Zenon DEF WriterCall
  <2>3. CASE Failure
    BY <2>3, FailureSteps, Zenon
  <2>4. CASE OpenGate \/ OpenClaim
    BY <2>4, CallSteps, Zenon
  <2>5. ASSUME UNCHANGED <<files, writer, acked>> PROVE Core'
    BY <2>5, Zenon DEF files, writer, StoreInv, Core, StoreOK, TailInv, CopyInv, Durable
  <2>6. ASSUME NEW r \in Readers,
               ReaderStart(r) \/ Admission(r) \/ Snapshot(r) \/ ReaderLeave(r)
        PROVE  UNCHANGED <<files, writer, acked>>
    BY <2>6, Zenon DEF ReaderStart, Admission, QuiescentScan, QuiescentSlot, LiveGate, LiveHint,
                LiveScan, Snapshot, ReaderLeave, GiveUp
  <2>7. CASE UNCHANGED vars
    BY <2>5, <2>7, Zenon DEF vars
  <2> QED
    BY <2>1, <2>2, <2>3, <2>4, <2>5, <2>6, <2>7, Zenon DEF Next
<1> QED
  BY <1>1, <1>2, <1>3, Zenon DEF StoreInv, Core
(* A created database satisfies the invariant. *)
LEMMA StoreInit ==
  ASSUME Init
  PROVE  StoreInv
<1>1. Image0 \in Image
  BY FormatAssumption, Zenon DEF Image0, Image
<1>2. Header0 \in Header /\ Header0 # Torn
  BY <1>1, FormatAssumption DEF Header0, Header
<1>3. NoIndex \in Index /\ \A p \in Pages \cup {Meta} : NoIndex[p] = 0
  BY Zenon DEF NoIndex, Index
<1>4. <<>> \in Seq(Frame) /\ Len(<<>>) = 0
  OBVIOUS
<1>5. ControlOK
  <2>1. slot \in [Readers -> 0..Slots]
    <3>1. 0 \in 0..Slots
      BY PageWalAssumption
    <3> QED BY <3>1, Zenon DEF Init
  <2>2. rpc \in [Readers -> ReaderPc]
    BY Zenon DEF Init, ReaderPc
  <2>3. wpc \in WriterPc /\ first \in Copies
    BY Zenon DEF Init, WriterPc, Copies
  <2>4. opening \in BOOLEAN
    BY Zenon DEF Init
  <2> QED
    BY <2>1, <2>2, <2>3, <2>4, Zenon DEF Init, ControlOK
<1>6. file \in Files /\ file.wal = <<>> /\ file.meta = [c \in Copies |-> Header0] /\ disk = file
  BY <1>1, <1>2, <1>4, Zenon DEF Init, Files
<1>7. hint \in [Copies -> Hint] /\ hintD = hint
  BY Zenon DEF Init, Hint
<1>8. st \in States /\ pool \in Pools
  <2>1. NoState \in States
    BY <1>3 DEF NoState, States
  <2>2. ClosedPool \in Pools
    BY <1>1, Zenon DEF ClosedPool, LoadedPool, Pools
  <2> QED BY <2>1, <2>2, Zenon DEF Init
<1>9. StoreOK
  BY <1>2, <1>6, <1>7, <1>8, Zenon DEF Init, StoreOK
<1>10. ReadersOK
  <2>1. Closed \in Views
    BY <1>2, <1>3, Zenon DEF Closed, Views
  <2>2. NoHint \in Hint
    BY FormatAssumption DEF NoHint, Hint
  <2> QED BY <2>1, <2>2, Zenon DEF Init, ReadersOK
<1>11. TailInv
  <2>1. /\ st.latest = NoIndex /\ st.committed = NoIndex /\ st.end = 0 /\ st.last = 0
        /\ wpc = "closed" /\ Len(file.wal) = 0
    BY <1>4, <1>6, Zenon DEF Init, NoState
  <2>2. Names(file.wal, 0, NoIndex)
    BY <1>3, Zenon DEF Names
  <2>3. /\ wpc \notin {"otrunc", "rgate"} /\ wpc # "flush"
        /\ wpc \notin {"sync", "pub0", "pub1"} \cup FoldSteps /\ wpc # "copy"
    BY <2>1, Zenon DEF FoldSteps
  <2>4. st.last <= st.end /\ st.end <= Len(file.wal)
    BY <2>1
  <2>5. Names(file.wal, st.end, st.latest) /\ Names(file.wal, st.end, st.committed)
    BY <2>1, <2>2, Zenon
  <2> QED BY <2>1, <2>3, <2>4, <2>5, Zenon DEF TailInv
<1>12. CopyInv
  BY <1>2, <1>6, Zenon DEF Init, CopyInv, Durable, Copies
<1> QED
  BY <1>5, <1>9, <1>10, <1>11, <1>12, Zenon DEF StoreInv

(* The inductive invariant of the store. *)
THEOREM StoreInvariant == Spec => []StoreInv
<1>1. Init => StoreInv
  BY StoreInit, Zenon
<1>2. StoreInv /\ [Next]_vars => StoreInv'
  BY StoreStep, Zenon
<1> QED
  BY <1>1, <1>2, PTL DEF Spec

(* Files, handle, locks and readers hold what they are declared to hold,    *)
(* whatever fails, dies or loses power at any step.                         *)
THEOREM TypeCorrect == Spec => []TypeOK
<1>1. StoreInv => TypeOK
  BY Zenon DEF StoreInv, ControlOK, StoreOK, ReadersOK, TypeOK
<1> QED
  BY <1>1, StoreInvariant, PTL

(* The fold never has both metadata copies at stake: one is always whole    *)
(* and durable (metadata_write_order and the barrier between the copies).   *)
THEOREM CopyAlwaysSurvives == Spec => []CopySurvives
<1>1. StoreInv => CopySurvives
  BY Zenon DEF StoreInv, CopyInv, Durable, CopySurvives
<1> QED
  BY <1>1, StoreInvariant, PTL

(* The index of the writer's handle only names frames of its own tail that  *)
(* hold the page they are listed for (append, adopt, reset_wal).            *)
THEOREM IndexAlwaysNamesFrames == Spec => []IndexNamesFrames
<1>1. StoreInv => IndexNamesFrames
  <2> SUFFICES ASSUME StoreInv PROVE IndexNamesFrames
    BY Zenon
  <2>1. /\ st.last <= st.end /\ st.end <= Len(file.wal)
        /\ Names(file.wal, st.end, st.latest) /\ Names(file.wal, st.end, st.committed)
    BY Zenon DEF StoreInv, TailInv
  <2>2. \A idx \in {st.latest, st.committed} : Names(file.wal, st.end, idx)
    BY <2>1, Zenon
  <2> QED BY <2>1, <2>2, Zenon DEF Names, IndexNamesFrames
<1> QED
  BY <1>1, StoreInvariant, PTL
=============================================================================
