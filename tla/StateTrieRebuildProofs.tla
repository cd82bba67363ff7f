----------------------- MODULE StateTrieRebuildProofs -----------------------
(***************************************************************************)
(* Proofs about the state trie rebuilder, for every number and layout of   *)
(* segments, every set of accounts and every snapshot read size.           *)
(***************************************************************************)
EXTENDS StateTrieRebuild, FiniteSetTheorems, WellFoundedInduction, TLAPS

(* rebuild_state_trie_segment's view of the status: the current segment   *)
(* at the step's local `start`.                                           *)
Local == [status EXCEPT ![seg] = start]
InSegment == pc \in {"segment", "checkSync"}

(* Matches with the snapshot as an argument, so that one lemma covers the *)
(* live trie, the checkpoint and the segment step's own trie.             *)
MatchesIn(r, st, snap) ==
    \A i \in Segs : \A h \in SegHashes(i) :
        /\ h \in r => h \in snap /\ (h < st[i] \/ st[i] >= SegEnd[i])
        /\ h \in snap /\ h < st[i] /\ ~(st[i] >= SegEnd[i]) => h \in r

(* Every account below the progress st of a segment in progress has been  *)
(* written by state sync.                                                 *)
WrittenIn(st, snap) ==
    \A i \in Segs : \A h \in Accounts \cap SegHashes(i) :
        h < st[i] /\ ~(st[i] >= SegEnd[i]) => h \in snap

(* State sync writes each segment's accounts in increasing order: below a *)
(* written account of a segment, every account of that segment is written. *)
OrderedIn(snap) ==
    \A i \in Segs : \A h \in snap \cap SegHashes(i) :
        \A g \in Accounts \cap SegHashes(i) : g < h => g \in snap

(* The progress pointers never fall below their segment's start.          *)
Bounds ==
    /\ \A i \in Segs : SegStart[i] <= status[i] /\ SegStart[i] <= ckStatus[i]
    /\ InSegment => SegStart[seg] <= start

(* The inductive invariant: TrieMatchesProgress together with what the    *)
(* segment step needs of the snapshot, for the live state, the checkpoint *)
(* and the step's own trie and start.                                     *)
IInv ==
    /\ TypeOK
    /\ Bounds
    /\ OrderedIn(snapshot)
    /\ MatchesIn(root, status, snapshot) /\ WrittenIn(status, snapshot)
    /\ MatchesIn(ckRoot, ckStatus, snapshot) /\ WrittenIn(ckStatus, snapshot)
    /\ InSegment => MatchesIn(trie, Local, snapshot) /\ WrittenIn(Local, snapshot)

-----------------------------------------------------------------------------
(* The facts about the constants that the proofs use.                     *)
LEMMA ConstFacts ==
    /\ HashMax \in Nat /\ NumSegments \in Nat \ {0}
    /\ Segs \subseteq Nat /\ Hashes \subseteq Nat
    /\ SegStart \in [Segs -> Hashes] /\ SegEnd \in [Segs -> Hashes]
    /\ \A i \in Segs : SegStart[i] <= SegEnd[i]
    /\ Accounts \subseteq Hashes
    /\ MaxSnapReads \in Nat \ {0} /\ MaxRestarts \in Nat
BY StateConstantsAssumption DEF Segs, Hashes

(* Segments are disjoint: a hash lies in at most one of them.             *)
LEMMA SegDisjoint ==
    ASSUME NEW i \in Segs, NEW j \in Segs, NEW h \in SegHashes(i) \cap SegHashes(j)
    PROVE  i = j
<1>1. i < j => SegEnd[i] < SegStart[j]
  BY StateConstantsAssumption
<1>2. j < i => SegEnd[j] < SegStart[i]
  BY StateConstantsAssumption
<1>3. SegEnd[i] \in Nat /\ SegEnd[j] \in Nat /\ SegStart[i] \in Nat /\ SegStart[j] \in Nat
  BY ConstFacts
<1>. QED
  BY <1>1, <1>2, <1>3, ConstFacts DEF SegHashes, Hashes, Segs

-----------------------------------------------------------------------------
(* A nonempty set of naturals below a bound has a largest element, which  *)
(* is what FiniteSetsExt's Max chooses: the least element of the mirrored *)
(* set {N - x}, by the well-foundedness of < on the naturals.             *)
LEMMA MaxOfBounded ==
    ASSUME NEW N \in Nat, NEW S \in SUBSET (0..N), S # {}
    PROVE  Max(S) \in S /\ \A y \in S : y <= Max(S)
<1> DEFINE T == {N - x : x \in S}
<1>1. T \subseteq Nat /\ T # {}
  OBVIOUS
<1>2. PICK m \in T : \A y \in T : ~(<<y, m>> \in OpToRel(<, Nat))
  BY <1>1, WFMin, NatLessThanWellFounded
<1>3. PICK x0 \in S : m = N - x0
  OBVIOUS
<1>4. \A y \in S : y <= x0
  <2> SUFFICES ASSUME NEW y \in S PROVE y <= x0
    OBVIOUS
  <2>1. N - y \in T
    OBVIOUS
  <2>2. ~(<<N - y, m>> \in OpToRel(<, Nat))
    BY <1>2, <2>1
  <2>. QED
    BY <2>2, <1>3 DEF OpToRel
<1>5. \E x \in S : \A y \in S : x >= y
  BY <1>4
<1>. QED
  BY <1>5 DEF Max

(* A snapshot read is downward closed: a snapshot hash between the read's *)
(* start and a hash it returned is returned too, since fewer hashes lie   *)
(* below it.                                                              *)
LEMMA ReadDown ==
    ASSUME snapshot \subseteq Hashes,
           NEW from \in Nat, NEW h \in ReadSnapshot(from),
           NEW g \in snapshot, from <= g, g <= h
    PROVE  g \in ReadSnapshot(from)
<1> DEFINE above == {x \in snapshot : x >= from}
           Lh == {x \in above : x < h}
           Lg == {x \in above : x < g}
<1>1. HashMax \in Nat /\ MaxSnapReads \in Nat
  BY StateConstantsAssumption
<1>2. h \in above /\ Cardinality(Lh) < MaxSnapReads
  BY DEF ReadSnapshot
<1>3. IsFiniteSet(Lh)
  <2>1. IsFiniteSet(0..HashMax)
    BY <1>1, FS_Interval
  <2>2. Lh \subseteq 0..HashMax
    BY DEF Hashes
  <2>. QED
    BY <2>1, <2>2, FS_Subset
<1>4. Lg \subseteq Lh
  <2> SUFFICES ASSUME NEW x \in Lg PROVE x \in Lh
    OBVIOUS
  <2>1. snapshot \subseteq Nat
    BY <1>1 DEF Hashes
  <2>2. x \in snapshot /\ x >= from /\ x < g
    OBVIOUS
  <2>3. h \in Nat /\ g \in Nat /\ x \in Nat
    BY <1>2, <2>1, <2>2
  <2>4. x < h
    BY <2>2, <2>3
  <2>. QED
    BY <2>2, <2>4
<1>5. Cardinality(Lg) <= Cardinality(Lh)
  BY <1>3, <1>4, FS_Subset
<1>6. Cardinality(Lg) \in Nat /\ Cardinality(Lh) \in Nat
  BY <1>3, <1>4, FS_Subset, FS_CardinalityType
<1>. QED
  BY <1>1, <1>2, <1>5, <1>6 DEF ReadSnapshot

(* One pass of the read loop keeps the step's trie matching its progress: *)
(* the batch B is a downward-closed run of snapshot hashes of segment i   *)
(* from the step's start s0, and the new start is one past its largest.   *)
LEMMA ReadStep ==
    ASSUME NEW r \in SUBSET Hashes, NEW st \in [Segs -> Nat],
           NEW snap \in SUBSET Accounts, NEW i \in Segs, NEW s0 \in Nat,
           st[i] = s0,
           MatchesIn(r, st, snap), WrittenIn(st, snap), OrderedIn(snap),
           NEW B \in SUBSET (snap \cap SegHashes(i)), B # {},
           \A h \in B : s0 <= h,
           \A h \in B : \A g \in snap : s0 <= g /\ g <= h => g \in B,
           NEW M \in B, \A h \in B : h <= M
    PROVE  LET st1 == [st EXCEPT ![i] = M + 1]
           IN  MatchesIn(r \cup B, st1, snap) /\ WrittenIn(st1, snap)
<1> DEFINE st1 == [st EXCEPT ![i] = M + 1]
<1>1. M \in Nat /\ s0 <= M /\ M \in SegHashes(i)
  BY ConstFacts DEF SegHashes, Hashes
<1>2. SegEnd[i] \in Nat /\ snap \subseteq Nat
  BY ConstFacts DEF Hashes
<1>3. \A j \in Segs : j # i => st1[j] = st[j]
  OBVIOUS
<1>4. st1[i] = M + 1
  OBVIOUS
<1>5. MatchesIn(r \cup B, st1, snap)
  <2> SUFFICES ASSUME NEW j \in Segs, NEW h \in SegHashes(j)
               PROVE  /\ h \in r \cup B => h \in snap /\ (h < st1[j] \/ st1[j] >= SegEnd[j])
                      /\ h \in snap /\ h < st1[j] /\ ~(st1[j] >= SegEnd[j]) => h \in r \cup B
    BY DEF MatchesIn
  <2>0. h \in Nat /\ st[j] \in Nat /\ SegEnd[j] \in Nat
    BY ConstFacts DEF SegHashes, Hashes
  <2>1. /\ h \in r => h \in snap /\ (h < st[j] \/ st[j] >= SegEnd[j])
        /\ h \in snap /\ h < st[j] /\ ~(st[j] >= SegEnd[j]) => h \in r
    BY DEF MatchesIn
  <2>2. CASE j # i
    <3>1. h \notin B
      BY <2>2, SegDisjoint
    <3>. QED
      BY <2>1, <2>2, <3>1, <1>3
  <2>3. CASE j = i
    <3>1. h \in B => h \in snap /\ h < st1[j]
      BY <2>3, <1>4, <1>1, <2>0
    <3>2. h \in r => h \in snap /\ (h < st1[j] \/ st1[j] >= SegEnd[j])
      BY <2>1, <2>3, <1>4, <1>1, <2>0
    <3>3. ASSUME h \in snap, h < st1[j], ~(st1[j] >= SegEnd[j])
          PROVE  h \in r \cup B
      <4>1. CASE h < s0
        BY <4>1, <3>3, <2>1, <2>3, <1>4, <1>1, <2>0
      <4>2. CASE s0 <= h
        <5>1. h <= M
          BY <3>3, <2>3, <1>4, <1>1, <2>0
        <5>. QED
          BY <4>2, <5>1, <3>3
      <4>. QED
        BY <4>1, <4>2, <2>0
    <3>. QED
      BY <3>1, <3>2, <3>3
  <2>. QED
    BY <2>2, <2>3
<1>6. WrittenIn(st1, snap)
  <2> SUFFICES ASSUME NEW j \in Segs, NEW h \in Accounts \cap SegHashes(j),
                      h < st1[j], ~(st1[j] >= SegEnd[j])
               PROVE  h \in snap
    BY DEF WrittenIn
  <2>0. h \in Nat /\ st[j] \in Nat /\ SegEnd[j] \in Nat
    BY ConstFacts DEF SegHashes, Hashes
  <2>1. h < st[j] /\ ~(st[j] >= SegEnd[j]) => h \in snap
    BY DEF WrittenIn
  <2>2. CASE j # i
    BY <2>1, <2>2, <1>3
  <2>3. CASE j = i
    <3>1. CASE h < s0
      BY <3>1, <2>1, <2>3, <1>4, <1>1, <2>0
    <3>2. CASE s0 <= h /\ h = M
      BY <3>2, <1>1
    <3>3. CASE s0 <= h /\ h # M
      <4>1. h < M
        BY <3>3, <2>3, <1>4, <1>1, <2>0
      <4>2. M \in snap \cap SegHashes(i)
        BY <1>1
      <4>. QED
        BY <4>1, <4>2, <2>3 DEF OrderedIn
    <3>. QED
      BY <3>1, <3>2, <3>3, <2>0, <1>1
  <2>. QED
    BY <2>2, <2>3
<1>. QED
  BY <1>5, <1>6

(* State sync writing an account h that is not yet in the snapshot keeps *)
(* a trie matching its progress: h is not below a progress pointer of a   *)
(* segment in progress, since every account there is already written.     *)
LEMMA SnapGrow ==
    ASSUME NEW r, NEW st \in [Segs -> Nat], NEW snap, NEW h \in Accounts \ snap,
           MatchesIn(r, st, snap), WrittenIn(st, snap)
    PROVE  MatchesIn(r, st, snap \cup {h}) /\ WrittenIn(st, snap \cup {h})
<1>1. MatchesIn(r, st, snap \cup {h})
  <2> SUFFICES ASSUME NEW j \in Segs, NEW x \in SegHashes(j)
               PROVE  /\ x \in r => x \in snap \cup {h} /\ (x < st[j] \/ st[j] >= SegEnd[j])
                      /\ x \in snap \cup {h} /\ x < st[j] /\ ~(st[j] >= SegEnd[j]) => x \in r
    BY DEF MatchesIn
  <2>1. x = h /\ x < st[j] /\ ~(st[j] >= SegEnd[j]) => x \in snap
    BY DEF WrittenIn
  <2>. QED
    BY <2>1, Zenon DEF MatchesIn
<1>2. WrittenIn(st, snap \cup {h})
  BY DEF WrittenIn
<1>. QED
  BY <1>1, <1>2

(* State sync writes the least unwritten account of a segment, so the    *)
(* snapshot stays downward closed within each segment.                    *)
LEMMA OrderedGrow ==
    ASSUME NEW snap, NEW i \in Segs, NEW h \in Accounts \cap SegHashes(i),
           \A g \in (Accounts \ snap) \cap SegHashes(i) : h <= g,
           OrderedIn(snap)
    PROVE  OrderedIn(snap \cup {h})
<1> SUFFICES ASSUME NEW j \in Segs, NEW x \in (snap \cup {h}) \cap SegHashes(j),
                    NEW g \in Accounts \cap SegHashes(j), g < x
             PROVE  g \in snap \cup {h}
  BY DEF OrderedIn
<1>1. CASE x \in snap
  BY <1>1 DEF OrderedIn
<1>2. CASE x = h
  <2>1. j = i
    BY <1>2, SegDisjoint
  <2>2. g \in Nat /\ h \in Nat
    BY ConstFacts DEF SegHashes, Hashes
  <2>. QED
    BY <1>2, <2>1, <2>2
<1>. QED
  BY <1>1, <1>2

-----------------------------------------------------------------------------
(* The initial state, with no checkpoint and an empty snapshot.          *)
LEMMA InitIInv == Init => IInv
<1> SUFFICES ASSUME Init PROVE IInv
  OBVIOUS
<1>1. TypeOK
  <2>1. 1 \in Segs /\ SegStart \in [Segs -> Hashes] /\ MaxRestarts \in Nat
    BY ConstFacts DEF Segs, Hashes
  <2>2. SegStart[1] \in Hashes
    BY <2>1
  <2>3. [i \in Segs |-> FALSE] \in [Segs -> BOOLEAN]
    OBVIOUS
  <2>4. 0 \in 0..MaxRestarts
    BY <2>1
  <2>. QED
    BY <2>1, <2>2, <2>3, <2>4 DEF Init, TypeOK
<1>2. Bounds
  BY ConstFacts DEF Init, Bounds, Hashes
<1>3. OrderedIn(snapshot)
  BY Zenon DEF Init, OrderedIn
<1>6. WrittenIn(status, snapshot) /\ WrittenIn(ckStatus, snapshot)
  <2>1. status = SegStart /\ ckStatus = SegStart
    BY DEF Init
  <2>2. \A i \in Segs : \A h \in SegHashes(i) : ~(h < SegStart[i])
    BY ConstFacts DEF SegHashes, Hashes
  <2>. QED
    BY <2>1, <2>2 DEF WrittenIn
<1>5. MatchesIn(root, status, snapshot) /\ MatchesIn(ckRoot, ckStatus, snapshot)
  <2>1. snapshot = {} /\ root = {} /\ ckRoot = {}
    BY DEF Init
  <2>. QED
    BY <2>1, Zenon DEF MatchesIn
<1>4. ~InSegment
  BY DEF Init, InSegment
<1>. QED
  BY <1>1, <1>2, <1>3, <1>4, <1>5, <1>6 DEF IInv


(* State sync's write keeps IInv: the new account is the least unwritten  *)
(* one of its segment, and lies above every segment's progress.           *)
LEMMA SyncWriteIInv ==
    ASSUME IInv, NEW h \in Accounts, SyncWrite(h)
    PROVE  IInv'
<1>1. PICK i \in Segs : /\ h \in SegHashes(i)
                        /\ \A g \in (Accounts \ snapshot) \cap SegHashes(i) : h <= g
  BY DEF SyncWrite
<1>2. h \notin snapshot /\ snapshot' = snapshot \cup {h}
  BY DEF SyncWrite
<1>3. UNCHANGED <<syncDone, cancelled, restarts, status, root, seg, pc, start,
                  trie, ckRoot, ckStatus>>
  BY DEF SyncWrite, rebuilder
<1>4. TypeOK'
  BY <1>2, <1>3 DEF IInv, TypeOK
<1>5. OrderedIn(snapshot')
  BY <1>1, <1>2, OrderedGrow DEF IInv
<1>6. MatchesIn(root, status, snapshot') /\ WrittenIn(status, snapshot')
  <2>1. status \in [Segs -> Nat]
    BY DEF IInv, TypeOK, Hashes
  <2>. QED
    BY <1>2, <2>1, SnapGrow DEF IInv
<1>7. MatchesIn(ckRoot, ckStatus, snapshot') /\ WrittenIn(ckStatus, snapshot')
  <2>1. ckStatus \in [Segs -> Nat]
    BY DEF IInv, TypeOK, Hashes
  <2>. QED
    BY <1>2, <2>1, SnapGrow DEF IInv
<1>8. InSegment => MatchesIn(trie, Local, snapshot') /\ WrittenIn(Local, snapshot')
  <2>1. Local \in [Segs -> Nat]
    BY DEF IInv, TypeOK, Local, Hashes
  <2>. QED
    BY <1>2, <2>1, SnapGrow DEF IInv
<1>. QED
  BY <1>3, <1>4, <1>5, <1>6, <1>7, <1>8 DEF IInv, Bounds, InSegment, Local

(* Marking a segment downloaded, cancelling, and the loop's exits leave  *)
(* the tries, the pointers and the snapshot alone.                         *)
LEMMA QuietIInv ==
    ASSUME IInv,
           \/ \E i \in Segs : SyncFinish(i)
           \/ Cancel \/ AllComplete \/ LoopCancel
    PROVE  IInv'
<1>1. UNCHANGED <<snapshot, status, root, seg, start, trie, ckRoot, ckStatus, restarts>>
  BY DEF SyncFinish, Cancel, AllComplete, LoopCancel, rebuilder
<1>2. syncDone' \in [Segs -> BOOLEAN] /\ cancelled' \in BOOLEAN
  BY DEF IInv, TypeOK, SyncFinish, Cancel, AllComplete, LoopCancel, rebuilder
<1>3. pc' \in {"loop", "segment", "checkSync", "done", "stopped", "panicked"} /\ (pc' # pc => ~(pc' \in {"segment", "checkSync"}))
  BY DEF IInv, TypeOK, SyncFinish, Cancel, AllComplete, LoopCancel, rebuilder
<1>4. TypeOK'
  BY <1>1, <1>2, <1>3 DEF IInv, TypeOK
<1>. QED
  BY <1>1, <1>3, <1>4 DEF IInv, Bounds, InSegment, Local

(* Skipping a complete segment saves the live trie and status as the     *)
(* checkpoint, which then matches as they do.                              *)
LEMMA SkipSegmentIInv ==
    ASSUME IInv, SkipSegment
    PROVE  IInv'
<1>1. UNCHANGED <<snapshot, syncDone, status, root, pc, start, trie, cancelled, restarts>>
  BY DEF SkipSegment
<1>2. ckRoot' = root /\ ckStatus' = status /\ seg' = NextSeg(seg)
  BY DEF SkipSegment
<1>3. NextSeg(seg) \in Segs
  <2>1. seg \in 1..NumSegments /\ NumSegments \in Nat \ {0}
    BY ConstFacts DEF IInv, TypeOK, Segs
  <2>. QED
    BY <2>1 DEF NextSeg, Segs
<1>4. ~InSegment
  BY DEF SkipSegment, InSegment
<1>5. TypeOK'
  BY <1>1, <1>2, <1>3 DEF IInv, TypeOK
<1>. QED
  BY <1>1, <1>2, <1>4, <1>5 DEF IInv, Bounds, InSegment

(* Starting a segment step opens the live trie at the segment's current  *)
(* hash: the step's view Local is then the live status itself.            *)
LEMMA StartSegmentIInv ==
    ASSUME IInv, StartSegment
    PROVE  IInv'
<1>1. UNCHANGED <<snapshot, syncDone, status, root, seg, ckRoot, ckStatus, cancelled, restarts>>
  BY DEF StartSegment
<1>2. pc' = "segment" /\ start' = status[seg] /\ trie' = root
  BY DEF StartSegment
<1>3. Local' = status
  BY <1>1, <1>2 DEF IInv, TypeOK, Local
<1>4. TypeOK'
  BY <1>1, <1>2 DEF IInv, TypeOK
<1>5. Bounds'
  BY <1>1, <1>2 DEF IInv, Bounds, TypeOK
<1>. QED
  BY <1>1, <1>2, <1>3, <1>4, <1>5 DEF IInv

(* A restart resumes from the checkpoint, which matches its own status.  *)
LEMMA RestartIInv ==
    ASSUME IInv, Restart
    PROVE  IInv'
<1>1. UNCHANGED <<snapshot, syncDone, ckRoot, ckStatus>>
  BY DEF Restart
<1>2. /\ status' = ckStatus /\ root' = ckRoot /\ seg' = 1 /\ pc' = "loop"
      /\ start' = ckStatus[1] /\ trie' = ckRoot /\ cancelled' = FALSE
      /\ restarts' = restarts + 1 /\ restarts < MaxRestarts
  BY DEF Restart
<1>3. 1 \in Segs
  BY ConstFacts DEF Segs
<1>4. TypeOK'
  <2>1. restarts \in 0..MaxRestarts /\ MaxRestarts \in Nat
    BY ConstFacts DEF IInv, TypeOK
  <2>2. restarts' \in 0..MaxRestarts
    BY <1>2, <2>1
  <2>3. start' \in Hashes
    BY <1>2, <1>3 DEF IInv, TypeOK
  <2>. QED
    BY <1>1, <1>2, <1>3, <2>2, <2>3 DEF IInv, TypeOK
<1>5. Bounds'
  BY <1>1, <1>2 DEF IInv, Bounds, InSegment
<1>. QED
  BY <1>1, <1>2, <1>4, <1>5 DEF IInv, InSegment

(* Marking segment i complete keeps a trie matching its progress: a      *)
(* complete segment only asks that its trie accounts be snapshot accounts. *)
LEMMA CompleteSeg ==
    ASSUME NEW r, NEW st \in [Segs -> Nat], NEW snap, NEW i \in Segs,
           MatchesIn(r, st, snap), WrittenIn(st, snap)
    PROVE  LET st1 == [st EXCEPT ![i] = SegEnd[i]]
           IN  MatchesIn(r, st1, snap) /\ WrittenIn(st1, snap)
<1> DEFINE st1 == [st EXCEPT ![i] = SegEnd[i]]
<1>1. st1[i] >= SegEnd[i] /\ \A j \in Segs \ {i} : st1[j] = st[j]
  BY ConstFacts DEF Hashes
<1>2. MatchesIn(r, st1, snap)
  <2> SUFFICES ASSUME NEW j \in Segs, NEW h \in SegHashes(j)
               PROVE  /\ h \in r => h \in snap /\ (h < st1[j] \/ st1[j] >= SegEnd[j])
                      /\ h \in snap /\ h < st1[j] /\ ~(st1[j] >= SegEnd[j]) => h \in r
    BY DEF MatchesIn
  <2>1. CASE j = i
    BY <1>1, <2>1 DEF MatchesIn
  <2>2. CASE j # i
    BY <1>1, <2>2 DEF MatchesIn
  <2>. QED
    BY <2>1, <2>2
<1>3. WrittenIn(st1, snap)
  <2> SUFFICES ASSUME NEW j \in Segs, NEW h \in Accounts \cap SegHashes(j),
                      h < st1[j], ~(st1[j] >= SegEnd[j])
               PROVE  h \in snap
    BY DEF WrittenIn
  <2>1. j # i
    BY <1>1
  <2>. QED
    BY <1>1, <2>1 DEF WrittenIn
<1>. QED
  BY <1>2, <1>3

(* The end of a segment step, on cancellation or after the key           *)
(* checkpoint is read: the step's trie becomes the live trie and the      *)
(* checkpoint, at the step's start or at the segment's end.               *)
LEMMA EndSegmentIInv ==
    ASSUME IInv, InSegment, NEW st \in {start, SegEnd[seg]}, EndSegment(st),
           UNCHANGED <<snapshot, syncDone, start, trie, cancelled, restarts>>
    PROVE  IInv'
<1>1. /\ status' = [status EXCEPT ![seg] = st] /\ ckStatus' = status'
      /\ root' = trie /\ ckRoot' = trie
      /\ seg' = NextSeg(seg) /\ pc' = "loop"
  BY DEF EndSegment
<1>2. seg \in Segs /\ status \in [Segs -> Hashes] /\ SegStart[seg] <= start
  BY DEF IInv, TypeOK, Bounds
<1>3. st \in Hashes /\ SegStart[seg] <= st
  BY <1>2, ConstFacts DEF IInv, TypeOK, Hashes
<1>4. NextSeg(seg) \in Segs
  <2>1. seg \in 1..NumSegments /\ NumSegments \in Nat \ {0}
    BY <1>2, ConstFacts DEF Segs
  <2>. QED
    BY <2>1 DEF NextSeg, Segs
<1>5. TypeOK'
  BY <1>1, <1>2, <1>3, <1>4 DEF IInv, TypeOK
<1>6. Bounds'
  <2>1. \A i \in Segs : SegStart[i] <= status'[i]
    BY <1>1, <1>2, <1>3 DEF IInv, Bounds
  <2>. QED
    BY <2>1, <1>1 DEF Bounds, InSegment
<1>7. MatchesIn(trie, status', snapshot) /\ WrittenIn(status', snapshot)
  <2>0. Local \in [Segs -> Nat] /\ MatchesIn(trie, Local, snapshot) /\ WrittenIn(Local, snapshot)
    BY <1>2 DEF IInv, TypeOK, Local, Hashes
  <2>1. CASE st = start
    <3>1. status' = Local
      BY <1>1, <2>1 DEF Local
    <3>. QED
      BY <2>0, <3>1
  <2>2. CASE st = SegEnd[seg]
    <3>1. status' = [Local EXCEPT ![seg] = SegEnd[seg]]
      BY <1>1, <1>2, <2>2 DEF Local
    <3>. QED
      BY <2>0, <3>1, <1>2, CompleteSeg
  <2>. QED
    BY <2>1, <2>2
<1>. QED
  BY <1>1, <1>5, <1>6, <1>7 DEF IInv, InSegment

(* A pass of the read loop keeps IInv: the batch the segment keeps is a   *)
(* downward-closed run of the snapshot from `start`, so ReadStep applies;  *)
(* a pass whose next_hash overflows ends the task and changes nothing.    *)
LEMMA ReadBatchIInv ==
    ASSUME IInv, ReadBatch
    PROVE  IInv'
<1> DEFINE batch == {h \in ReadSnapshot(start) : h <= SegEnd[seg]}
<1>1. UNCHANGED <<snapshot, syncDone, status, root, seg, ckRoot, ckStatus, cancelled, restarts>>
  BY DEF ReadBatch
<1>0. DEFINE overflow == batch # {} /\ NextHashOverflows(Max(batch))
<1>2. ~overflow =>
      /\ trie' = trie \cup batch
      /\ start' = IF batch = {} THEN start ELSE Max(batch) + 1
      /\ pc' \in {"checkSync", "segment"}
  BY DEF ReadBatch, overflow, batch
<1>3. /\ seg \in Segs /\ start \in Hashes /\ SegStart[seg] <= start
      /\ snapshot \subseteq Hashes /\ trie \subseteq Hashes
      /\ status \in [Segs -> Hashes]
      /\ MatchesIn(trie, Local, snapshot) /\ WrittenIn(Local, snapshot)
  BY ConstFacts DEF ReadBatch, IInv, TypeOK, Bounds, InSegment
<1>4. batch \subseteq snapshot \cap SegHashes(seg) /\ \A h \in batch : start <= h
  <2> SUFFICES ASSUME NEW h \in batch
               PROVE  h \in snapshot /\ h \in SegHashes(seg) /\ start <= h
    OBVIOUS
  <2>1. h \in snapshot /\ h >= start /\ h <= SegEnd[seg]
    BY DEF batch, ReadSnapshot
  <2>2. h \in Hashes /\ h \in Nat /\ SegStart[seg] \in Nat
    BY <1>3, <2>1, ConstFacts DEF Hashes
  <2>. QED
    BY <1>3, <2>1, <2>2 DEF SegHashes
<1>5. \A h \in batch : \A g \in snapshot : start <= g /\ g <= h => g \in batch
  <2> SUFFICES ASSUME NEW h \in batch, NEW g \in snapshot, start <= g, g <= h
               PROVE  g \in batch
    OBVIOUS
  <2>1. g \in ReadSnapshot(start)
    BY <1>3, ConstFacts, ReadDown DEF Hashes
  <2>2. g <= SegEnd[seg]
    BY <1>3, <1>4, ConstFacts DEF Hashes, SegHashes
  <2>. QED
    BY <2>1, <2>2 DEF batch
<1>6. ~overflow => InSegment'
  BY <1>2 DEF InSegment
<1>9. CASE overflow
  <2>1. pc' = "panicked" /\ trie' = trie /\ start' = start
    BY <1>9 DEF ReadBatch, overflow, batch
  <2>2. TypeOK'
    BY <1>1, <2>1 DEF IInv, TypeOK
  <2>. QED
    BY <1>1, <2>1, <2>2 DEF IInv, Bounds, InSegment
<1>7. CASE batch = {}
  <2>0. ~overflow
    BY <1>7 DEF overflow
  <2>1. trie' = trie /\ start' = start
    BY <1>2, <1>7, <2>0
  <2>2. TypeOK'
    BY <1>1, <1>2, <2>0, <2>1 DEF IInv, TypeOK
  <2>. QED
    BY <1>1, <1>3, <1>6, <2>0, <2>1, <2>2 DEF IInv, Bounds, Local
<1>8. CASE batch # {} /\ ~overflow
  <2> DEFINE M == Max(batch)
  <2>1. M \in batch /\ \A h \in batch : h <= M
    BY <1>4, <1>8, ConstFacts, MaxOfBounded DEF SegHashes, Hashes
  <2>2. start' = M + 1 /\ trie' = trie \cup batch
    BY <1>2, <1>8
  <2>9. M # HashMax
    BY <1>8 DEF overflow, NextHashOverflows
  <2>3. Local \in [Segs -> Hashes] /\ Local \in [Segs -> Nat] /\ Local[seg] = start /\ start \in Nat
    BY <1>3, ConstFacts DEF Local, Hashes
  <2>4. MatchesIn(trie \cup batch, [Local EXCEPT ![seg] = M + 1], snapshot)
        /\ WrittenIn([Local EXCEPT ![seg] = M + 1], snapshot)
    <3>1. snapshot \subseteq Accounts
      BY DEF IInv, TypeOK
    <3>2. OrderedIn(snapshot)
      BY DEF IInv
    <3>. QED
      BY <1>3, <1>4, <1>5, <1>8, <2>1, <2>3, <3>1, <3>2, ReadStep
  <2>5. Local' = [Local EXCEPT ![seg] = M + 1]
    BY <1>1, <2>2 DEF Local
  <2>6. M \in Hashes /\ start <= M
    BY <1>4, <2>1 DEF SegHashes
  <2>7. TypeOK'
    <3>1. start' \in Hashes
      BY <2>2, <2>6, <2>9, ConstFacts DEF Hashes
    <3>2. trie' \subseteq Hashes
      BY <1>3, <1>4, <2>2 DEF SegHashes
    <3>. QED
      BY <1>1, <1>2, <1>8, <3>1, <3>2 DEF IInv, TypeOK
  <2>8. Bounds'
    <3>1. SegStart[seg] <= start'
      BY <1>3, <2>2, <2>6, ConstFacts DEF Hashes
    <3>. QED
      BY <1>1, <3>1 DEF IInv, Bounds
  <2>. QED
    BY <1>1, <1>6, <1>8, <2>2, <2>4, <2>5, <2>7, <2>8 DEF IInv
<1>. QED
  BY <1>7, <1>8, <1>9

(* IInv is inductive: every step of the rebuilder and of its environment *)
(* preserves it.                                                           *)
LEMMA NextIInv ==
    ASSUME IInv, [Next]_vars
    PROVE  IInv'
<1>1. CASE AllComplete \/ LoopCancel \/ (\E i \in Segs : SyncFinish(i)) \/ Cancel
  BY <1>1, QuietIInv
<1>2. CASE StartSegment
  BY <1>2, StartSegmentIInv
<1>3. CASE SkipSegment
  BY <1>3, SkipSegmentIInv
<1>4. CASE SegmentCancel
  <2>1. InSegment /\ start \in {start, SegEnd[seg]} /\ EndSegment(start)
        /\ UNCHANGED <<snapshot, syncDone, start, trie, cancelled, restarts>>
    BY <1>4 DEF SegmentCancel, InSegment
  <2>. QED
    BY <2>1, EndSegmentIInv
<1>5. CASE ReadBatch
  BY <1>5, ReadBatchIInv
<1>6. CASE CheckSync
  <2> DEFINE st == IF syncDone[seg] THEN SegEnd[seg] ELSE start
  <2>1. InSegment /\ st \in {start, SegEnd[seg]} /\ EndSegment(st)
        /\ UNCHANGED <<snapshot, syncDone, start, trie, cancelled, restarts>>
    BY <1>6 DEF CheckSync, InSegment
  <2>. QED
    BY <2>1, EndSegmentIInv
<1>7. CASE \E h \in Accounts : SyncWrite(h)
  BY <1>7, SyncWriteIInv
<1>8. CASE Restart
  BY <1>8, RestartIInv
<1>9. CASE UNCHANGED vars
  BY <1>9 DEF vars, IInv, TypeOK, Bounds, InSegment, Local
<1>. QED
  BY <1>1, <1>2, <1>3, <1>4, <1>5, <1>6, <1>7, <1>8, <1>9
     DEF Next, Rebuilder, Environment

(* Type correctness of the rebuilder and of state sync's snapshot.        *)
THEOREM StateTypeCorrect == Spec => []TypeOK
<1>1. IInv => TypeOK
  BY DEF IInv
<1>. QED
  BY <1>1, InitIInv, NextIInv, PTL DEF Spec

(* The trie that rebuild_state_trie_segment hands back, and the           *)
(* checkpoint a restarted node resumes from, hold exactly the snapshot    *)
(* accounts below each in-progress segment's hash, for every segment      *)
(* layout, account set and snapshot read size, and whatever the           *)
(* interleaving with state sync, cancellation and restarts.               *)
THEOREM TrieMatchesProgressInvariant == Spec => []TrieMatchesProgress
<1>1. IInv => TrieMatchesProgress
  BY DEF IInv, TrieMatchesProgress, Matches, MatchesIn, Complete
<1>. QED
  BY <1>1, InitIInv, NextIInv, PTL DEF Spec

-----------------------------------------------------------------------------
(* The DB checkpoint is written after every segment step, so it always    *)
(* holds the live status; inside a step, `start` has not fallen below the *)
(* segment's status, which the loop found incomplete.                     *)
CkInv ==
    /\ ckStatus = status
    /\ InSegment => status[seg] <= start /\ ~Complete(status, seg)

(* A read pass only moves `start` forwards: it jumps past the largest     *)
(* hash of a batch read from `start` on.                                  *)
LEMMA ReadBatchForward ==
    ASSUME TypeOK, ReadBatch
    PROVE  start <= start'
<1> DEFINE batch == {h \in ReadSnapshot(start) : h <= SegEnd[seg]}
<1>1. start' = start \/ start' = IF batch = {} THEN start ELSE Max(batch) + 1
  BY DEF ReadBatch
<1>2. batch \subseteq 0..HashMax /\ \A h \in batch : start <= h
  BY ConstFacts DEF batch, ReadSnapshot, TypeOK, Hashes
<1>3. start \in Nat
  BY ConstFacts DEF TypeOK, Hashes
<1>4. CASE batch # {}
  <2>1. Max(batch) \in batch
    BY <1>2, <1>4, ConstFacts, MaxOfBounded
  <2>. QED
    BY <1>1, <1>2, <1>3, <1>4, <2>1
<1>. QED
  BY <1>1, <1>3, <1>4

(* CkInv is inductive, given the type invariant.                          *)
LEMMA NextCkInv ==
    ASSUME TypeOK, TypeOK', CkInv, [Next]_vars
    PROVE  CkInv'
<1>1. CASE AllComplete \/ LoopCancel \/ SkipSegment \/ Restart
  BY <1>1 DEF AllComplete, LoopCancel, SkipSegment, Restart, CkInv, InSegment
<1>2. CASE StartSegment
  BY <1>2, ConstFacts DEF StartSegment, CkInv, InSegment, TypeOK, Hashes
<1>3. CASE SegmentCancel \/ CheckSync
  BY <1>3 DEF SegmentCancel, CheckSync, EndSegment, CkInv, InSegment
<1>4. CASE ReadBatch
  <2>1. start <= start' /\ start \in Nat /\ start' \in Nat
    BY <1>4, ReadBatchForward, ConstFacts DEF TypeOK, Hashes
  <2>2. status[seg] \in Nat
    BY ConstFacts DEF TypeOK, Hashes
  <2>3. UNCHANGED <<status, ckStatus, seg>> /\ InSegment
    BY <1>4 DEF ReadBatch, InSegment
  <2>. QED
    BY <2>1, <2>2, <2>3 DEF CkInv, Complete
<1>5. CASE (\E h \in Accounts : SyncWrite(h)) \/ (\E i \in Segs : SyncFinish(i)) \/ Cancel
  BY <1>5 DEF SyncWrite, SyncFinish, Cancel, rebuilder, CkInv, InSegment
<1>6. CASE UNCHANGED vars
  BY <1>6 DEF vars, CkInv, InSegment
<1>. QED
  BY <1>1, <1>2, <1>3, <1>4, <1>5, <1>6 DEF Next, Rebuilder, Environment

(* Under CkInv, no step moves the live status of a segment backwards.    *)
LEMMA StatusForward ==
    ASSUME TypeOK, CkInv, [Next]_vars
    PROVE  \A i \in Segs : status'[i] >= status[i]
<1> SUFFICES ASSUME NEW i \in Segs PROVE status'[i] >= status[i]
  OBVIOUS
<1>0. status[i] \in Nat /\ seg \in Segs
  BY ConstFacts DEF TypeOK, Hashes
<1>1. CASE SegmentCancel \/ CheckSync
  <2>1. status' = [status EXCEPT ![seg] = IF pc = "checkSync" /\ syncDone[seg]
                                         THEN SegEnd[seg] ELSE start]
    BY <1>1 DEF SegmentCancel, CheckSync, EndSegment
  <2>2. status[seg] <= start /\ status[seg] < SegEnd[seg] /\ SegEnd[seg] \in Nat
    BY <1>1, <1>0, ConstFacts DEF CkInv, InSegment, Complete, SegmentCancel,
                                  CheckSync, TypeOK, Hashes
  <2>. QED
    BY <1>0, <2>1, <2>2
<1>2. CASE Restart
  BY <1>0, <1>2 DEF Restart, CkInv
<1>3. CASE ~(SegmentCancel \/ CheckSync \/ Restart)
  <2>1. status' = status
    BY <1>3 DEF Next, Rebuilder, Environment, AllComplete, LoopCancel,
                StartSegment, SkipSegment, ReadBatch, SyncWrite, SyncFinish,
                Cancel, rebuilder, vars
  <2>. QED
    BY <1>0, <2>1
<1>. QED
  BY <1>1, <1>2, <1>3

(* The checkpoint written at the end of rebuild_state_trie_in_backgound's *)
(* loop body means that no step, not even a restart from it, moves a      *)
(* segment's progress backwards, for every segment layout.                *)
THEOREM ProgressNeverRegressesThm == Spec => ProgressNeverRegresses
<1>1. Init => TypeOK /\ CkInv
  <2>1. Init => TypeOK
    BY InitIInv DEF IInv
  <2>. QED
    BY <2>1 DEF Init, CkInv, InSegment
<1>2. TypeOK /\ CkInv /\ [Next]_vars /\ TypeOK' => CkInv'
  BY NextCkInv
<1>3. TypeOK /\ CkInv /\ [Next]_vars /\ CkInv'
      => [\A i \in Segs : status'[i] >= status[i] /\ ckStatus'[i] >= ckStatus[i]]_vars
  BY StatusForward DEF CkInv
<1>4. IInv /\ [Next]_vars => IInv' /\ TypeOK /\ TypeOK'
  BY NextIInv DEF IInv
<1>5. Init => IInv
  BY InitIInv
<1>. QED
  BY <1>1, <1>2, <1>3, <1>4, <1>5, PTL DEF Spec, ProgressNeverRegresses

-----------------------------------------------------------------------------
(* What the refinement needs besides IInv and CkInv: the checkpoint root  *)
(* is the live root, and a segment step's trie extends the live root      *)
(* within the current segment only, with `start` at most one past the     *)
(* segment's inclusive end.                                               *)
RInv ==
    /\ ckRoot = root
    /\ InSegment => /\ root \subseteq trie
                    /\ trie \ root \subseteq SegHashes(seg)
                    /\ start <= SegEnd[seg] + 1

(* The batch a read pass keeps lies in the current segment and in the    *)
(* snapshot, at or above `start`.                                         *)
LEMMA BatchInSegment ==
    ASSUME IInv, InSegment
    PROVE  LET batch == {h \in ReadSnapshot(start) : h <= SegEnd[seg]}
           IN  /\ batch \subseteq snapshot \cap SegHashes(seg)
               /\ \A h \in batch : start <= h
<1> DEFINE batch == {h \in ReadSnapshot(start) : h <= SegEnd[seg]}
<1> SUFFICES ASSUME NEW h \in batch
             PROVE  h \in snapshot /\ h \in SegHashes(seg) /\ start <= h
  OBVIOUS
<1>1. seg \in Segs /\ start \in Hashes /\ SegStart[seg] <= start /\ snapshot \subseteq Hashes
  BY ConstFacts DEF IInv, TypeOK, Bounds
<1>2. h \in snapshot /\ h >= start /\ h <= SegEnd[seg]
  BY DEF batch, ReadSnapshot
<1>3. h \in Hashes /\ h \in Nat /\ start \in Nat /\ SegStart[seg] \in Nat
  BY <1>1, <1>2, ConstFacts DEF Hashes
<1>. QED
  BY <1>1, <1>2, <1>3 DEF SegHashes

(* RInv is inductive, given IInv.                                         *)
LEMMA NextRInv ==
    ASSUME IInv, CkInv, RInv, [Next]_vars
    PROVE  RInv'
<1>1. CASE AllComplete \/ LoopCancel \/ SkipSegment \/ Restart
  BY <1>1 DEF AllComplete, LoopCancel, SkipSegment, Restart, RInv, InSegment
<1>2. CASE StartSegment
  <2>1. status[seg] < SegEnd[seg] /\ SegEnd[seg] \in Nat /\ status[seg] \in Nat
    BY <1>2, ConstFacts DEF StartSegment, Complete, IInv, TypeOK, Hashes
  <2>. QED
    BY <1>2, <2>1 DEF StartSegment, RInv, InSegment
<1>3. CASE SegmentCancel \/ CheckSync
  BY <1>3 DEF SegmentCancel, CheckSync, EndSegment, RInv, InSegment
<1>4. CASE ReadBatch
  <2> DEFINE batch == {h \in ReadSnapshot(start) : h <= SegEnd[seg]}
  <2>0. InSegment /\ UNCHANGED <<root, ckRoot, seg>>
    BY <1>4 DEF ReadBatch, InSegment
  <2>1. batch \subseteq snapshot \cap SegHashes(seg)
    BY <2>0, BatchInSegment
  <2>2. CASE batch # {} /\ NextHashOverflows(Max(batch))
    <3>1. pc' = "panicked"
      BY <1>4, <2>2 DEF ReadBatch
    <3>. QED
      BY <2>0, <3>1 DEF RInv, InSegment
  <2>3. CASE ~(batch # {} /\ NextHashOverflows(Max(batch)))
    <3>1. trie' = trie \cup batch
          /\ start' = IF batch = {} THEN start ELSE Max(batch) + 1
      BY <1>4, <2>3 DEF ReadBatch
    <3>2. start' <= SegEnd[seg] + 1
      <4>1. CASE batch = {}
        BY <3>1, <4>1, <2>0 DEF RInv
      <4>2. CASE batch # {}
        <5>0. batch \subseteq 0..HashMax /\ HashMax \in Nat
          BY <2>1, ConstFacts DEF SegHashes, Hashes
        <5>1. Max(batch) \in batch
          BY <5>0, <4>2, MaxOfBounded
        <5>2. Max(batch) \in Nat /\ Max(batch) <= SegEnd[seg] /\ SegEnd[seg] \in Nat
          BY <2>0, <2>1, <5>1, ConstFacts DEF SegHashes, Hashes, InSegment, IInv, TypeOK
        <5>. QED
          BY <3>1, <4>2, <5>2
      <4>. QED
        BY <4>1, <4>2
    <3>. QED
      BY <2>0, <2>1, <3>1, <3>2 DEF RInv, InSegment
  <2>. QED
    BY <2>2, <2>3
<1>5. CASE (\E h \in Accounts : SyncWrite(h)) \/ (\E i \in Segs : SyncFinish(i)) \/ Cancel
  BY <1>5 DEF SyncWrite, SyncFinish, Cancel, rebuilder, RInv, InSegment
<1>6. CASE UNCHANGED vars
  BY <1>6 DEF vars, RInv, InSegment
<1>. QED
  BY <1>1, <1>2, <1>3, <1>4, <1>5, <1>6 DEF Next, Rebuilder, Environment

-----------------------------------------------------------------------------
(* Every step of the rebuilder and of its environment is a step of the    *)
(* abstract specification or leaves its variables alone: a state sync     *)
(* write is Write, a segment step's end is Advance of that segment, the   *)
(* loop's exit is Finish, and a restart from the checkpoint changes no    *)
(* abstract variable because the checkpoint is the live state.            *)
LEMMA RefineStep ==
    ASSUME IInv, CkInv, RInv, IInv', [Next]_vars
    PROVE  [Abstract!Next]_Abstract!avars
<1>0. /\ \A i \in Segs : Abstract!SegHashes(i) = SegHashes(i)
      /\ Abstract!Hashes = Hashes /\ Abstract!Segs = Segs
      /\ \A st, i : Abstract!Complete(st, i) = Complete(st, i)
  BY DEF Abstract!SegHashes, SegHashes, Abstract!Hashes, Hashes, Abstract!Segs, Segs,
        Abstract!Complete, Complete
<1>1. CASE \E h \in Accounts : SyncWrite(h)
  <2>1. PICK h \in Accounts : SyncWrite(h)
    BY <1>1
  <2>2. h \in Accounts \ snapshot /\ snapshot' = snapshot \cup {h}
        /\ UNCHANGED <<status, root, pc>>
    BY <2>1 DEF SyncWrite, rebuilder
  <2>3. ASSUME NEW i \in Segs, h \in SegHashes(i), ~Complete(status, i)
        PROVE  status[i] <= h
    <3>1. h \in Nat /\ status[i] \in Nat
      BY <2>2, ConstFacts DEF IInv, TypeOK, Hashes
    <3>2. h < status[i] => h \in snapshot
      BY <2>3 DEF IInv, WrittenIn, Complete
    <3>. QED
      BY <2>2, <3>1, <3>2
  <2>4. Abstract!Write(h)
    BY <1>0, <2>2, <2>3 DEF Abstract!Write
  <2>. QED
    BY <2>4 DEF Abstract!Next
<1>2. CASE SegmentCancel \/ CheckSync
  <2> DEFINE st == status'[seg]
  <2>1. /\ pc \in {"segment", "checkSync"} /\ pc' = "loop"
        /\ root' = trie /\ status' = [status EXCEPT ![seg] = st]
        /\ UNCHANGED snapshot
        /\ (st = start \/ st = SegEnd[seg])
    BY <1>2 DEF SegmentCancel, CheckSync, EndSegment, IInv, TypeOK
  <2>2. InSegment
    BY <2>1 DEF InSegment
  <2>3. seg \in Segs /\ status[seg] <= start /\ ~Complete(status, seg)
    BY <2>2 DEF CkInv, IInv, TypeOK
  <2>4. st \in Hashes
    BY <2>3 DEF IInv, TypeOK
  <2>5. status[seg] <= st /\ st <= SegEnd[seg] + 1
    <3>1. status[seg] \in Nat /\ start \in Nat /\ SegEnd[seg] \in Nat
      BY <2>3, ConstFacts DEF IInv, TypeOK, Hashes
    <3>2. start <= SegEnd[seg] + 1
      BY <2>2 DEF RInv
    <3>. QED
      BY <2>1, <2>3, <3>1, <3>2 DEF Complete
  <2>6. root \subseteq root' /\ root' \ SegHashes(seg) = root \ SegHashes(seg)
    BY <2>1, <2>2 DEF RInv
  <2>7. root' \cap SegHashes(seg) \subseteq snapshot
    BY <2>1, <2>3 DEF IInv, MatchesIn
  <2>8. st < SegEnd[seg] => root' \cap SegHashes(seg) = Abstract!Below(seg, st)
    <3>1. status'[seg] = st
      OBVIOUS
    <3>2. st \in Nat /\ SegEnd[seg] \in Nat
      BY <2>3, <2>4, ConstFacts DEF Hashes
    <3>3. MatchesIn(root', status', snapshot')
      BY DEF IInv
    <3>. QED
      BY <1>0, <2>1, <2>3, <3>1, <3>2, <3>3 DEF MatchesIn, Abstract!Below
  <2>9. Abstract!Advance(seg)
    BY <1>0, <2>1, <2>3, <2>4, <2>5, <2>6, <2>7, <2>8 DEF Abstract!Advance
  <2>. QED
    BY <2>3, <2>9, <1>0 DEF Abstract!Next
<1>3. CASE AllComplete
  BY <1>0, <1>3 DEF AllComplete, Abstract!Finish, Abstract!Next
<1>4. CASE Restart
  BY <1>4 DEF Restart, CkInv, RInv, Abstract!avars
<1>5. CASE LoopCancel \/ StartSegment \/ SkipSegment \/ (\E i \in Segs : SyncFinish(i))
           \/ Cancel \/ UNCHANGED vars
  BY <1>5 DEF LoopCancel, StartSegment, SkipSegment, SyncFinish, Cancel, rebuilder,
        vars, Abstract!avars
<1>6. CASE ReadBatch
  <2>1. pc = "segment" /\ pc' \in {"panicked", "checkSync", "segment"}
        /\ UNCHANGED <<snapshot, status, root>>
    BY <1>6 DEF ReadBatch
  <2>. QED
    BY <2>1 DEF Abstract!avars
<1>. QED
  BY <1>1, <1>2, <1>3, <1>4, <1>5, <1>6 DEF Next, Rebuilder, Environment

(* rebuild_state_trie_in_backgound, with its reads, checkpoints, restarts *)
(* and cancellation, implements the abstract rebuilder of                 *)
(* StateTrieRebuildAbstract, for every segment layout and snapshot read   *)
(* size.                                                                  *)
THEOREM RefinesAbstractThm == Spec => RefinesAbstract
<1>1. Init => IInv /\ CkInv /\ RInv
  <2>1. Init => IInv
    BY InitIInv
  <2>. QED
    BY <2>1 DEF Init, CkInv, RInv, InSegment
<1>2. Init => Abstract!Init
  BY DEF Init, Abstract!Init
<1>3. IInv /\ CkInv /\ RInv /\ [Next]_vars => (IInv /\ CkInv /\ RInv)'
  <2> SUFFICES ASSUME IInv, CkInv, RInv, [Next]_vars
               PROVE  (IInv /\ CkInv /\ RInv)'
    OBVIOUS
  <2>1. IInv'
    BY NextIInv
  <2>2. CkInv'
    BY <2>1, NextCkInv DEF IInv
  <2>3. RInv'
    BY NextRInv
  <2>. QED
    BY <2>1, <2>2, <2>3
<1>4. IInv /\ CkInv /\ RInv /\ [Next]_vars => [Abstract!Next]_Abstract!avars
  BY NextIInv, RefineStep
<1>. QED
  BY <1>1, <1>2, <1>3, <1>4, PTL DEF Spec, RefinesAbstract, Abstract!Spec

=============================================================================
