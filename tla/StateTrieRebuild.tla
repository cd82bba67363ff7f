-------------------------- MODULE StateTrieRebuild --------------------------
(***************************************************************************)
(* The state trie rebuilder of snap sync (sync/trie_rebuild.rs):           *)
(* rebuild_state_trie_in_backgound walks the STATE_TRIE_SEGMENTS segments  *)
(* of the account hash space round robin; rebuild_state_trie_segment       *)
(* inserts the accounts that state sync has written to the account         *)
(* snapshot, from the segment's current hash on, and marks the segment     *)
(* complete once a read comes back unfilled and state sync's key          *)
(* checkpoint says the segment is fully downloaded. After every segment    *)
(* step the root and the per-segment hashes are saved as a checkpoint,     *)
(* from which a restarted node resumes.                                    *)
(*                                                                         *)
(* Hashes are the naturals 0..HashMax; a trie is abstracted to the set of  *)
(* account hashes inserted into it, so its root is that set. State sync,   *)
(* outside this repository, is modelled as writing each account of         *)
(* Accounts to the snapshot in increasing hash order per segment, and as   *)
(* marking a segment downloaded only once all of its accounts are written. *)
(***************************************************************************)
EXTENDS Naturals, FiniteSets, FiniteSetsExt

CONSTANTS
    NumSegments,    \* STATE_TRIE_SEGMENTS
    SegStart,       \* STATE_TRIE_SEGMENTS_START
    SegEnd,         \* STATE_TRIE_SEGMENTS_END
    HashMax,        \* the largest account hash
    Accounts,       \* the account hashes of the state being downloaded
    MaxSnapReads,   \* MAX_SNAPSHOT_READS, the size of one snapshot read
    MaxRestarts     \* bound on node restarts

Segs == 1..NumSegments
Hashes == 0..HashMax

ASSUME StateConstantsAssumption ==
    /\ NumSegments \in Nat \ {0} /\ HashMax \in Nat
    /\ SegStart \in [Segs -> Hashes] /\ SegEnd \in [Segs -> Hashes]
    /\ \A i \in Segs : SegStart[i] <= SegEnd[i]
    /\ \A i, j \in Segs : i < j => SegEnd[i] < SegStart[j]
    /\ Accounts \subseteq Hashes
    /\ MaxSnapReads \in Nat \ {0} /\ MaxRestarts \in Nat

VARIABLES
    snapshot,   \* the account snapshot written by state sync
    syncDone,   \* state sync's key checkpoint is at the segment's end
    status,     \* rebuild_status[i].current
    root,       \* the state trie root (the set of accounts in it)
    seg,        \* current_segment
    pc,         \* "loop" | "segment" | "checkSync" | "done" | "stopped" | "panicked"
    start,      \* rebuild_state_trie_segment's `start`
    trie,       \* rebuild_state_trie_segment's open state trie
    ckRoot,     \* the state trie rebuild checkpoint: root
    ckStatus,   \* the state trie rebuild checkpoint: the segments' hashes
    cancelled,  \* the CancellationToken
    restarts    \* node restarts so far

vars == <<snapshot, syncDone, status, root, seg, pc, start, trie, ckRoot,
          ckStatus, cancelled, restarts>>
rebuilder == <<status, root, seg, pc, start, trie, ckRoot, ckStatus>>

(* The hashes of segment i. *)
SegHashes(i) == {h \in Hashes : SegStart[i] <= h /\ h <= SegEnd[i]}

(* SegmentStatus::complete. *)
Complete(st, i) == st[i] >= SegEnd[i]

(* read_account_snapshot(from): the MaxSnapReads smallest snapshot hashes *)
(* at or above `from`, whatever their segment.                            *)
ReadSnapshot(from) ==
    LET above == {h \in snapshot : h >= from}
    IN  {h \in above : Cardinality({g \in above : g < h}) < MaxSnapReads}

NextSeg(i) == (i % NumSegments) + 1

(* next_hash: hash + 1 as a U256, whose `+` panics on overflow.           *)
NextHashOverflows(h) == h = HashMax

-----------------------------------------------------------------------------
(* No checkpoint yet: every segment at its start, the empty trie.         *)
Init ==
    /\ snapshot = {}
    /\ syncDone = [i \in Segs |-> FALSE]
    /\ status = SegStart
    /\ root = {}
    /\ seg = 1
    /\ pc = "loop"
    /\ start = SegStart[1]
    /\ trie = {}
    /\ ckRoot = {}
    /\ ckStatus = SegStart
    /\ cancelled = FALSE
    /\ restarts = 0

(* Mutant: the DB checkpoint is only written on a skipped segment.       *)
EndSegment_noCheckpoint(st) ==
    /\ root' = trie
    /\ status' = [status EXCEPT ![seg] = st]
    /\ UNCHANGED <<ckRoot, ckStatus>>
    /\ seg' = NextSeg(seg)
    /\ pc' = "loop"

(* The segment step returns (root, start): the status is updated, the    *)
(* checkpoint saved, and the loop moves on to the next segment.           *)
EndSegment(st) ==
    /\ root' = trie
    /\ status' = [status EXCEPT ![seg] = st]
    /\ ckRoot' = trie
    /\ ckStatus' = [status EXCEPT ![seg] = st]
    /\ seg' = NextSeg(seg)
    /\ pc' = "loop"

(* The `while` condition fails: every segment is complete.               *)
AllComplete ==
    /\ pc = "loop"
    /\ \A i \in Segs : Complete(status, i)
    /\ pc' = "done"
    /\ UNCHANGED <<snapshot, syncDone, status, root, seg, start, trie, ckRoot,
                   ckStatus, cancelled, restarts>>

(* `if cancel_token.is_cancelled() { return Ok(()) }`.                    *)
LoopCancel ==
    /\ pc = "loop"
    /\ \E i \in Segs : ~Complete(status, i)
    /\ cancelled
    /\ pc' = "stopped"
    /\ UNCHANGED <<snapshot, syncDone, status, root, seg, start, trie, ckRoot,
                   ckStatus, cancelled, restarts>>

(* Mutant: the segment's trie is opened at the empty root.                *)
StartSegment_emptyTrie ==
    /\ pc = "loop"
    /\ ~cancelled
    /\ ~Complete(status, seg)
    /\ pc' = "segment"
    /\ start' = status[seg]
    /\ trie' = {}
    /\ UNCHANGED <<snapshot, syncDone, status, root, seg, ckRoot, ckStatus,
                   cancelled, restarts>>

(* The current segment is incomplete: rebuild_state_trie_segment opens   *)
(* the trie at the current root and starts from the segment's hash.       *)
StartSegment ==
    /\ pc = "loop"
    /\ ~cancelled
    /\ ~Complete(status, seg)
    /\ pc' = "segment"
    /\ start' = status[seg]
    /\ trie' = root
    /\ UNCHANGED <<snapshot, syncDone, status, root, seg, ckRoot, ckStatus,
                   cancelled, restarts>>

(* Mutant: the segment index is not taken modulo STATE_TRIE_SEGMENTS.    *)
SkipSegment_noModulo ==
    /\ pc = "loop"
    /\ \E i \in Segs : ~Complete(status, i)
    /\ ~cancelled
    /\ Complete(status, seg)
    /\ ckRoot' = root /\ ckStatus' = status
    /\ seg' = seg + 1
    /\ UNCHANGED <<snapshot, syncDone, status, root, pc, start, trie, cancelled,
                   restarts>>

(* Mutant: the move to the next segment only follows a rebuild step.      *)
SkipSegment_stay ==
    /\ pc = "loop"
    /\ \E i \in Segs : ~Complete(status, i)
    /\ ~cancelled
    /\ Complete(status, seg)
    /\ ckRoot' = root /\ ckStatus' = status
    /\ seg' = seg
    /\ UNCHANGED <<snapshot, syncDone, status, root, pc, start, trie, cancelled,
                   restarts>>

(* The current segment is complete: only the checkpoint is saved again    *)
(* and the loop moves on.                                                 *)
SkipSegment ==
    /\ pc = "loop"
    /\ \E i \in Segs : ~Complete(status, i)
    /\ ~cancelled
    /\ Complete(status, seg)
    /\ ckRoot' = root /\ ckStatus' = status
    /\ seg' = NextSeg(seg)
    /\ UNCHANGED <<snapshot, syncDone, status, root, pc, start, trie, cancelled,
                   restarts>>

(* Inside the segment step, cancellation breaks the read loop.           *)
SegmentCancel ==
    /\ pc = "segment"
    /\ cancelled
    /\ EndSegment(start)
    /\ UNCHANGED <<snapshot, syncDone, start, trie, cancelled, restarts>>

(* Mutant: the out-of-segment accounts are not removed from the batch.   *)
ReadBatch_unbounded ==
    /\ pc = "segment"
    /\ ~cancelled
    /\ LET batch == ReadSnapshot(start)
       IN  IF batch # {} /\ NextHashOverflows(Max(batch))
           THEN /\ pc' = "panicked"
                /\ UNCHANGED <<trie, start>>
           ELSE /\ trie' = trie \cup batch
                /\ start' = IF batch = {} THEN start ELSE Max(batch) + 1
                /\ pc' = IF Cardinality(batch) < MaxSnapReads THEN "checkSync" ELSE "segment"
    /\ UNCHANGED <<snapshot, syncDone, status, root, seg, ckRoot, ckStatus,
                   cancelled, restarts>>

(* One pass of the read loop: read from `start`, keep the hashes up to    *)
(* the segment's end, move `start` past the last one (next_hash, which    *)
(* panics past H256::MAX and ends the task), insert them; an unfilled     *)
(* batch ends the loop.                                                   *)
ReadBatch ==
    /\ pc = "segment"
    /\ ~cancelled
    /\ LET batch == {h \in ReadSnapshot(start) : h <= SegEnd[seg]}
       IN  IF batch # {} /\ NextHashOverflows(Max(batch))
           THEN /\ pc' = "panicked"
                /\ UNCHANGED <<trie, start>>
           ELSE /\ trie' = trie \cup batch
                /\ start' = IF batch = {} THEN start ELSE Max(batch) + 1
                /\ pc' = IF Cardinality(batch) < MaxSnapReads THEN "checkSync" ELSE "segment"
    /\ UNCHANGED <<snapshot, syncDone, status, root, seg, ckRoot, ckStatus,
                   cancelled, restarts>>

(* After an unfilled batch, the key checkpoint is read: if state sync has *)
(* finished the segment, `start` jumps to the segment's end.              *)
CheckSync ==
    /\ pc = "checkSync"
    /\ EndSegment(IF syncDone[seg] THEN SegEnd[seg] ELSE start)
    /\ UNCHANGED <<snapshot, syncDone, start, trie, cancelled, restarts>>

-----------------------------------------------------------------------------
(* State sync writes the next account of a segment it is downloading.    *)
SyncWrite(h) ==
    /\ h \in Accounts \ snapshot
    /\ \E i \in Segs :
          /\ h \in SegHashes(i)
          /\ ~syncDone[i]
          /\ \A g \in (Accounts \ snapshot) \cap SegHashes(i) : h <= g
    /\ snapshot' = snapshot \cup {h}
    /\ UNCHANGED <<syncDone, cancelled, restarts>> /\ UNCHANGED rebuilder

(* State sync has written every account of segment i: its key checkpoint *)
(* reaches the segment's end.                                             *)
SyncFinish(i) ==
    /\ ~syncDone[i]
    /\ Accounts \cap SegHashes(i) \subseteq snapshot
    /\ syncDone' = [syncDone EXCEPT ![i] = TRUE]
    /\ UNCHANGED <<snapshot, cancelled, restarts>> /\ UNCHANGED rebuilder

(* The node is shut down (Ctrl+C): the token is cancelled.               *)
Cancel ==
    /\ ~cancelled
    /\ cancelled' = TRUE
    /\ UNCHANGED <<snapshot, syncDone, restarts>> /\ UNCHANGED rebuilder

(* The node stops, cleanly or not, and starts again: the rebuilder        *)
(* resumes from the last checkpoint at segment 0.                         *)
Restart ==
    /\ pc # "done"
    /\ restarts < MaxRestarts
    /\ status' = ckStatus
    /\ root' = ckRoot
    /\ seg' = 1
    /\ pc' = "loop"
    /\ start' = ckStatus[1]
    /\ trie' = ckRoot
    /\ cancelled' = FALSE
    /\ restarts' = restarts + 1
    /\ UNCHANGED <<snapshot, syncDone, ckRoot, ckStatus>>

Rebuilder ==
    \/ AllComplete \/ LoopCancel \/ StartSegment \/ SkipSegment
    \/ SegmentCancel \/ ReadBatch \/ CheckSync

Environment ==
    \/ \E h \in Accounts : SyncWrite(h)
    \/ \E i \in Segs : SyncFinish(i)
    \/ Cancel \/ Restart

Next == Rebuilder \/ Environment

(* The rebuilder is a tokio task that the runtime keeps scheduling.       *)
Spec == Init /\ [][Next]_vars /\ WF_vars(Rebuilder)

-----------------------------------------------------------------------------
TypeOK ==
    /\ snapshot \subseteq Accounts
    /\ syncDone \in [Segs -> BOOLEAN]
    /\ status \in [Segs -> Hashes] /\ ckStatus \in [Segs -> Hashes]
    /\ root \subseteq Hashes /\ trie \subseteq Hashes /\ ckRoot \subseteq Hashes
    /\ seg \in Segs
    /\ pc \in {"loop", "segment", "checkSync", "done", "stopped", "panicked"}
    /\ start \in Hashes
    /\ cancelled \in BOOLEAN /\ restarts \in 0..MaxRestarts

(* The trie r matches the progress st: it holds only snapshot accounts,   *)
(* each below its segment's current hash or in a complete segment, and,   *)
(* for a segment still in progress, every snapshot account below the      *)
(* current hash.                                                          *)
Matches(r, st) ==
    \A i \in Segs : \A h \in SegHashes(i) :
        /\ h \in r => h \in snapshot /\ (h < st[i] \/ Complete(st, i))
        /\ h \in snapshot /\ h < st[i] /\ ~Complete(st, i) => h \in r

(* The state trie and the saved checkpoint both match the per-segment     *)
(* progress: what rebuild_state_trie_segment returns and what a restarted *)
(* node resumes from never skip or overshoot an account of a segment in   *)
(* progress.                                                              *)
TrieMatchesProgress ==
    Matches(root, status) /\ Matches(ckRoot, ckStatus)

(* rebuild_state_trie_segment's comment: the segment bound is returned    *)
(* "to notify that the segment has been fully rebuilt". Every account of  *)
(* a segment marked complete is in the state trie.                        *)
CompleteSegmentsRebuilt ==
    \A i \in Segs : Complete(status, i) => Accounts \cap SegHashes(i) \subseteq root

(* The checkpoint written after every segment step: no step, a restart   *)
(* from the checkpoint included, moves a segment's progress backwards,    *)
(* in the live status or in the saved one.                                *)
ProgressNeverRegresses ==
    [][\A i \in Segs : status'[i] >= status[i] /\ ckStatus'[i] >= ckStatus[i]]_vars

(* rebuild_state_trie_in_backgound's doc: the task "will only stop when  *)
(* state sync has finished and all account have been processed or when    *)
(* the cancel token is cancelled"; it never ends in a panic.              *)
TaskNeverPanics ==
    pc # "panicked"

(* The refinement mapping: the segment statuses are the abstract          *)
(* progress, and the abstract rebuild has finished when the task has left *)
(* its loop with every segment complete.                                  *)
Abstract == INSTANCE StateTrieRebuildAbstract
                WITH progress <- status, finished <- (pc = "done")

(* rebuild_state_trie_in_backgound, with its segment loop, snapshot reads, *)
(* checkpoint, cancellation and restarts, implements the abstract rebuild: *)
(* every step of it is a state sync write, a forward advance of the       *)
(* current segment that keeps its trie part exact, the finish, or a step  *)
(* that changes none of these.                                            *)
RefinesAbstract == Abstract!Spec

(* Once state sync has downloaded every segment, the rebuilder finishes,  *)
(* unless it is cancelled.                                                *)
SyncDoneLeadsToRebuilt ==
    (\A i \in Segs : syncDone[i]) ~> pc \in {"done", "stopped"}

=============================================================================
