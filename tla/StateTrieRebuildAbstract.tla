----------------------- MODULE StateTrieRebuildAbstract -----------------------
(***************************************************************************)
(* What the state trie rebuilder of sync/trie_rebuild.rs promises, without *)
(* its loops, reads, checkpoint or restarts: the trie grows one segment at *)
(* a time; advancing a segment moves its progress forwards and leaves the  *)
(* trie's part in that segment holding snapshot accounts only, and, unless *)
(* the segment is now complete, exactly those below its new progress; the *)
(* other segments are untouched; the rebuild finishes only once every      *)
(* segment is complete. State sync only ever adds accounts to the          *)
(* snapshot at or above the progress of a segment still in progress.      *)
(***************************************************************************)
EXTENDS Naturals

CONSTANTS NumSegments, SegStart, SegEnd, HashMax, Accounts

VARIABLES
    snapshot,   \* the account snapshot
    progress,   \* each segment's current hash (SegmentStatus::current)
    root,       \* the state trie, as the set of accounts in it
    finished    \* the rebuild has ended with every segment complete

avars == <<snapshot, progress, root, finished>>

Segs == 1..NumSegments
Hashes == 0..HashMax
SegHashes(i) == {h \in Hashes : SegStart[i] <= h /\ h <= SegEnd[i]}
Complete(st, i) == st[i] >= SegEnd[i]

(* The snapshot accounts of segment i below hash p.                       *)
Below(i, p) == {h \in snapshot \cap SegHashes(i) : h < p}

Init ==
    /\ snapshot = {}
    /\ progress = SegStart
    /\ root = {}
    /\ finished = FALSE

(* State sync writes an account, never below an in-progress segment's     *)
(* progress.                                                              *)
Write(h) ==
    /\ h \in Accounts \ snapshot
    /\ \A i \in Segs : h \in SegHashes(i) /\ ~Complete(progress, i) => progress[i] <= h
    /\ snapshot' = snapshot \cup {h}
    /\ UNCHANGED <<progress, root, finished>>

(* One segment moves to hash p, at most one past its inclusive end; its   *)
(* part of the trie only grows, holds snapshot accounts only and, if the  *)
(* segment is still in progress, holds exactly those below p.             *)
Advance(i) ==
    /\ ~finished
    /\ ~Complete(progress, i)
    /\ \E p \in Hashes :
          /\ progress[i] <= p /\ p <= SegEnd[i] + 1
          /\ progress' = [progress EXCEPT ![i] = p]
          /\ root \subseteq root'
          /\ root' \ SegHashes(i) = root \ SegHashes(i)
          /\ root' \cap SegHashes(i) \subseteq snapshot
          /\ p < SegEnd[i] => root' \cap SegHashes(i) = Below(i, p)
    /\ UNCHANGED <<snapshot, finished>>

(* The rebuild ends once every segment is complete.                      *)
Finish ==
    /\ ~finished
    /\ \A i \in Segs : Complete(progress, i)
    /\ finished' = TRUE
    /\ UNCHANGED <<snapshot, progress, root>>

Next ==
    \/ \E h \in Accounts : Write(h)
    \/ \E i \in Segs : Advance(i)
    \/ Finish

Spec == Init /\ [][Next]_avars

=============================================================================
