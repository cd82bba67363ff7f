------------------------ MODULE MCStorageTrieRebuild ------------------------
(* The storage rebuilder on three storages, one of each kind the rebuild  *)
(* tells apart; two-message reads and two parallel rebuilds, so that a    *)
(* read can take a batch and the stop signal together and a JoinSet can   *)
(* hold an erroring task beside a successful one; one Store error and one *)
(* restart, so that a failed or cancelled cycle is followed by another;   *)
(* batches of up to three, so that a read of a batch and the stop signal  *)
(* leaves storages pending beyond one JoinSet.                            *)
EXTENDS StorageTrieRebuild

CONSTANTS s1, s2, s3

MCStorages == {s1, s2, s3}
MCMismatched == {s2}
MCIncomplete == {s3}

SE == INSTANCE SequencesExt

(* The flattening of a buffer, by the community module's FlattenSeq.      *)
MCFlatCandidates(ss) == {SE!FlattenSeq(ss)}

(* IsFlattening agrees with FlattenSeq on every buffer of up to two reads. *)
ASSUME FlatteningMatchesFlattenSeq ==
    \A ss \in UNION {[1..n -> Batches \cup {<<>>}] : n \in 0..2} :
        IsFlattening(SE!FlattenSeq(ss), ss)
=============================================================================
