------------------------- MODULE MCStateTrieRebuild -------------------------
(* The state rebuilder on two segments of three hashes each, [0, 2] and    *)
(* [3, 5], with every hash of the first segment an account and two in the *)
(* second: a snapshot read of two can cross into the next segment, come    *)
(* back filled one below a segment's end, or come back unfilled before     *)
(* state sync has written the segment's last account. One restart, so     *)
(* that a node resumes from a checkpoint taken in the middle of a segment. *)
EXTENDS StateTrieRebuild

MCSegStart == <<0, 3>>
MCSegEnd == <<2, 5>>
MCAccounts == {0, 1, 2, 3, 4}
(* No account one below a segment's end, so that a segment only ends on   *)
(* the state sync branch of rebuild_state_trie_segment.                   *)
MCAccountsSparse == {0, 2, 3, 4}
(* An account at the top of the hash space, H256::MAX, the inclusive end *)
(* of the last segment.                                                   *)
MCAccountsTop == {0, 5}
=============================================================================
