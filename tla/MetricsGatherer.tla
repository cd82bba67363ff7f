--------------------------- MODULE MetricsGatherer ---------------------------
(***************************************************************************)
(* The L2 metrics gatherer of src/crates/l2/sequencer/metrics.rs: a        *)
(* GenServer that, on each Gather message, reads the last committed and    *)
(* the last verified batch of the OnChainProposer from L1, the two gas     *)
(* prices, and from the rollup store the blocks of the verified batch and  *)
(* the operation counts, publishes them, and schedules its next Gather     *)
(* with send_after whether or not the round failed.                        *)
(*                                                                         *)
(* L1 is the OnChainProposer's pair of counters, which the committer and  *)
(* the proof sender advance (lastVerifiedBatch <= lastCommittedBatch).    *)
(* Every await on L1 is a step of its own, so that L1 may move between    *)
(* two reads; an RPC error is a nondeterministic failure of the read.     *)
(* The rollup-store reads and the metric setters, which read no L1 state, *)
(* are one step.  Gas prices and operation counts are data the properties *)
(* do not tell apart and are left out; their reads keep their failure.    *)
(***************************************************************************)
EXTENDS Naturals

CONSTANT MaxBatch   \* the last batch L1 reaches in a run

ASSUME MaxBatchAssumption == MaxBatch \in Nat \ {0}

VARIABLES
    l1Committed,      \* OnChainProposer lastCommittedBatch
    l1Verified,       \* OnChainProposer lastVerifiedBatch
    mailbox,          \* Gather messages queued for the GenServer
    timers,           \* send_after timers not yet fired
    pc,               \* where handle_cast is: "idle" waits for a message
    committed,        \* gather_metrics' local last_committed_batch
    verified,         \* gather_metrics' local last_verified_batch
    failed,           \* gather_metrics returned an Err
    pubCommitted,     \* gauge LastCommittedBatch
    pubVerified,      \* gauge LastVerifiedBatch
    pubVerifiedBlock  \* gauge LastVerifiedBlock, as the batch it ends

l1 == <<l1Committed, l1Verified>>
gauges == <<pubCommitted, pubVerified, pubVerifiedBlock>>
round == <<committed, verified, failed>>
vars == <<l1Committed, l1Verified, mailbox, timers, pc, committed, verified, failed,
          pubCommitted, pubVerified, pubVerifiedBlock>>

Batches == 0..MaxBatch

(* MetricsGatherer::spawn has started the GenServer and cast one Gather;   *)
(* the gauges start at zero.                                              *)
Init ==
    /\ l1Committed = 0 /\ l1Verified = 0
    /\ mailbox = 1 /\ timers = 0
    /\ pc = "idle"
    /\ committed = 0 /\ verified = 0 /\ failed = FALSE
    /\ pubCommitted = 0 /\ pubVerified = 0 /\ pubVerifiedBlock = 0

-----------------------------------------------------------------------------
(* handle_cast takes the next Gather message.                             *)
HandleCast ==
    /\ pc = "idle"
    /\ mailbox > 0
    /\ mailbox' = mailbox - 1
    /\ pc' = "lastCommitted"
    /\ UNCHANGED <<l1, timers, round, gauges>>

(* Mutant: an RPC error read as batch 0 (unwrap_or_default), the round    *)
(* going on.                                                              *)
ReadCommitted_defaultOnError ==
    /\ pc = "lastCommitted"
    /\ committed' \in {l1Committed, 0}
    /\ pc' = "lastVerified"
    /\ UNCHANGED <<l1, mailbox, timers, verified, failed, gauges>>

(* get_last_committed_batch: the value L1 holds now, or an RPC error that  *)
(* ends the round.                                                        *)
ReadCommitted ==
    /\ pc = "lastCommitted"
    /\ \/ /\ committed' = l1Committed
          /\ pc' = "lastVerified"
          /\ UNCHANGED failed
       \/ /\ pc' = "reschedule"
          /\ failed' = TRUE
          /\ UNCHANGED committed
    /\ UNCHANGED <<l1, mailbox, timers, verified, gauges>>

(* get_last_verified_batch, one await later.                              *)
ReadVerified ==
    /\ pc = "lastVerified"
    /\ \/ /\ verified' = l1Verified
          /\ pc' = "gasPrices"
          /\ UNCHANGED failed
       \/ /\ pc' = "reschedule"
          /\ failed' = TRUE
          /\ UNCHANGED verified
    /\ UNCHANGED <<l1, mailbox, timers, committed, gauges>>

(* The L1 and L2 get_gas_price calls: either may fail.                    *)
ReadGasPrices ==
    /\ pc = "gasPrices"
    /\ \/ pc' = "publish" /\ UNCHANGED failed
       \/ pc' = "reschedule" /\ failed' = TRUE
    /\ UNCHANGED <<l1, mailbox, timers, committed, verified, gauges>>

(* Mutant: the blocks looked up are those of last_committed_batch.        *)
Publish_blockOfCommitted ==
    /\ pc = "publish"
    /\ \E found \in BOOLEAN, firstErr \in 1..5 :
          /\ firstErr = 1 => found
          /\ pubVerifiedBlock' = IF found /\ firstErr > 1 THEN committed ELSE pubVerifiedBlock
          /\ pubCommitted' = IF firstErr > 3 THEN committed ELSE pubCommitted
          /\ pubVerified' = IF firstErr > 4 THEN verified ELSE pubVerified
          /\ failed' \in IF firstErr < 5 THEN {TRUE} ELSE BOOLEAN
    /\ pc' = "reschedule"
    /\ UNCHANGED <<l1, mailbox, timers, committed, verified>>

(* get_block_numbers_by_batch(last_verified_batch) sets LastVerifiedBlock *)
(* only when the store returns a non-empty list; then the operation       *)
(* counts and the two batch gauges are set, then the gas prices, whose    *)
(* try_into into u64 may still fail the round.  Every setter ends in `?`: *)
(* firstErr is the setter that fails first (1 LastVerifiedBlock, 2 the    *)
(* operation counts, 3 LastCommittedBatch, 4 LastVerifiedBatch, 5 none),  *)
(* and the setters after it do not run.                                    *)
Publish ==
    /\ pc = "publish"
    /\ \E found \in BOOLEAN, firstErr \in 1..5 :
          /\ firstErr = 1 => found
          /\ pubVerifiedBlock' = IF found /\ firstErr > 1 THEN verified ELSE pubVerifiedBlock
          /\ pubCommitted' = IF firstErr > 3 THEN committed ELSE pubCommitted
          /\ pubVerified' = IF firstErr > 4 THEN verified ELSE pubVerified
          /\ failed' \in IF firstErr < 5 THEN {TRUE} ELSE BOOLEAN
    /\ pc' = "reschedule"
    /\ UNCHANGED <<l1, mailbox, timers, committed, verified>>

(* Mutant: the next Gather is only scheduled after a successful round.    *)
Reschedule_onSuccessOnly ==
    /\ pc = "reschedule"
    /\ timers' = IF failed THEN timers ELSE timers + 1
    /\ pc' = "idle"
    /\ failed' = FALSE
    /\ UNCHANGED <<l1, mailbox, committed, verified, gauges>>

(* The error is only logged; send_after schedules the next Gather after   *)
(* check_interval and handle_cast returns NoReply.                        *)
Reschedule ==
    /\ pc = "reschedule"
    /\ timers' = timers + 1
    /\ pc' = "idle"
    /\ failed' = FALSE
    /\ UNCHANGED <<l1, mailbox, committed, verified, gauges>>

(* A send_after timer expires and casts Gather.                           *)
TimerFires ==
    /\ timers > 0
    /\ timers' = timers - 1
    /\ mailbox' = mailbox + 1
    /\ UNCHANGED <<l1, pc, round, gauges>>

-----------------------------------------------------------------------------
(* The L1 committer commits the next batch.                               *)
Commit ==
    /\ l1Committed < MaxBatch
    /\ l1Committed' = l1Committed + 1
    /\ UNCHANGED <<l1Verified, mailbox, timers, pc, round, gauges>>

(* The proof sender verifies the next committed batch.                    *)
Verify ==
    /\ l1Verified < l1Committed
    /\ l1Verified' = l1Verified + 1
    /\ UNCHANGED <<l1Committed, mailbox, timers, pc, round, gauges>>

Gatherer ==
    \/ HandleCast \/ ReadCommitted \/ ReadVerified \/ ReadGasPrices
    \/ Publish \/ Reschedule \/ TimerFires

Next == Gatherer \/ Commit \/ Verify

(* The GenServer is a tokio task the runtime keeps polling, and a         *)
(* send_after timer fires once its interval has passed.                   *)
Spec == Init /\ [][Next]_vars /\ WF_vars(Gatherer)

-----------------------------------------------------------------------------
TypeOK ==
    /\ l1Committed \in Batches /\ l1Verified \in Batches
    /\ mailbox \in Nat /\ timers \in Nat
    /\ pc \in {"idle", "lastCommitted", "lastVerified", "gasPrices", "publish", "reschedule"}
    /\ committed \in Batches /\ verified \in Batches /\ failed \in BOOLEAN
    /\ pubCommitted \in Batches /\ pubVerified \in Batches /\ pubVerifiedBlock \in Batches

(* The gauges never run ahead of L1: LastCommittedBatch shows a batch L1 *)
(* has committed, and LastVerifiedBatch and LastVerifiedBlock (as the     *)
(* batch that block ends) a batch L1 has verified, although L1 moves      *)
(* between the reads and a round may stop after any setter.               *)
GaugesBehindL1 ==
    /\ pubCommitted <= l1Committed
    /\ pubVerified <= l1Verified /\ pubVerifiedBlock <= l1Verified

(* Exactly one Gather is alive at any time, as a queued message, a        *)
(* pending send_after timer or the round in progress: spawn casts one and *)
(* every round, failed or not, schedules exactly one successor, so the    *)
(* loop neither dies out nor multiplies.                                  *)
OneGatherInFlight ==
    mailbox + timers + (IF pc = "idle" THEN 0 ELSE 1) = 1

(* Whatever the L1 and L2 RPCs do, the gatherer keeps starting new rounds: *)
(* an error in gather_metrics is logged and the next Gather is still      *)
(* scheduled.                                                             *)
GatherRecurs == []<>(pc = "lastCommitted")

(* The batch gauges never move backwards: each round publishes what it    *)
(* read from an L1 whose counters only grow.                              *)
GaugesMonotone ==
    [][pubCommitted' >= pubCommitted /\ pubVerified' >= pubVerified]_vars

(* On L1, lastVerifiedBatch <= lastCommittedBatch always holds; the       *)
(* gauges should show a pair L1 could hold.                               *)
PublishedBatchesConsistent == pubVerified <= pubCommitted

=============================================================================
