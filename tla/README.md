# Formal models of ethrex: the LEVM precompiles, the snap-sync trie rebuilder and the L2 metrics gatherer

This directory holds the TLA+ modules, TLC configurations and TLAPS proofs kept
beside the source under `src/`. `PROJECT.json` lists the components, the runs, the
mutants, the map from every model definition to the lines it translates, the
findings, the hazards and the theorems.

## 1. Inventory of the source

| file | lines | what it is | status |
|---|---|---|---|
| `src/crates/vm/levm/src/precompiles.rs` | 1325 | the 17 precompiled contracts (0x01-0x11), the fork gate `is_precompile`, the dispatcher `execute_precompile`, and the metering helper `increase_precompile_consumed_gas` | modelled (`Precompiles`) |
| `src/crates/networking/p2p/sync/trie_rebuild.rs` | 394 | snap-sync trie rebuilder: two tokio tasks, one rebuilding the state trie segment by segment from the snapshot, one rebuilding storage tries fed through an mpsc channel; a `CancellationToken`; checkpoints and a pending list persisted in the store | modelled (`StateTrieRebuild`, `StorageTrieRebuild`) |
| `src/crates/l2/sequencer/metrics.rs` | 172 | L2 metrics gatherer: a GenServer that reads the OnChainProposer's batch counters and the gas prices over RPC, sets gauges, and reschedules itself with `send_after` | modelled (`MetricsGatherer`) |

`spec.md` describes only the precompile core. It names the metrics and
trie-rebuild code as out of its scope.

### How the parts interact

* **Precompiles.** The EVM frame checks an address with `is_precompile(address,
  fork)`. It then calls `execute_precompile(address, calldata, &mut
  gas_remaining)`, which matches the address to one precompile.
* **What a precompile does.** It validates its input and calls
  `increase_precompile_consumed_gas(cost, gas_remaining)` exactly once, a
  `checked_sub` that leaves the gas untouched on failure. It returns bytes or an
  error of one of two tiers:
  * `ExceptionalHalt(Precompile(e))` is a precompile failure; the caller burns
    the frame's gas.
  * `Internal(e)` is a fault of the VM itself.
* **Precompile state.** Precompiles keep no state between calls. The only
  mutable state is the caller's gas counter.
* **Trie rebuilder.** `TrieRebuilder::startup` spawns two concurrent tasks:
  * the *state* rebuilder walks 2 segments of the hash space in turns. It reads
    up to 400 accounts at a time from the snapshot that state sync is still
    writing, and persists a checkpoint after each call;
  * the *storage* rebuilder receives batches of `(account, root)` through a
    bounded channel. It rebuilds up to 15 storages in parallel and persists its
    pending list when it stops (stop signal, cancellation).
* **Metrics gatherer.** `MetricsGatherer::spawn` starts a GenServer and casts
  one `Gather`. Each `handle_cast` runs `gather_metrics` (two L1 reads of the
  batch counters, the gas prices, the rollup store, the gauges), logs any
  error, and schedules the next `Gather` with `send_after`. Its only
  interaction with the rest of the node is reading L1, which the committer and
  the proof sender advance concurrently.

## 2. Hazards (full list, each with its line, in PROJECT.json)

**Precompiles:**

* MODEXP offset overflow. Lengths fit `usize` but their sum with 96 does not,
  and the precompile returns an `InternalError` (line 367).
* ECMUL decodes the point before it tests for a zero scalar (line 545).
* The order of length check, metering and parsing in every precompile. Gas at
  exactly the price, and one short of it (line 241).
* The MODEXP B = M = 0 short cut (line 353).
* Checked versus unchecked BLS decoders per operation (line 899).
* The Blake2f flag (line 797).
* ECPAIRING infinity handling (line 667). A pair with one point at
  infinity still has its other point checked: `CoreConforms`.
* A G1 coordinate >= p (line 588, and lines 474 and 542). Whichever way the
  library's `from_bytes_be` treats it, the EIP-196 failure is not produced:
  `G1NonCanonicalRejected`.

**Trie rebuilder** (`trie_rebuild.rs`):

* The stale key-checkpoint read after an unfilled batch (line 198):
  `CompleteSegmentsRebuilt`.
* `complete()` uses `>=` against an inclusive END (line 92):
  `CompleteSegmentsRebuilt`.
* The END filter on a read that crosses into the next segment (line 180), and
  the checkpoint a restart resumes from (line 151): `TrieMatchesProgress`.
* The round robin must revisit every incomplete segment (line 153):
  `SyncDoneLeadsToRebuilt`.
* The channel contents are dropped on cancellation (line 232), and `res?`
  skips saving the pending list (line 271): `NoLostStorage`.
* `recv_many` does not observe cancellation (line 247): `StopsWhenTold`.
* The stop signal read together with other batches (line 248), and the loop
  condition (line 230): `CompleteTerminates`, `CompleteMeansRebuilt`.
* `next_hash(H256::MAX)` overflows (line 326): `TaskNeverPanics`.
* A closed channel makes `recv_many` return 0 at once, and the loop re-reads
  it forever (line 248): `StopsWhenTold`.

**Metrics gatherer** (`metrics.rs`):

* The two batch counters are read in two awaits, and L1 moves in between
  (line 115): `PublishedBatchesConsistent`, `GaugesBehindL1`.
* Every round, failed or not, must schedule exactly one successor (line 104):
  `OneGatherInFlight`, `GatherRecurs`.
* A round failing after some gauges are set (line 145): `Publish` stops at
  the first setter that returns `Err`, so `GaugesMonotone`,
  `GaugesBehindL1`, `OneGatherInFlight` and `GatherRecurs` are checked, and
  proved, with half-published gauges. That `LastVerifiedBlock` may then belong to a newer
  batch than `LastVerifiedBatch` is not a property: nothing in the code, its
  tests or the spec says the two must agree.

## 3. The precompile model: `Precompiles.tla`

**State** (`VARIABLES fork, gas, call, result`):

* `fork` is the chain fork. It takes the values Shanghai, Cancun and Prague,
  enough to observe both gates of `is_precompile`.
* `gas` is the frame's `gas_remaining`.
* `call` is the address, abstract calldata and gas of the call.
* `result` is what `execute_precompile` returned. It is `NoResult` while the
  call runs.

**Actions:**

* `Invoke(a, in, g)` is the interpreter's gated call. It is enabled only where
  `is_precompile(a, fork)` holds, and it offers gas one short of the price, the
  price, and one more (`GasOffers`).
* `Exec(a, r)` is one arm of `execute_precompile`. There is one named action per
  arm (`Ecrecover` ... `Bls12MapFp2ToG2`); their disjunction is
  `ExecutePrecompile`.
* Each behaviour is one call. Precompiles are pure, so a second call would start
  from the same state as the first.

**Data abstraction.** Each precompile is an operator `op(in, g)` returning
`[gas, res]`, written from the Rust function with its checks and early returns
in code order. The control is kept exactly, and the data is abstracted:

* Calldata is a record of the features the code branches on. A BN254 point is
  `inf`, `on` or `off`, plus `half` (one coordinate zero), `big` (>= p) and
  `nosub` for G2. A BLS point is also `nosub`, `noncanon` or `padbad`. Lengths
  are aligned or not.
* A G1 coordinate >= p is decoded by the `ark_bn254` library, which is not
  under `src/`. The constant `BNNonCanonical` names the decoder behaviours a
  run enumerates:
  * `bigOn` and `bigOff`: the library reduces the coordinate mod p, and the
    reduced point is on or off the curve (`Decoded` maps them to `on`/`off`);
  * `bigErr`: the library rejects the value, and each precompile maps that
    error the way its code does (`ParsingInputError` in ECADD,
    `InternalError::Slicing` in ECMUL, `InternalError::msg` in ECPAIRING).

  The passing run sets `BNNonCanonical = {}`; each of the two behaviours has
  a run of its own.
* The results of the cryptographic libraries are inputs: whether a signature
  recovers, whether a sum is the identity, whether a pairing product is one,
  whether a KZG proof verifies.
* An output is its kind and its length.
* `Charged(cost, g, r)` is `increase_precompile_consumed_gas` followed by the
  rest of the precompile.
* `FirstErr` is a chain of `?` checks run in order.
* `parse_point` is `parse_g1_point`/`parse_g2_point` with its `unchecked` flag.
* The prices of `gas_cost.rs` (not under `src/`) are written from the EIPs that
  spec section 4 cites, and marked `spec_modelled` in the map.

### Properties (all in `Precompiles.tla`)

* `TypeOK`: the gas is a natural number, and the call and result are
  well formed.
* `GasCharged` (spec section 3 and section 8):
  * a call that returns output has paid exactly its price;
  * `NotEnoughGas` leaves the gas untouched and was offered less than the price;
  * any other failure costs the price or nothing.

  This catches a double or a missing charge on a call that returns output, a
  wrong price, and the `checked_sub` boundary. It does not fix where a failing
  call's check sits relative to the charge: a failing call may have paid the
  price or nothing. Spec section 3, item 1, says the caller treats every
  failure as consuming all remaining gas, so the gas a failing call leaves is
  not observable, and the property leaves it open.
* `CoreConforms` covers ECRECOVER, the hashes, MODEXP, ECADD, ECPAIRING, BLAKE2F
  and the point evaluation. Each call succeeds exactly when spec sections
  4.3-4.8 say it must, and returns the output they give.
  * ECPAIRING is a biconditional too: it succeeds exactly on aligned, paid
    input whose every pair passes `SpecPairOK`, and then returns the pairing
    check `SpecPairingOut`.
  * Spec 4.6 states the curve and subgroup checks only for a pair of two
    finite points. It says nothing of a pair with one point at infinity.
  * `SpecPairOK` fills that gap with EIP-197's rule that every input point
    is valid, so the finite point of such a pair must be on its curve and,
    for G2, in the subgroup. The code does this at line 667, in the
    `(true, false)` and `(false, true)` arms of
    `handle_pairing_from_coordinates`.
  * Read literally as accepting such pairs, the spec would disagree with the
    code on `(inf, off)` and `(inf, nosub)`.
  * A regression that skips the check of the finite point breaks
    `CoreConforms`.
* `BLSConforms` does the same for the BLS12-381 suite under EIP-2537's policy
  table (spec section 4.9): padding, canonical coordinates, the curve check
  always, and the subgroup check for MSM and pairing only.
* `EcmulConforms`, `FailClosed` and `G1NonCanonicalRejected` (EIP-196/197: a
  paid call with a G1 coordinate >= p halts, rather than returning output or
  an internal error) are checked on their own. The
  code violates all three (see the findings).

### Runs

| run | cfg | expect | what it shows |
|---|---|---|---|
| `precompiles_conform` | `MCPrecompiles.cfg` | pass | `TypeOK`, `GasCharged`, `BLSConforms` and `CoreConforms` hold for every precompile, every fork and every input class; 46 153 distinct states in about 25 s |
| `ecmul_zero_scalar` | `MCPrecompiles_EcmulConforms.cfg` | violation | an off-curve point with a zero scalar gets `ParsingInputError`; spec 4.6/8 say `0·P = O` returns 64 zero bytes |
| `modexp_overflow_internal` | `MCPrecompiles_FailClosed.cfg` | violation | MODEXP with sizes that fit `usize` but overflow `size + 96` returns `InternalError::Overflow`; spec 4.5/7 say it is a parsing error |
| `bn254_g1_noncanonical` | `MCPrecompiles_G1NonCanonicalRejected.cfg` | violation | with both decoder behaviours enumerated (`BNNonCanonical = {bigOn, bigOff, bigErr}`), a paid call with a G1 coordinate >= p does not halt; TLC's trace is ECADD returning a point |

### Bounds (`MCPrecompiles.tla`)

* `UsizeMax = 255` stands in for `usize::MAX`.
* `SizeVals = {0, 1, 40, 160, 256}` are the values of the MODEXP length words.
  They cover the zero short cut, sizes that convert but whose sums with 96
  overflow (160, with 40 + 160 + 96 > 255), and sizes that do not convert (256).
  They also cover exponents longer and shorter than 32 bytes.
* `Lens = {0, 1, 32, 33}` cover the word-rounding boundary of the hash prices.
* `Rounds = {0, 12}` are the Blake2f rounds.
* `MaxPairs = 2` allows pairing and MSM inputs with 0, 1 or 2 pairs. That is
  enough for an error in the second pair after a valid first one, and for the
  MSM discount table's index past 1.

Deadlock checking is off: a behaviour ends when its one call has returned.

### Mutants

Each property of the passing run is broken by a plausible bug in the code it is
about:

| property | mutant |
|---|---|
| `TypeOK` | `Charged_unchecked`: the subtraction without `checked_sub` |
| `GasCharged` | `modexp_unmetered`: the zero short cut returns before charging 200 |
| `BLSConforms` | `bls12_add_checked`: ADD with the subgroup-checking decoder |
| `CoreConforms` | `blake2f_anyflag`: Blake2f accepting any flag byte |

## 4. The trie rebuilder models

`TrieRebuilder::startup` spawns two tokio tasks that share only the node's
`CancellationToken` and the `Store`, so each is a module of its own. In each
module, the actors outside the repository are environment actions with no
fairness:
* the snap-sync code that feeds the task: state sync writing the snapshot, or
  the storage fetcher sending batches;
* the node being shut down (`Cancel`) and started again (`Restart`, guarded as
  `alive()` would be).

The task itself is weakly fair (`WF_vars(Rebuilder)`): the tokio runtime keeps
polling a task that is ready. No fairness is assumed for the environment.

### `StorageTrieRebuild.tla` (`rebuild_storage_trie_in_background`, lines 215-322)

* **Storages.** Each storage is a model value. Two constants say what
  `rebuild_storage_trie` finds for a storage:
  * `Mismatched`: the snapshot's root differs from the expected one, so a heal
    path is written;
  * `Incomplete`: the storage is queued with `REBUILDER_INCOMPLETE_STORAGE_ROOT`.
* **State.**
  * `chan`: the bounded channel, a sequence of batches, where `<<>>` is the
    stop signal;
  * `pending`: the `Vec`, popped from its end;
  * `incoming`: the loop's flag;
  * `inflight`: the `JoinSet`;
  * `persisted`: the list saved in the Store;
  * `pc`: where the task is.
* **Actions.** One per path through the loop body:
  * `Exit`: the loop condition fails;
  * `CancelExit`: the cancel check;
  * `ToRecv` / `Recv`: `recv_many`, which waits, so cancellation is not seen
    there;
  * `SpawnPending`: spawn without reading;
  * `TaskOk` / `TaskErr`: one rebuild task ends;
  * `Join`: `join_all` and `res?`.
  * `Complete` is `TrieRebuilder::complete`'s stop signal.
  * `DropSenders` is the environment dropping every `Sender` (the
    `TrieRebuilder` and the fetcher). Once the channel is closed and empty,
    `Recv` reads zero batches at once, as tokio's `recv_many` does.
  * `Send` lets a fetcher send any batch of `Batches` whose storages were
    not sent before, in any order.
  * `pending_storages.extend(buffer.iter().flatten())` is `IsFlattening(r,
    buf)`: `r` is the concatenation of the batches read, stated by a cut
    function instead of a recursive operator so that the proofs can use it.
    `MCStorageTrieRebuild` replaces the candidate set `Seq(Storages)` with the
    single `FlattenSeq(buf)`, and an `ASSUME` there checks on every run
    that the two definitions agree on the instance's buffers.
* **Passing run** `storage_rebuild`:
  * the instance: 3 storages (one plain, one mismatched, one incomplete),
    channel capacity 2, reads of 2, 2 parallel rebuilds, batches of up to 3,
    one Store error and one restart; 15676 states;
  * `TypeOK`: the types, and `healed \subseteq rebuilt`. Heal paths are
    queued only for a storage whose `rebuild_storage_trie` returned `Ok`.
    The doc comment says a root mismatch is only a warning: the storage is
    queued for healing and the task still succeeds;
  * `CompleteMeansRebuilt`: a task that ends its loop normally has rebuilt
    every storage sent to it since it last started and every storage it
    resumed from the saved pending list. A storage sent to an earlier,
    cancelled run of the task and never saved is in neither set; the
    violation run `storage_cancel_loses_queued` shows that such a storage is
    lost;
  * `CompleteTerminates`: after the stop signal the task always ends.
  * The batch of three is needed: only a read of a full batch together with
    the stop signal leaves storages pending after `incoming` is cleared. That
    is the state in which the loop condition's second conjunct matters.

### `StateTrieRebuild.tla` (`rebuild_state_trie_in_backgound`, lines 98-210)

* **Abstraction.**
  * Hashes are `0..HashMax`.
  * A trie is the set of account hashes inserted into it, so its root is that
    set, and `state_trie.hash()` commits change nothing the properties tell
    apart.
  * `ReadSnapshot(from)` is `read_account_snapshot`: the `MaxSnapReads`
    smallest snapshot hashes at or above `from`, whatever their segment.
  * State sync writes each segment's accounts in increasing hash order. It
    marks a segment done (its key checkpoint reaches END) only once all of the
    segment's accounts are written.
* **Actions.**
  * the outer loop: `AllComplete`, `LoopCancel`, `StartSegment`, `SkipSegment`;
  * `rebuild_state_trie_segment`: `SegmentCancel`, `ReadBatch` (read, END
    filter, `next_hash`, insert), and `CheckSync` (the key-checkpoint read
    after an unfilled batch).
  * `EndSegment` is the return to the outer loop: the status update, the
    checkpoint write and the move to the next segment.
  * `Restart` resumes from the checkpoint at segment 0.
  * `next_hash` is `hash + 1` on a `U256`, whose `+` panics on overflow. A
    read whose largest hash is `HashMax` (H256::MAX) moves the task to
    `"panicked"`, where it stops. `TypeOK` keeps every pointer in
    `0..HashMax`, so the model never forms the value past the top.
* **Passing run** `state_rebuild`:
  * the instance: 2 segments `[0,2]` and `[3,5]`, accounts `{0,1,2,3,4}`,
    reads of 2, one restart; 6620 states;
  * `TrieMatchesProgress` holds for the live trie and status, and for the saved
    checkpoint, which is what a restart resumes from. For every segment it
    says:
    * the trie holds only snapshot accounts that are below the segment's
      current hash, or in a complete segment;
    * for a segment still in progress, the trie holds every snapshot account
      below the current hash;
  * `ProgressNeverRegresses` (an action property): no step moves a segment's
    hash backwards, in the live status or in the saved checkpoint. This holds
    for a restart too, because the checkpoint is written after every segment
    step (lines 149-151);
  * `SyncDoneLeadsToRebuilt`: once state sync has finished every segment, the
    task ends, or stops if it is cancelled;
  * `RefinesAbstract`: the task implements `StateTrieRebuildAbstract` (below).
* **The abstract specification** `StateTrieRebuildAbstract.tla` states what the
  rebuilder promises, without its loops, reads, checkpoint or restarts:
  * `Write(h)`: state sync adds an account, never below the progress of a
    segment still in progress;
  * `Advance(i)`: one incomplete segment moves its progress forwards, to at
    most one past its end. Its part of the trie only grows and holds snapshot
    accounts only. While the segment is still in progress, that part is
    exactly the snapshot accounts below the new progress. The other segments'
    parts are untouched;
  * `Finish`: the rebuild ends once every segment is complete.

  The refinement mapping is `progress <- status`, `finished <- (pc = "done")`;
  the snapshot and the trie map to themselves. A sync write is `Write`.
  `CheckSync` and `SegmentCancel`, which hand the step's trie and `start` back,
  are `Advance` of the current segment. `AllComplete` is `Finish`. Every other
  step, `ReadBatch` and `Restart` included, leaves the mapped state unchanged:
  a read changes only the step's private trie, and a restart reloads the
  status that is already live.

### Mutants of the rebuilder runs

| property | mutant |
|---|---|
| `TypeOK` (storage) | `TaskOk_errOnMismatch`: a root mismatch returns an error after queuing the heal, so a storage is healed whose rebuild failed |
| `CompleteMeansRebuilt` | `Exit_whileIncoming`: the loop runs `while incoming` |
| `CompleteTerminates` | `Recv_firstBatchOnly`: only the first batch read is checked for the stop signal |
| `TypeOK` (state) | `SkipSegment_noModulo`: `current_segment + 1` without `% STATE_TRIE_SEGMENTS` |
| `TrieMatchesProgress` | `ReadBatch_unbounded`: no `retain(hash <= END)` |
| `SyncDoneLeadsToRebuilt` | `SkipSegment_stay`: the segment index only moves after a rebuild step |
| `ProgressNeverRegresses` | `EndSegment_noCheckpoint`: the checkpoint is written only for a skipped segment |
| `RefinesAbstract` | `StartSegment_emptyTrie`: a segment step opens an empty trie instead of the current root |

## 5. The metrics gatherer: `MetricsGatherer.tla` (`metrics.rs`, lines 57-171)

* **State.**
  * `l1Committed`, `l1Verified`: the OnChainProposer's `lastCommittedBatch`
    and `lastVerifiedBatch`, in `0..MaxBatch`;
  * `mailbox`, `timers`: `Gather` messages queued, and `send_after` timers
    pending;
  * `pc`: where `handle_cast` is, `"idle"` waiting for a message;
  * `committed`, `verified`, `failed`: `gather_metrics`' locals and its `Err`;
  * `pubCommitted`, `pubVerified`, `pubVerifiedBlock`: the three gauges.
* **Actions.**
  * `HandleCast` takes a `Gather` (lines 94-99).
  * `ReadCommitted`, `ReadVerified` and `ReadGasPrices` are the awaits of
    lines 110-121. Each await is a step of its own, so L1 can move between
    two reads. Each read may fail, which ends the round with `failed`.
  * `Publish` is lines 123-170 in one step: the rollup-store reads (no L1
    state) and the gauge setters. `LastVerifiedBlock` is set only when the
    store returns blocks. Every setter ends in `?`: `firstErr` picks the
    setter that fails first (`LastVerifiedBlock`, the operation counts,
    `LastCommittedBatch`, `LastVerifiedBatch`, or none), and the setters
    after it do not run. The setters' code is outside `src/`; only that each
    may return `Err` is taken from the call sites. The gas-price `try_into`
    may still fail the round after the batch gauges are set.
  * `Reschedule` logs the error and calls `send_after` (lines 100-105).
  * `TimerFires` is the timer casting `Gather`.
  * `Commit` and `Verify` are L1's committer and proof sender (outside this
    file), with `lastVerifiedBatch <= lastCommittedBatch`.
* **Data left out.** Gas prices, operation counts and the connection set-up in
  `MetricsGathererState::new` are data or I/O that no property tells apart.
  The reads of the gas prices keep their failure. `handle_call` is never sent
  a message (`CallMsg` is `()`).
* **Fairness.** `WF_vars(Gatherer)`: the GenServer is a tokio task that the
  runtime keeps polling, and a `send_after` timer fires once its interval has
  passed. The model assumes each RPC call returns, with a value or an error: a
  call that hangs forever (no timeout is set on the client) is outside it. L1
  has no fairness.
* **Passing run** `metrics_loop` (`MaxBatch = 2`, 879 states):
  * `GaugesBehindL1`: no gauge shows a batch L1 has not reached.
    `LastCommittedBatch` is at most L1's committed batch, and
    `LastVerifiedBatch` and `LastVerifiedBlock` (as the batch that block
    ends) are at most its verified one. This holds although L1 moves between
    the reads and a round may stop after any setter. `TypeOK` stays in the
    module as part of the proofs' inductive invariant; no run checks it,
    because it only gives the variables' types;
  * `OneGatherInFlight`: exactly one `Gather` is alive, as a queued message, a
    pending timer or the round in progress. The loop neither dies out nor
    multiplies, whichever reads fail;
  * `GatherRecurs`: the gatherer starts a new round infinitely often;
  * `GaugesMonotone` (an action property): the batch gauges never decrease.
    Each round publishes values it read during that round from counters that
    only grow.
* **Violation run** `metrics_torn_batch_pair`: `PublishedBatchesConsistent`
  (`pubVerified <= pubCommitted`) fails; see finding 10.
* **Mutants.**

| property | mutant |
|---|---|
| `GaugesBehindL1` | `Publish_blockOfCommitted`: `get_block_numbers_by_batch(last_committed_batch)`, the blocks of the committed batch published as `LastVerifiedBlock` |
| `OneGatherInFlight`, `GatherRecurs` | `Reschedule_onSuccessOnly`: `send_after` only after a successful round |
| `GaugesMonotone` | `ReadCommitted_defaultOnError`: an RPC error read as batch 0 |

## 6. Findings

1. **ECMUL, zero scalar** (`precompiles.rs:545`, a divergence from the spec).
   `ecmul` calls `create_point_from_affine` before testing `scalar == 0`. For
   `(x, y)` off the curve with a zero scalar it fails with `ParsingInputError`.
   Spec 4.6 ("if the point is (0,0) or the scalar is zero → return 64 zero
   bytes") and 8 (`0·P == O`) say it returns zeros. Other clients also reject an
   invalid point whatever the scalar, so the code may be the intended behaviour
   and the spec's wording too loose. Either way they disagree.
2. **MODEXP overflow is an InternalError** (`precompiles.rs:367-377`, a
   divergence from the spec). Spec 4.5 says "any overflow is a parsing error",
   and section 7 says offset overflow is "always treated as an input-parsing
   error". The code's `checked_add(...).ok_or(InternalError::Overflow)` makes it
   a VM internal error instead. On a 64-bit build, `B + 96` overflows only for B
   close to 2^64; such a call could not pay the quadratic price, but the error
   is raised before metering.

Findings 3 and 4 are two paths to the same violation, so they share the run
`state_segment_complete_early` (property `CompleteSegmentsRebuilt`, accounts
`{0,1,2,3,4}`). TLC prints the shortest trace, which is finding 4's. With the
account one below a segment's end left out (accounts `{0,2,3,4}`), the only
path left is finding 3's.

3. **State rebuilder, sync race** (`trie_rebuild.rs:198`). The trace:
   * the rebuilder reads an empty batch for segment 1;
   * state sync writes accounts 0 and 2 and finishes the segment;
   * the rebuilder then reads the key checkpoint, sets `start = END`, and
     saves segment 1 as complete with an empty trie.

   The comment at lines 162-163 says the bound is returned "to notify that the
   segment has been fully rebuilt". Those accounts are never inserted, and the
   rebuilt root disagrees with the state.
4. **State rebuilder, inclusive END** (`trie_rebuild.rs:92`).
   * The filter keeps `hash <= END`, but `complete()` is `current >= end`.
   * A full read ending at `END - 1` sets `start = END`. The next, unfilled
     read returns `(root, END)` although state sync has not finished.
   * The segment is then complete, and an account at exactly `END` is never
     inserted. In TLC's trace, accounts 0 and 1 are read in a full batch and
     segment 1 (`[0, 2]`) is saved with progress 2 and account 2 missing.

   This needs an account hash exactly one below a segment bound, so it is
   practically unreachable with keccak hashes, but the code disagrees with its
   comment ("if state sync is finished ...").
5. **Storage rebuilder, cancelled channel** (`trie_rebuild.rs:232`; run
   `storage_cancel_loses_queued`, property `NoLostStorage`).
   * A batch is sent, and the node is cancelled.
   * The task breaks and saves an empty pending list. The batch in the channel
     is dropped with the receiver, and the next cycle never sees it.
   * The same property also fails through `res?` (line 271), which returns
     before anything is saved. The run sets `MaxFailures = 0` so that its
     trace shows the cancellation path that the module doc ("resumed on the
     next sync cycle") promises.
   * Whether the fetcher re-sends those storages is decided outside this
     repository.
Findings 6 and 7 are the two ways the storage rebuilder fails to stop when
told to, so they share the run `storage_never_stops` (property
`StopsWhenTold`: once the token is cancelled or every `Sender` is dropped,
the task ends). TLC's trace is finding 7's.

6. **Storage rebuilder, cancellation while waiting** (`trie_rebuild.rs:247`).
   * With nothing pending and the channel empty, the task awaits `recv_many`.
   * The token is cancelled, and no message arrives.
   * Under weak fairness the task never stops, against its doc "will stop ...
     when the cancel token is cancelled". A `select!` on
     `cancel_token.cancelled()` would be needed.
7. **Storage rebuilder, closed channel** (`trie_rebuild.rs:248`).
   * Every `Sender` is dropped, and the channel is empty.
   * `recv_many` returns 0 at once. The empty buffer holds no empty batch, so
     `incoming` is set to `true` again, and the loop re-reads the closed
     channel forever.
   * The task neither ends nor saves `pending_storages` unless the token is
     cancelled. tokio documents the 0 return as the channel being closed.
8. **State rebuilder, `next_hash` overflow** (`trie_rebuild.rs:326`; run
   `state_next_hash_overflow`, property `TaskNeverPanics`).
   * The last segment's end is inclusive, so an account at `H256::MAX` is
     read and `next_hash(H256::MAX)` is called at line 184.
   * `U256`'s `+` panics on overflow, and the task ends in a panic, against
     its doc (lines 96-97).
   * The run uses accounts `{0, 5}` with `HashMax = 5`. Such an account needs
     a keccak preimage of 2^256 - 1, so the path is unreachable in practice
     but unguarded.
9. **BN254 G1 coordinates >= p** (`precompiles.rs:474`, `:542`, `:588`; run
   `bn254_g1_noncanonical`, property `G1NonCanonicalRejected`).
   * No G1 coordinate is compared with `ALT_BN128_PRIME`, while G2's are
     (lines 627-630).
   * With a decoder that reduces mod p, ECADD of a point whose reduction is on
     the curve returns a point; EIP-196 says the call fails
     (`G1NonCanonicalRejected`). `spec.md` says nothing of it.
   * With a decoder that rejects the value, ECMUL maps the error to
     `InternalError::Slicing` and ECPAIRING to `InternalError::msg`, while
     ECADD maps it to `ParsingInputError`. Spec 7 says no input yields an
     internal error.
   * So whichever way the library behaves, the EIP's failure is not produced
     by every precompile. The run enumerates both behaviours; TLC's trace is
     ECADD returning a point.
10. **Metrics, torn batch pair** (`metrics.rs:115`; run
    `metrics_torn_batch_pair`, property `PublishedBatchesConsistent`).
    * `gather_metrics` reads `lastCommittedBatch`, then, one await later,
      `lastVerifiedBatch`.
    * L1 commits and verifies a batch in between, and the gauges show
      `LastVerifiedBatch > LastCommittedBatch`, a pair L1 never holds.
    * Nothing in the code or its comments says which snapshot the gauges
      promise, so this is a gap in what the code states.

## 7. Proofs

### `PrecompilesProofs.tla`

**Theorems.** Checked by `tlapm`, for every value of the constants:

* `TypeCorrect == Spec => []TypeOK`
* `GasChargedInvariant == Spec => []GasCharged`

**Assumptions.** The assumptions in `Precompiles.tla`:

* `UsizeMax` is a natural number >= 96.
* `MaxPairs` is in 1..3, the length of the MSM discount tables that are
  modelled.
* The input sets are sets of naturals.
* `NoResult` is not a precompile result.

**The inductive invariant.** `GasCharged` is not inductive by itself: the step
`Exec` meters the gas the frame holds *now*, so the induction needs to know that
a running call still holds exactly the gas it was given. The invariant is
`IInv == TypeOK /\ GasCharged /\ Running`, where
`Running == call # NoCall /\ result = NoResult => gas = call.gas`.

**The argument.**

* `RunOK(o, a, in, g)` states what one precompile run must satisfy.
* One lemma per precompile (`ModexpOK`, `EcpairingOK`, `Bls12MsmOK`, ...)
  proves `RunOK` for every input of its input set.
* Each of those lemmas rests on a few shared lemmas:
  * `ChargedOK`/`GoodCharged`: metering;
  * `EarlyOK`/`EarlyParsingOK`: a failure before metering;
  * `FirstErrCheck`: a chain of checks yields one of the precompile errors;
  * `ParsePointType`, `PairErrType`, `HaltOrGood`;
  * `MsmCostNat`: the discount-table price is a natural number.
* `ExecIInv` carries `RunOK` into the next state.
* `NextIInv` has one case per disjunct of `Next`: `Invoke`, stuttering, and the
  17 arms.
* The theorems follow by `PTL`.

The whole module checks from scratch in about 50 s.

### `PrecompilesConformsProofs.tla`

**Theorems.**

* `CoreConformsInvariant`: `ASSUME BNNonCanonical = {} PROVE Spec =>
  []CoreConforms`. ECRECOVER, the hashes, identity, MODEXP, ECADD,
  ECPAIRING, BLAKE2F and the point evaluation succeed exactly when spec
  4.3-4.8 say, and return what they say. For ECPAIRING, the spec's silence on
  a pair with one point at infinity is filled with EIP-197's rule, as in
  `SpecPairOK`. This holds for every `UsizeMax`,
  `MaxPairs` and input sets, provided every BN254 G1 encoding is canonical,
  as in the run `precompiles_conform`. The hypothesis is needed: with a
  non-canonical encoding the code disagrees with the spec (the violation run
  `bn254_g1_noncanonical`).
* `BLSConformsInvariant == Spec => []BLSConforms`, for every
`UsizeMax`, `MaxPairs` and input sets: each of the seven BLS12-381 precompiles
succeeds exactly when the call is paid for and EIP-2537 (spec 4.9,
`SpecBLSAccepts`) accepts its calldata, and then returns `SpecBLSOut`.

**The argument.** The invariant is `IInv /\ BLSConforms`, with `IInv` from
`PrecompilesProofs`. `BLSRunOK(o, a, in, g)` is `BLSConforms` for one run of
the code on input `in` with gas `g`.

* `FirstErrNone` and `FirstErrPair`: the code's chain of checks passes exactly
  when every check passes.
* `ParsePointUnchecked` and `ParsePointChecked`: the two decoders of
  `parse_g1_point`/`parse_g2_point` accept exactly the points the spec's
  `SpecPointValid` accepts, without and with the subgroup check.
* `ParseFpValid`: `parse_coordinate` accepts exactly the canonical field
  elements.
* `Bls12AddConforms`, `Bls12MsmConforms`, `Bls12PairingConforms`,
  `Bls12MapFpToG1Conforms`, `Bls12MapFp2ToG2Conforms`: `BLSRunOK` for each
  code path, for every input. The pairing proof walks the pairs with
  `PairIndex` (the point of index `j` is pair `(j+1) \div 2`).
* `ExecBLS` carries a conforming run into the next state: `Running` says the
  gas the run saw is the call's, so "enough gas" is `Paid(call)`.
* `NextBLS` has one case per disjunct of `Next`. `Invoke` clears the result;
  an older address's arm leaves a result `BLSConforms` says nothing of.
* For `CoreConforms` the same layout is used: `CoreRunOK` is one run, and
  there is one lemma per precompile (`EcrecoverConforms`, `HashConforms`,
  `ModexpConforms`, `EcaddConforms`, `EcpairingConforms`, `Blake2fConforms`,
  `PointEvaluationConforms`). `ModexpConforms` uses `ModexpFacts`: a length
  above `usize::MAX` already breaks the offsets' bound, so the code's two
  failure checks together are the spec's single `SpecModexpFits`.
  `BNPairConforms` shows that the code's four checks of a pair pass exactly
  when `SpecPairOK` accepts it. `ExecCore` and `NextCore` mirror `ExecBLS` and `NextBLS`.
  `ChargedOk` states once what `Charged` returns: it succeeds exactly when
  the gas covers the cost and the inner result is a success, and then it
  returns that result. The metered precompiles' lemmas each first rewrite
  the run as a `Charged`, one case per early return, and then cite
  `ChargedOk`.
* **A model fix found by the proof.** `ecadd` was written as a `CASE`
  whose arms overlap: two points at infinity satisfy three of its arms.
  TLA+ gives such a `CASE` any true arm, while TLC takes the first. So the
  model did not determine ECADD's result in the state the code handles
  first, and the proof could not go through. `ecadd` is now the code's
  `if / else if` chain (lines 483-510), and the runs are unchanged.

Liveness and `ENABLED` are beyond TLAPS. This model has no liveness property,
because each behaviour is a single terminating call.

### `StateTrieRebuildProofs.tla`

**Theorems.** Checked by `tlapm` (859 obligations), for every number and
layout of segments, every account set and every snapshot read size:

* `StateTypeCorrect == Spec => []TypeOK`
* `TrieMatchesProgressInvariant == Spec => []TrieMatchesProgress`
* `ProgressNeverRegressesThm == Spec => ProgressNeverRegresses`
* `RefinesAbstractThm == Spec => RefinesAbstract`

**Assumptions.** `StateConstantsAssumption` in `StateTrieRebuild.tla`:

* the segments are ordered and disjoint: `SegEnd[i] < SegStart[j]` for `i < j`;
* each segment has `SegStart[i] <= SegEnd[i]`;
* the accounts are hashes;
* a snapshot read returns at least one account.

**The inductive invariant for `TrieMatchesProgress`.** `TrieMatchesProgress` is
not inductive. A read pass adds hashes to the step's own open trie, and a state
sync write adds accounts to the snapshot. Neither step can be judged from the
live trie and status alone. `IInv` therefore adds:

* `MatchesIn(trie, Local, snapshot)` while a segment step runs. `Local` is the
  status with the current segment at the step's local `start`. `CheckSync` and
  `SegmentCancel` hand this trie back as the live one.
* `WrittenIn(st, snapshot)` for the live status, the checkpoint and `Local`:
  every account below an in-progress segment's hash is already written. This
  is why a sync write never lands below a pointer, where the trie would miss
  it.
* `OrderedIn(snapshot)`: state sync writes a segment's accounts in increasing
  order. This is why the accounts below the largest hash of a read batch are
  all in the snapshot.
* `Bounds`: every pointer is at or above its segment's start. So a batch read
  from `start` and cut at the segment's end lies inside the segment.

**The argument.**

* `ReadStep` is the core lemma. A read batch is a downward-closed run of the
  snapshot from `start` (`ReadDown`, through cardinalities). Moving `start` one
  past its largest element (`MaxOfBounded`) keeps the trie matching.
* `SnapGrow` and `OrderedGrow` cover a sync write.
* `CompleteSeg` covers `CheckSync` jumping to the segment's end.
* `SegDisjoint` keeps the other segments untouched.
* `NextIInv` has one case per action.

**The argument for `ProgressNeverRegresses`.** It rests on a second invariant,
`CkInv`:

* the checkpoint equals the live status;
* inside a step, `start` is at or above the segment's status, and that status
  is incomplete.

A step's result, `start` or the segment's end, is then never below the old
hash. A restart copies a checkpoint that equals the status.

**The argument for the refinement.** A third invariant, `RInv`, says:

* the saved root equals the live root, so a restart changes no mapped state;
* inside a step, the step's trie contains the live root, everything it adds
  lies in the current segment, and `start` is at most one past the segment's
  end.

`RefineStep` then maps each step, given `IInv`, `CkInv` and `RInv` before it:

* a sync write is `Write`. `WrittenIn` of the live status gives its guard;
* `CheckSync` and `SegmentCancel` are `Advance` of the current segment, with
  the new status as its target. `CkInv` gives progress, `RInv` the growth and
  the untouched segments, and `MatchesIn` of the step's trie the exact part;
* `AllComplete` is `Finish`;
* every other step is a stutter of the mapped variables.

`BatchInSegment` (a read batch lies in the snapshot, in the segment, and at or
above `start`) carries `RInv` across `ReadBatch`. The theorem follows from
`InitIInv`, `NextIInv`, `NextCkInv`, `NextRInv` and `RefineStep` by `PTL`.

### `MetricsGathererProofs.tla`

**Theorems.** Checked by `tlapm`, for every `MaxBatch`:

* `GaugesBehindL1Invariant == Spec => []GaugesBehindL1`
* `OneGatherInFlightInvariant == Spec => []OneGatherInFlight`
* `GaugesMonotoneThm == Spec => GaugesMonotone`

**Assumption.** `MaxBatchAssumption`: `MaxBatch` is a positive natural.

**The inductive invariant.** `OneGatherInFlight` is inductive together with
`TypeOK`. `GaugesMonotone` is not: `Publish` sets each batch gauge to the
value read earlier in the round, or leaves it when an earlier setter failed.
So the proof needs to know the values read are not below the gauges. `Fresh` says:

* `GaugesBehindL1`: the gauges are at most L1's counters;
* once a counter has been read in this round, the value read lies between its
  gauge and L1's counter.

L1's counters only grow, so `Fresh` survives `Commit` and `Verify`. A read
takes L1's current value. `IInv == TypeOK /\ OneGatherInFlight /\ Fresh`
holds initially (`InitIInv`) and is kept by every step (`NextIInv`).

### `StorageTrieRebuildProofs.tla`

**Theorems.** Checked by `tlapm`, for every set of storages and batches and
every bound on channel reads, parallel rebuilds, channel capacity, Store
errors and restarts (`StorageConstantsAssumption`):

* `StorageTypeCorrect == Spec => []TypeOK`
* `CompleteMeansRebuiltInvariant == Spec => []CompleteMeansRebuilt`: for
  every value of the constants, the storages sent since the task last
  started (`cycleSent`) and those it resumed (`restored`) are all rebuilt
  when the loop ends normally. It does not say that nothing is lost across
  a cancellation, which is false (`NoLostStorage`).

**The inductive invariant.** `CompleteMeansRebuilt` talks about the end of
the loop only; what makes it true is where every sent storage is before
that. `IInv` is `TypeOK /\ CompleteMeansRebuilt` and:

* `StopLast`: an empty batch in the channel is its last message, sent by
  `complete()`;
* `Drained`: `incoming` is cleared only after reading the stop signal, which
  left the channel empty;
* `Idle`: the `JoinSet` is empty outside the spawn/join part of the loop;
* `OkRebuilt`: a task that returned `Ok` has rebuilt its storage;
* `Accounted`: while the loop runs, every storage sent this cycle or resumed
  at startup is rebuilt, in the channel, in `pending_storages` or in the
  `JoinSet`.

`Exit` needs `Drained` (nothing more can arrive) and the loop condition
(nothing is pending); `Join` needs `OkRebuilt` (an error returns before the
loop ends normally).

**The argument.** Sequence lemmas (`ToSetConcat`, `SubSeqFacts`, `ToSetSub`,
`ToSetSplit`) say what `extend`, `pop` and `recv_many` do to the set of
storages; `FlatCovers` says a flattening holds every storage of its batches;
`StoredSplit` and `StoredAppend` split the channel at a read and grow it at a
send; `SpawnFacts` says the spawn loop moves storages from `pending` to the
`JoinSet` without losing any. Then one lemma per action (`RecvIInv`, ...)
and `NextIInv`.

### What stays with TLC

* `SyncDoneLeadsToRebuilt`, `CompleteTerminates`, `GatherRecurs`, and the
  violated `StopsWhenTold`, are liveness properties,
  which are beyond TLAPS.
* `PublishedBatchesConsistent` is violated, and so are the other violation
  runs' properties. Each is shown by TLC's counterexample.
* `CoreConforms` is proved only under `BNNonCanonical = {}`. Outside that
  hypothesis, the run `bn254_g1_noncanonical` shows it fails.
* That `IsFlattening` and the library's recursive `FlattenSeq` agree is checked
  by TLC on the instance's buffers only (induction over data is beyond the
  provers).

## 8. What is not modelled, and the plan

* **`metrics.rs`, data and I/O.** The gas prices, the operation counts, the
  connection set-up in `MetricsGathererState::new` and the `ethrex_metrics`
  setters' bodies (outside `src/`) are left out. Only the `Err` each may
  return is modelled, at its call site. `handle_call` is never reached:
  `CallMsg` is `()`, and no caller sends one.
* **`TrieRebuilder`'s handle** is `partly` modelled: `startup` is the two
  modules' `Init`/`Restart`, `complete`'s stop signal is `Complete`, and
  `alive()` guards `Restart`. The two tasks share no state but the token and
  the Store, so they are not composed into one module.
* **The input-shaping helpers** (`fill_with_zeros`, `get_slice_or_default`,
  the padding and scalar parsing) change no state. They are abstracted into
  the input classes and the output lengths, so they stay `partly` modelled.
* **`TrieRebuilder::complete`'s joins** and the progress-display tasks only wait
  or log; they are not steps.
* **Storage snapshot reads** inside `rebuild_storage_trie` are one step per
  storage: no other actor writes that storage's snapshot while it is queued
  (the fetcher sends only fully downloaded storages).
* **Plan for the next sittings:**
  * state and prove action properties of the storage rebuilder (the
    persisted list only changes on exit);
  * model the storage rebuilder's checkpoint and its handover to the state
    rebuilder in one composed module, to relate `TrieRebuilder::complete` to
    both tasks.
