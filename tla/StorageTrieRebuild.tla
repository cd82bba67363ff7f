------------------------- MODULE StorageTrieRebuild -------------------------
(***************************************************************************)
(* The storage trie rebuilder of snap sync (sync/trie_rebuild.rs):         *)
(* rebuild_storage_trie_in_background, a tokio task fed by a bounded mpsc  *)
(* channel of batches of (account hash, expected root) pairs, which keeps  *)
(* them in pending_storages, rebuilds up to MAX_PARALLEL_REBUILDS of them  *)
(* at a time in a JoinSet, stops on the stop signal (an empty batch, sent  *)
(* by TrieRebuilder::complete) or on the node's CancellationToken, and     *)
(* saves pending_storages to the Store when it stops so that the next sync *)
(* cycle (TrieRebuilder::startup) resumes them.                            *)
(*                                                                         *)
(* A storage is a model value; what rebuild_storage_trie finds for it is   *)
(* given by the constants Mismatched (the snapshot does not hash to the    *)
(* expected root) and Incomplete (queued with                              *)
(* REBUILDER_INCOMPLETE_STORAGE_ROOT, so the root is not validated).       *)
(* The storage fetcher that sends the batches is outside this repository:  *)
(* it is modelled as sending each storage once, in batches, until the      *)
(* node is cancelled or complete() has sent the stop signal.               *)
(***************************************************************************)
EXTENDS Naturals, Sequences

CONSTANTS
    Storages,     \* the (account hash, expected root) pairs the fetcher queues
    Mismatched,   \* storages whose rebuilt root differs from the expected one
    Incomplete,   \* storages queued with REBUILDER_INCOMPLETE_STORAGE_ROOT
    ChanCap,      \* MAX_CHANNEL_MESSAGES, the channel's capacity
    MaxReads,     \* MAX_CHANNEL_READS, the limit of one recv_many
    MaxParallel,  \* MAX_PARALLEL_REBUILDS
    MaxBatch,     \* the largest batch the fetcher sends
    MaxFailures,  \* bound on Store errors met by rebuild tasks
    MaxRestarts   \* bound on the sync cycles that restart the rebuilder

ASSUME StorageConstantsAssumption ==
    /\ Mismatched \subseteq Storages /\ Incomplete \subseteq Storages
    /\ ChanCap \in Nat \ {0} /\ MaxReads \in Nat \ {0}
    /\ MaxParallel \in Nat \ {0} /\ MaxBatch \in Nat \ {0}
    /\ MaxFailures \in Nat /\ MaxRestarts \in Nat

VARIABLES
    chan,       \* the channel: a sequence of batches; <<>> is the stop signal
    pending,    \* pending_storages, a Vec extended at and popped from its end
    incoming,   \* the loop's `incoming` flag
    inflight,   \* the JoinSet: spawned storage -> "running" | "ok" | "err"
    pc,         \* "head" | "recv" | "join" | "done" | "stopped" | "failed"
    cancelled,  \* the CancellationToken
    persisted,  \* storage_trie_rebuild_pending in the Store
    healed,     \* storages given heal paths (set_storage_heal_paths)
    rebuilt,    \* storages whose rebuild_storage_trie returned Ok
    sent,       \* history: every storage the fetcher has queued, any cycle
    cycleSent,  \* history: storages queued to the current rebuilder
    restored,   \* history: the storages the current rebuilder read at startup
    stopSent,   \* complete() has sent the stop signal to this rebuilder
    closed,     \* every Sender of the channel has been dropped
    failures,   \* Store errors met so far
    restarts    \* sync cycles that restarted the rebuilder

vars == <<chan, pending, incoming, inflight, pc, cancelled, persisted, healed,
          rebuilt, sent, cycleSent, restored, stopSent, closed, failures, restarts>>

NoTasks == [s \in {} |-> "running"]

(* The storages of a Vec.                                                 *)
ToSet(s) == {s[i] : i \in DOMAIN s}

(* A batch of distinct storages, in whatever order the fetcher sends it.  *)
Batches == {b \in UNION {[1..n -> Storages] : n \in 1..MaxBatch} :
                \A i, j \in DOMAIN b : i # j => b[i] # b[j]}

(* r is buffer.iter().flatten(): the batches of ss one after the other, as *)
(* cut, at cut[0] <= cut[1] <= ... <= cut[Len(ss)], into the batches.      *)
IsFlattening(r, ss) ==
    \E cut \in [0..Len(ss) -> 0..Len(r)] :
        /\ cut[0] = 0 /\ cut[Len(ss)] = Len(r)
        /\ \A i \in 1..Len(ss) : /\ cut[i - 1] <= cut[i]
                                /\ SubSeq(r, cut[i - 1] + 1, cut[i]) = ss[i]

(* Where the flattening of ss is looked for: every sequence of storages;   *)
(* the model-checking module narrows it to the one FlattenSeq computes.    *)
FlatCandidates(ss) == Seq(Storages)

Alive == pc \in {"head", "recv", "join"}

-----------------------------------------------------------------------------
(* TrieRebuilder::startup spawns the task, which reads the pending list   *)
(* saved by the previous cycle (unwrap_or_default: empty at first).       *)
Init ==
    /\ chan = <<>>
    /\ pending = <<>>
    /\ incoming = TRUE
    /\ inflight = NoTasks
    /\ pc = "head"
    /\ cancelled = FALSE
    /\ persisted = <<>>
    /\ healed = {}
    /\ rebuilt = {}
    /\ sent = {}
    /\ cycleSent = {}
    /\ restored = {}
    /\ stopSent = FALSE
    /\ closed = FALSE
    /\ failures = 0
    /\ restarts = 0

(* The `for _ in 0..MAX_PARALLEL_REBUILDS` loop: pop up to MaxParallel    *)
(* storages from the end of p and spawn a rebuild task for each.          *)
PopCount(p) == IF Len(p) < MaxParallel THEN Len(p) ELSE MaxParallel

Spawn(p) ==
    LET k == PopCount(p)
    IN  /\ pending' = SubSeq(p, 1, Len(p) - k)
        /\ inflight' = [s \in ToSet(SubSeq(p, Len(p) - k + 1, Len(p))) |-> "running"]
        /\ pc' = "join"

(* Mutant: the loop runs `while incoming`, without the pending conjunct. *)
Exit_whileIncoming ==
    /\ pc = "head"
    /\ ~incoming
    /\ persisted' = pending
    /\ pc' = "done"
    /\ UNCHANGED <<chan, pending, incoming, inflight, cancelled, healed, rebuilt,
                   sent, cycleSent, restored, stopSent, closed, failures, restarts>>

(* The loop condition `incoming || !pending_storages.is_empty()` is false: *)
(* the loop ends and pending_storages (empty) is saved.                   *)
Exit ==
    /\ pc = "head"
    /\ ~incoming /\ pending = <<>>
    /\ persisted' = pending
    /\ pc' = "done"
    /\ UNCHANGED <<chan, pending, incoming, inflight, cancelled, healed, rebuilt,
                   sent, cycleSent, restored, stopSent, closed, failures, restarts>>

(* The token is cancelled: break, and save pending_storages to the Store. *)
CancelExit ==
    /\ pc = "head"
    /\ incoming \/ pending # <<>>
    /\ cancelled
    /\ persisted' = pending
    /\ pc' = "stopped"
    /\ UNCHANGED <<chan, pending, incoming, inflight, cancelled, healed, rebuilt,
                   sent, cycleSent, restored, stopSent, closed, failures, restarts>>

(* `!receiver.is_empty() || pending_storages.is_empty()`: go and read.    *)
ToRecv ==
    /\ pc = "head"
    /\ incoming \/ pending # <<>>
    /\ ~cancelled
    /\ chan # <<>> \/ pending = <<>>
    /\ pc' = "recv"
    /\ UNCHANGED <<chan, pending, incoming, inflight, cancelled, persisted, healed,
                   rebuilt, sent, cycleSent, restored, stopSent, closed, failures, restarts>>

(* Nothing to read: spawn rebuilds of the pending storages at once.       *)
SpawnPending ==
    /\ pc = "head"
    /\ ~cancelled
    /\ chan = <<>> /\ pending # <<>>
    /\ Spawn(pending)
    /\ UNCHANGED <<chan, incoming, cancelled, persisted, healed, rebuilt, sent,
                   cycleSent, restored, stopSent, closed, failures, restarts>>

(* Mutant: only the first batch read is looked at for the stop signal.  *)
Recv_firstBatchOnly ==
    /\ pc = "recv"
    /\ chan # <<>>
    /\ LET k   == IF Len(chan) < MaxReads THEN Len(chan) ELSE MaxReads
           buf == SubSeq(chan, 1, k)
       IN  /\ chan' = SubSeq(chan, k + 1, Len(chan))
           /\ incoming' = (buf[1] # <<>>)
           /\ \E r \in FlatCandidates(buf) :
                 IsFlattening(r, buf) /\ Spawn(pending \o r)
    /\ UNCHANGED <<cancelled, persisted, healed, rebuilt, sent, cycleSent,
                   restored, stopSent, closed, failures, restarts>>

(* recv_many waits for at least one batch and takes up to MaxReads, or   *)
(* returns at once with none once the channel is closed and empty; an     *)
(* empty batch among those read clears `incoming` (none read sets it);    *)
(* the storages are appended to pending_storages and the rebuild tasks    *)
(* are spawned.                                                           *)
Recv ==
    /\ pc = "recv"
    /\ chan # <<>> \/ closed
    /\ LET k   == IF Len(chan) < MaxReads THEN Len(chan) ELSE MaxReads
           buf == SubSeq(chan, 1, k)
       IN  /\ chan' = SubSeq(chan, k + 1, Len(chan))
           /\ incoming' = ~(\E i \in 1..k : buf[i] = <<>>)
           /\ \E r \in FlatCandidates(buf) :
                 IsFlattening(r, buf) /\ Spawn(pending \o r)
    /\ UNCHANGED <<cancelled, persisted, healed, rebuilt, sent, cycleSent,
                   restored, stopSent, closed, failures, restarts>>

(* Mutant: a root mismatch returns an error once it has queued the heal.  *)
TaskOk_errOnMismatch(s) ==
    /\ pc = "join"
    /\ s \in DOMAIN inflight /\ inflight[s] = "running"
    /\ inflight' = [inflight EXCEPT ![s] = IF s \in Mismatched \ Incomplete THEN "err" ELSE "ok"]
    /\ rebuilt' = IF s \in Mismatched \ Incomplete THEN rebuilt ELSE rebuilt \cup {s}
    /\ healed' = IF s \in Mismatched \ Incomplete THEN healed \cup {s} ELSE healed
    /\ UNCHANGED <<chan, pending, incoming, pc, cancelled, persisted, sent,
                   cycleSent, restored, stopSent, closed, failures, restarts>>

(* rebuild_storage_trie runs to the end: the storage trie is rebuilt from *)
(* the snapshot and, unless its expected root is the incomplete marker,   *)
(* a root mismatch queues the account for healing.                        *)
TaskOk(s) ==
    /\ pc = "join"
    /\ s \in DOMAIN inflight /\ inflight[s] = "running"
    /\ inflight' = [inflight EXCEPT ![s] = "ok"]
    /\ rebuilt' = rebuilt \cup {s}
    /\ healed' = IF s \in Mismatched \ Incomplete THEN healed \cup {s} ELSE healed
    /\ UNCHANGED <<chan, pending, incoming, pc, cancelled, persisted, sent,
                   cycleSent, restored, stopSent, closed, failures, restarts>>

(* A Store operation of rebuild_storage_trie fails (`?`).                  *)
TaskErr(s) ==
    /\ pc = "join"
    /\ s \in DOMAIN inflight /\ inflight[s] = "running"
    /\ failures < MaxFailures
    /\ inflight' = [inflight EXCEPT ![s] = "err"]
    /\ failures' = failures + 1
    /\ UNCHANGED <<chan, pending, incoming, pc, cancelled, persisted, healed,
                   rebuilt, sent, cycleSent, restored, stopSent, closed, restarts>>

(* join_all returns once every task has; `res?` then returns the first    *)
(* error from the rebuilder, without saving pending_storages.             *)
Join ==
    /\ pc = "join"
    /\ \A s \in DOMAIN inflight : inflight[s] # "running"
    /\ pc' = IF \E s \in DOMAIN inflight : inflight[s] = "err" THEN "failed" ELSE "head"
    /\ inflight' = NoTasks
    /\ UNCHANGED <<chan, pending, incoming, cancelled, persisted, healed, rebuilt,
                   sent, cycleSent, restored, stopSent, closed, failures, restarts>>

-----------------------------------------------------------------------------
(* The storage fetcher queues a batch of storages it has fully downloaded; *)
(* send waits while the channel is full and fails once the receiver is    *)
(* gone.                                                                  *)
Send(b) ==
    /\ Alive /\ ~cancelled /\ ~stopSent /\ ~closed
    /\ Len(chan) < ChanCap
    /\ ToSet(b) \cap sent = {}
    /\ chan' = Append(chan, b)
    /\ sent' = sent \cup ToSet(b)
    /\ cycleSent' = cycleSent \cup ToSet(b)
    /\ UNCHANGED <<pending, incoming, inflight, pc, cancelled, persisted, healed,
                   rebuilt, restored, stopSent, closed, failures, restarts>>

(* TrieRebuilder::complete sends the stop signal, an empty batch.         *)
Complete ==
    /\ Alive /\ ~cancelled /\ ~stopSent /\ ~closed
    /\ Len(chan) < ChanCap
    /\ chan' = Append(chan, <<>>)
    /\ stopSent' = TRUE
    /\ UNCHANGED <<pending, incoming, inflight, pc, cancelled, persisted, healed,
                   rebuilt, sent, cycleSent, restored, closed, failures, restarts>>

(* The TrieRebuilder, complete() included, and the storage fetcher drop  *)
(* their Senders: the channel is closed, whether or not the stop signal   *)
(* was sent.                                                              *)
DropSenders ==
    /\ ~closed
    /\ closed' = TRUE
    /\ UNCHANGED <<chan, pending, incoming, inflight, pc, cancelled, persisted,
                   healed, rebuilt, sent, cycleSent, restored, stopSent, failures,
                   restarts>>

(* The node is shut down (Ctrl+C): the token is cancelled.               *)
Cancel ==
    /\ ~cancelled
    /\ cancelled' = TRUE
    /\ UNCHANGED <<chan, pending, incoming, inflight, pc, persisted, healed,
                   rebuilt, sent, cycleSent, restored, stopSent, closed, failures, restarts>>

(* The next sync cycle finds the rebuilder not alive and starts a new one *)
(* with a new channel; the task reads back the saved pending list.        *)
Restart ==
    /\ pc \in {"stopped", "failed"}
    /\ restarts < MaxRestarts
    /\ chan' = <<>>
    /\ pending' = persisted
    /\ incoming' = TRUE
    /\ inflight' = NoTasks
    /\ pc' = "head"
    /\ cancelled' = FALSE
    /\ cycleSent' = {}
    /\ restored' = ToSet(persisted)
    /\ stopSent' = FALSE
    /\ closed' = FALSE
    /\ restarts' = restarts + 1
    /\ UNCHANGED <<persisted, healed, rebuilt, sent, failures>>

Rebuilder ==
    \/ Exit \/ CancelExit \/ ToRecv \/ SpawnPending \/ Recv \/ Join
    \/ \E s \in Storages : TaskOk(s) \/ TaskErr(s)

Environment ==
    \/ \E b \in Batches : Send(b)
    \/ Complete \/ DropSenders \/ Cancel \/ Restart

Next == Rebuilder \/ Environment

(* The rebuilder is a tokio task that the runtime keeps scheduling.       *)
Spec == Init /\ [][Next]_vars /\ WF_vars(Rebuilder)

-----------------------------------------------------------------------------
(* The types of the rebuilder's state, and: heal paths are only queued   *)
(* for a storage whose rebuild_storage_trie returned Ok, since a root      *)
(* mismatch is only warned about and healed, never an error (the doc      *)
(* comment of rebuild_storage_trie).                                       *)
TypeOK ==
    /\ chan \in Seq(Seq(Storages))
    /\ pending \in Seq(Storages)
    /\ incoming \in BOOLEAN
    /\ DOMAIN inflight \subseteq Storages
    /\ \A s \in DOMAIN inflight : inflight[s] \in {"running", "ok", "err"}
    /\ pc \in {"head", "recv", "join", "done", "stopped", "failed"}
    /\ cancelled \in BOOLEAN /\ stopSent \in BOOLEAN /\ closed \in BOOLEAN
    /\ persisted \in Seq(Storages)
    /\ healed \subseteq rebuilt /\ rebuilt \subseteq Storages
    /\ cycleSent \subseteq sent /\ sent \subseteq Storages
    /\ restored \subseteq Storages
    /\ failures \in 0..MaxFailures /\ restarts \in 0..MaxRestarts

(* complete(): when the rebuilder ends its loop normally, every storage   *)
(* queued to it before the stop signal, and every storage it resumed from *)
(* the saved pending list, has been rebuilt: the `incoming` flag and the  *)
(* loop condition never let it stop with storages still queued.           *)
CompleteMeansRebuilt ==
    pc = "done" => cycleSent \cup restored \subseteq rebuilt

(* Once complete() has sent the stop signal, the rebuilder stops: it ends *)
(* its loop, is cancelled or fails, but it never waits forever.           *)
CompleteTerminates ==
    stopSent ~> pc \in {"done", "stopped", "failed"}

(* Module doc: a cancelled rebuild "will be resumed on the next sync      *)
(* cycle". Every storage the fetcher queued is rebuilt, or still somewhere *)
(* the rebuilder will take it from: the channel, pending_storages, a      *)
(* running task, or the pending list saved in the Store.                  *)
NoLostStorage ==
    \A s \in sent :
        \/ s \in rebuilt
        \/ \E i \in 1..Len(chan) : s \in ToSet(chan[i])
        \/ s \in ToSet(pending) \cup ToSet(persisted)
        \/ s \in DOMAIN inflight /\ inflight[s] # "err"

(* rebuild_storage_trie_in_background's doc: the task "will stop ... when *)
(* the cancel token is cancelled"; and once every Sender is dropped, so   *)
(* that tokio's recv_many returns 0 on the drained channel, nothing can   *)
(* reach the rebuilder again. In both cases the task should end its loop  *)
(* (saving what is pending), neither waiting in recv_many nor re-reading  *)
(* the closed channel forever.                                            *)
StopsWhenTold ==
    cancelled \/ closed ~> pc \in {"done", "stopped", "failed"}

=============================================================================
