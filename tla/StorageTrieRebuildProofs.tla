----------------------- MODULE StorageTrieRebuildProofs -----------------------
(***************************************************************************)
(* Proofs about the storage trie rebuilder, for every set of storages,     *)
(* every channel capacity, read limit, parallelism and batch size, and     *)
(* every bound on Store errors and restarts.                               *)
(***************************************************************************)
EXTENDS StorageTrieRebuild, TLAPS

(* The storages in a sequence of batches.                                 *)
Stored(c) == UNION {ToSet(c[i]) : i \in 1..Len(c)}

(* The storages in the channel's batches.                                 *)
InChan == Stored(chan)

(* The stop signal is sent by complete() only, once, and nothing is sent  *)
(* after it: an empty batch in the channel is its last message.           *)
StopLast == \A i \in 1..Len(chan) : chan[i] = <<>> => i = Len(chan) /\ stopSent

(* `incoming` is cleared only by reading the stop signal, which left      *)
(* nothing behind it in the channel.                                      *)
Drained == ~incoming => chan = <<>> /\ stopSent

(* The JoinSet holds tasks only between the spawn and join_all.           *)
Idle == pc \in {"head", "recv", "done"} => DOMAIN inflight = {}

(* A task that returned Ok has rebuilt its storage.                       *)
OkRebuilt == \A s \in DOMAIN inflight : inflight[s] = "ok" => s \in rebuilt

(* While the loop runs, and once it has ended normally, every storage     *)
(* queued to this rebuilder or resumed at startup is rebuilt, in the      *)
(* channel, in pending_storages, or in the JoinSet.                       *)
Accounted ==
    pc \in {"head", "recv", "join", "done"} =>
        \A s \in cycleSent \cup restored :
            s \in rebuilt \cup InChan \cup ToSet(pending) \cup DOMAIN inflight

(* The inductive invariant.                                               *)
IInv == /\ TypeOK /\ StopLast /\ Drained /\ Idle /\ OkRebuilt /\ Accounted
        /\ CompleteMeansRebuilt

-----------------------------------------------------------------------------

(* Extending a Vec adds the storages of the extension to its own.         *)
LEMMA ToSetConcat ==
    ASSUME NEW S, NEW a \in Seq(S), NEW b \in Seq(S)
    PROVE  /\ a \o b \in Seq(S)
           /\ ToSet(a \o b) = ToSet(a) \cup ToSet(b)
<1>1. a \o b \in Seq(S) /\ Len(a \o b) = Len(a) + Len(b)
      /\ DOMAIN (a \o b) = 1..(Len(a) + Len(b))
  OBVIOUS
<1>2. ASSUME NEW i \in 1..(Len(a) + Len(b))
      PROVE  (a \o b)[i] \in ToSet(a) \cup ToSet(b)
  <2>1. CASE i <= Len(a)
    <3>1. (a \o b)[i] = a[i] /\ i \in DOMAIN a  BY <2>1
    <3>. QED  BY <3>1 DEF ToSet
  <2>2. CASE i > Len(a)
    <3>1. (a \o b)[i] = b[i - Len(a)] /\ i - Len(a) \in DOMAIN b  BY <2>2
    <3>. QED  BY <3>1 DEF ToSet
  <2>. QED  BY <2>1, <2>2
<1>3. ASSUME NEW i \in DOMAIN a PROVE a[i] \in ToSet(a \o b)
  <2>1. (a \o b)[i] = a[i] /\ i \in DOMAIN (a \o b)  BY <1>1
  <2>. QED  BY <2>1 DEF ToSet
<1>4. ASSUME NEW i \in DOMAIN b PROVE b[i] \in ToSet(a \o b)
  <2>1. (a \o b)[Len(a) + i] = b[i] /\ Len(a) + i \in DOMAIN (a \o b)  BY <1>1
  <2>. QED  BY <2>1 DEF ToSet
<1>5. ToSet(a \o b) \subseteq ToSet(a) \cup ToSet(b)
  BY <1>1, <1>2 DEF ToSet
<1>6. ToSet(a) \cup ToSet(b) \subseteq ToSet(a \o b)
  BY <1>3, <1>4 DEF ToSet
<1>. QED  BY <1>1, <1>5, <1>6

(* A slice of a sequence: its type, length and elements.                 *)
LEMMA SubSeqFacts ==
    ASSUME NEW S, NEW r \in Seq(S), NEW lo \in 0..Len(r), NEW hi \in 0..Len(r), lo <= hi
    PROVE  /\ SubSeq(r, lo + 1, hi) \in Seq(S)
           /\ Len(SubSeq(r, lo + 1, hi)) = hi - lo
           /\ DOMAIN SubSeq(r, lo + 1, hi) = 1..(hi - lo)
           /\ \A j \in 1..(hi - lo) : SubSeq(r, lo + 1, hi)[j] = r[lo + j]
OBVIOUS

(* What is left of a sequence once its first n elements are taken.       *)
LEMMA TailFacts ==
    ASSUME NEW S, NEW c \in Seq(S), NEW n \in 0..Len(c)
    PROVE  /\ Len(SubSeq(c, n + 1, Len(c))) = Len(c) - n
           /\ \A j \in 1..(Len(c) - n) : SubSeq(c, n + 1, Len(c))[j] = c[n + j]
OBVIOUS

(* The elements of a slice are those at its positions.                   *)
LEMMA ToSetSub ==
    ASSUME NEW S, NEW r \in Seq(S), NEW lo \in 0..Len(r), NEW hi \in 0..Len(r), lo <= hi
    PROVE  ToSet(SubSeq(r, lo + 1, hi)) = {r[k] : k \in (lo + 1)..hi}
<1>1. /\ DOMAIN SubSeq(r, lo + 1, hi) = 1..(hi - lo)
      /\ \A j \in 1..(hi - lo) : SubSeq(r, lo + 1, hi)[j] = r[lo + j]
  BY SubSeqFacts
<1>2. ASSUME NEW j \in 1..(hi - lo)
      PROVE  SubSeq(r, lo + 1, hi)[j] \in {r[k] : k \in (lo + 1)..hi}
  <2>1. lo + j \in (lo + 1)..hi  OBVIOUS
  <2>. QED  BY <1>1, <2>1
<1>3. ASSUME NEW k \in (lo + 1)..hi
      PROVE  r[k] \in ToSet(SubSeq(r, lo + 1, hi))
  <2>1. k - lo \in 1..(hi - lo) /\ lo + (k - lo) = k  OBVIOUS
  <2>2. SubSeq(r, lo + 1, hi)[k - lo] = r[k]  BY <1>1, <2>1
  <2>. QED  BY <1>1, <2>1, <2>2 DEF ToSet
<1>4. ToSet(SubSeq(r, lo + 1, hi)) \subseteq {r[k] : k \in (lo + 1)..hi}
  BY <1>1, <1>2 DEF ToSet
<1>5. {r[k] : k \in (lo + 1)..hi} \subseteq ToSet(SubSeq(r, lo + 1, hi))
  BY <1>3
<1>. QED  BY <1>4, <1>5

(* Cutting a Vec in two keeps its storages.                              *)
LEMMA ToSetSplit ==
    ASSUME NEW S, NEW p \in Seq(S), NEW n \in 0..Len(p)
    PROVE  /\ SubSeq(p, 1, n) \in Seq(S)
           /\ SubSeq(p, n + 1, Len(p)) \in Seq(S)
           /\ ToSet(SubSeq(p, 1, n)) \cup ToSet(SubSeq(p, n + 1, Len(p))) = ToSet(p)
<1>0. /\ 0 \in 0..Len(p) /\ n \in 0..Len(p) /\ Len(p) \in 0..Len(p)
      /\ 0 <= n /\ n <= Len(p)
  OBVIOUS
<1>1. SubSeq(p, 0 + 1, n) \in Seq(S) /\ SubSeq(p, n + 1, Len(p)) \in Seq(S)
  BY <1>0, SubSeqFacts, Zenon
<1>2. ToSet(SubSeq(p, 0 + 1, n)) = {p[k] : k \in (0 + 1)..n}
  BY <1>0, ToSetSub, Zenon
<1>3. ToSet(SubSeq(p, n + 1, Len(p))) = {p[k] : k \in (n + 1)..Len(p)}
  BY <1>0, ToSetSub, Zenon
<1>4. ToSet(p) = {p[k] : k \in 1..Len(p)}
  BY DEF ToSet
<1>5. 1..Len(p) = (1..n) \cup ((n + 1)..Len(p))
  OBVIOUS
<1>. QED  BY <1>1, <1>2, <1>3, <1>4, <1>5

(* A flattening holds every storage of every batch it flattens.           *)
LEMMA FlatCovers ==
    ASSUME NEW S, NEW ss \in Seq(Seq(S)), NEW r \in Seq(S), IsFlattening(r, ss)
    PROVE  Stored(ss) \subseteq ToSet(r)
<1> SUFFICES ASSUME NEW i \in 1..Len(ss), NEW x \in ToSet(ss[i])
             PROVE  x \in ToSet(r)
  BY DEF Stored
<1>1. PICK cut \in [0..Len(ss) -> 0..Len(r)] :
          \A k \in 1..Len(ss) : /\ cut[k - 1] <= cut[k]
                               /\ SubSeq(r, cut[k - 1] + 1, cut[k]) = ss[k]
  BY DEF IsFlattening
<1>2. PICK lo \in 0..Len(r), hi \in 0..Len(r) :
          lo <= hi /\ SubSeq(r, lo + 1, hi) = ss[i]
  <2>1. i - 1 \in 0..Len(ss) /\ i \in 0..Len(ss)  OBVIOUS
  <2>2. cut[i - 1] \in 0..Len(r) /\ cut[i] \in 0..Len(r)  BY <1>1, <2>1
  <2>3. cut[i - 1] <= cut[i] /\ SubSeq(r, cut[i - 1] + 1, cut[i]) = ss[i]  BY <1>1
  <2>. QED  BY <2>2, <2>3
<1>3. ToSet(ss[i]) = {r[k] : k \in (lo + 1)..hi}
  BY <1>2, ToSetSub
<1>4. (lo + 1)..hi \subseteq DOMAIN r
  OBVIOUS
<1>. QED  BY <1>3, <1>4 DEF ToSet
(* The storages of a slice of batches are those of its batches.          *)
LEMMA StoredSub ==
    ASSUME NEW S, NEW c \in Seq(Seq(S)), NEW lo \in 0..Len(c), NEW hi \in 0..Len(c), lo <= hi
    PROVE  Stored(SubSeq(c, lo + 1, hi)) = UNION {ToSet(c[k]) : k \in (lo + 1)..hi}
<1>1. /\ Len(SubSeq(c, lo + 1, hi)) = hi - lo
      /\ \A j \in 1..(hi - lo) : SubSeq(c, lo + 1, hi)[j] = c[lo + j]
  BY SubSeqFacts
<1>2. ASSUME NEW j \in 1..(hi - lo)
      PROVE  ToSet(SubSeq(c, lo + 1, hi)[j]) \in {ToSet(c[k]) : k \in (lo + 1)..hi}
  <2>1. lo + j \in (lo + 1)..hi  OBVIOUS
  <2>. QED  BY <1>1, <2>1
<1>3. ASSUME NEW k \in (lo + 1)..hi
      PROVE  ToSet(c[k]) \in {ToSet(SubSeq(c, lo + 1, hi)[j]) : j \in 1..Len(SubSeq(c, lo + 1, hi))}
  <2>1. k - lo \in 1..(hi - lo) /\ lo + (k - lo) = k  OBVIOUS
  <2>2. SubSeq(c, lo + 1, hi)[k - lo] = c[k]  BY <1>1, <2>1
  <2>. QED  BY <1>1, <2>1, <2>2
<1>4. {ToSet(SubSeq(c, lo + 1, hi)[j]) : j \in 1..Len(SubSeq(c, lo + 1, hi))}
        = {ToSet(c[k]) : k \in (lo + 1)..hi}
  BY <1>1, <1>2, <1>3
<1>. QED  BY <1>4 DEF Stored

(* Cutting a sequence of batches in two keeps the storages in it.         *)
LEMMA StoredSplit ==
    ASSUME NEW S, NEW c \in Seq(Seq(S)), NEW n \in 0..Len(c)
    PROVE  /\ SubSeq(c, 1, n) \in Seq(Seq(S))
           /\ SubSeq(c, n + 1, Len(c)) \in Seq(Seq(S))
           /\ Stored(c) = Stored(SubSeq(c, 1, n)) \cup Stored(SubSeq(c, n + 1, Len(c)))
<1>1. SubSeq(c, 0 + 1, n) \in Seq(Seq(S)) /\ SubSeq(c, n + 1, Len(c)) \in Seq(Seq(S))
  BY SubSeqFacts
<1>0. /\ 0 \in 0..Len(c) /\ n \in 0..Len(c) /\ Len(c) \in 0..Len(c)
      /\ 0 <= n /\ n <= Len(c)
  OBVIOUS
<1>2. Stored(SubSeq(c, 0 + 1, n)) = UNION {ToSet(c[k]) : k \in (0 + 1)..n}
  BY <1>0, StoredSub, Zenon
<1>3. Stored(SubSeq(c, n + 1, Len(c))) = UNION {ToSet(c[k]) : k \in (n + 1)..Len(c)}
  BY <1>0, StoredSub, Zenon
<1>4. 1..Len(c) = (1..n) \cup ((n + 1)..Len(c))
  OBVIOUS
<1>5. Stored(c) = UNION {ToSet(c[k]) : k \in 1..Len(c)}
  BY DEF Stored
<1>6. ASSUME NEW x \in UNION {ToSet(c[k]) : k \in 1..Len(c)}
      PROVE  \/ x \in UNION {ToSet(c[k]) : k \in 1..n}
             \/ x \in UNION {ToSet(c[k]) : k \in (n + 1)..Len(c)}
  <2>1. PICK k \in 1..Len(c) : x \in ToSet(c[k])  OBVIOUS
  <2>2. CASE k <= n  BY <2>1, <2>2
  <2>3. CASE k > n  BY <2>1, <2>3
  <2>. QED  BY <2>2, <2>3
<1>7. UNION {ToSet(c[k]) : k \in 1..n} \subseteq UNION {ToSet(c[k]) : k \in 1..Len(c)}
  OBVIOUS
<1>8. UNION {ToSet(c[k]) : k \in (n + 1)..Len(c)} \subseteq UNION {ToSet(c[k]) : k \in 1..Len(c)}
  OBVIOUS
<1>9. Stored(c) = (UNION {ToSet(c[k]) : k \in 1..n}) \cup (UNION {ToSet(c[k]) : k \in (n + 1)..Len(c)})
  <2>1. Stored(c) \subseteq (UNION {ToSet(c[k]) : k \in 1..n}) \cup (UNION {ToSet(c[k]) : k \in (n + 1)..Len(c)})
    BY <1>5, <1>6
  <2>2. (UNION {ToSet(c[k]) : k \in 1..n}) \cup (UNION {ToSet(c[k]) : k \in (n + 1)..Len(c)}) \subseteq Stored(c)
    BY <1>5, <1>7, <1>8
  <2>. QED  BY <2>1, <2>2
<1>10. SubSeq(c, 0 + 1, n) = SubSeq(c, 1, n) /\ (0 + 1)..n = 1..n
  OBVIOUS
<1>. QED  BY <1>1, <1>2, <1>3, <1>9, <1>10
(* What the fetcher sends is a non-empty batch of storages.               *)
LEMMA BatchFacts ==
    ASSUME NEW b \in Batches
    PROVE  b \in Seq(Storages) /\ b # <<>>
<1>1. PICK n \in 1..MaxBatch : b \in [1..n -> Storages]
  BY DEF Batches
<1>. QED  BY <1>1

(* Sending a batch adds its storages to the channel's.                    *)
LEMMA StoredAppend ==
    ASSUME NEW S, NEW c \in Seq(Seq(S)), NEW b \in Seq(S)
    PROVE  /\ Append(c, b) \in Seq(Seq(S))
           /\ Stored(Append(c, b)) = Stored(c) \cup ToSet(b)
<1>1. /\ Append(c, b) \in Seq(Seq(S))
      /\ Len(Append(c, b)) = Len(c) + 1
      /\ Append(c, b)[Len(c) + 1] = b
      /\ \A i \in 1..Len(c) : Append(c, b)[i] = c[i]
  OBVIOUS
<1>2. ASSUME NEW x \in Stored(Append(c, b)) PROVE x \in Stored(c) \cup ToSet(b)
  <2>1. PICK i \in 1..(Len(c) + 1) : x \in ToSet(Append(c, b)[i])
    BY <1>1 DEF Stored
  <2>2. CASE i = Len(c) + 1  BY <1>1, <2>1, <2>2
  <2>3. CASE i # Len(c) + 1  BY <1>1, <2>1, <2>3 DEF Stored
  <2>. QED  BY <2>2, <2>3
<1>3. ASSUME NEW x \in Stored(c) PROVE x \in Stored(Append(c, b))
  <2>1. PICK i \in 1..Len(c) : x \in ToSet(c[i])
    BY DEF Stored
  <2>2. i \in 1..Len(Append(c, b)) /\ Append(c, b)[i] = c[i]
    BY <1>1
  <2>. QED  BY <2>1, <2>2 DEF Stored
<1>4. ToSet(b) \subseteq Stored(Append(c, b))
  BY <1>1 DEF Stored
<1>. QED  BY <1>1, <1>2, <1>3, <1>4

(* The spawn loop moves the storages it pops from pending_storages to the *)
(* JoinSet, as running tasks, and loses none.                             *)
LEMMA SpawnFacts ==
    ASSUME NEW p \in Seq(Storages), Spawn(p)
    PROVE  /\ pending' \in Seq(Storages)
           /\ DOMAIN inflight' \subseteq Storages
           /\ \A s \in DOMAIN inflight' : inflight'[s] = "running"
           /\ ToSet(p) = ToSet(pending') \cup DOMAIN inflight'
           /\ pc' = "join"
<1>1. PopCount(p) \in 0..Len(p)
  BY StorageConstantsAssumption DEF PopCount
<1> DEFINE n == Len(p) - PopCount(p)
<1>2. n \in 0..Len(p) /\ Len(p) - PopCount(p) + 1 = n + 1
  BY <1>1
<1>3. /\ SubSeq(p, 1, n) \in Seq(Storages)
      /\ SubSeq(p, n + 1, Len(p)) \in Seq(Storages)
      /\ ToSet(SubSeq(p, 1, n)) \cup ToSet(SubSeq(p, n + 1, Len(p))) = ToSet(p)
  BY <1>2, ToSetSplit
<1>4. /\ pending' = SubSeq(p, 1, n)
      /\ inflight' = [s \in ToSet(SubSeq(p, n + 1, Len(p))) |-> "running"]
      /\ pc' = "join"
  BY <1>2 DEF Spawn
<1>5. ToSet(SubSeq(p, n + 1, Len(p))) \subseteq Storages
  BY <1>3 DEF ToSet
<1>. QED  BY <1>3, <1>4, <1>5

-----------------------------------------------------------------------------
(* The rebuilder starts in a state of the invariant.                      *)
LEMMA InitIInv == Init => IInv
<1> SUFFICES ASSUME Init PROVE IInv
  OBVIOUS
<1>1. TypeOK
  <2>1. <<>> \in Seq(Seq(Storages)) /\ <<>> \in Seq(Storages)
    OBVIOUS
  <2>2. DOMAIN NoTasks = {}
    BY DEF NoTasks
  <2>3. 0 \in 0..MaxFailures /\ 0 \in 0..MaxRestarts
    BY StorageConstantsAssumption
  <2>. QED  BY <2>1, <2>2, <2>3 DEF Init, TypeOK
<1>2. StopLast /\ Drained /\ Idle /\ OkRebuilt
  BY DEF Init, StopLast, Drained, Idle, OkRebuilt, NoTasks
<1>3. Accounted /\ CompleteMeansRebuilt
  BY DEF Init, Accounted, CompleteMeansRebuilt
<1>. QED  BY <1>1, <1>2, <1>3 DEF IInv

(* The loop's normal end: `incoming` is clear and pending_storages empty, *)
(* so the channel is drained and the JoinSet empty, and whatever was      *)
(* accounted for is rebuilt.                                              *)
LEMMA ExitIInv == IInv /\ Exit => IInv'
<1> SUFFICES ASSUME IInv, Exit PROVE IInv'
  OBVIOUS
<1>1. TypeOK' /\ StopLast' /\ Drained' /\ OkRebuilt'
  BY DEF IInv, Exit, TypeOK, StopLast, Drained, OkRebuilt
<1>2. chan = <<>> /\ DOMAIN inflight = {} /\ pending = <<>>
  BY DEF IInv, Exit, Drained, Idle
<1>3. InChan = {} /\ ToSet(pending) = {}
  BY <1>2 DEF InChan, Stored, ToSet
<1>4. cycleSent \cup restored \subseteq rebuilt
  BY <1>2, <1>3 DEF IInv, Exit, Accounted
<1>5. Idle' /\ Accounted' /\ CompleteMeansRebuilt'
  BY <1>2, <1>4 DEF Exit, Idle, Accounted, CompleteMeansRebuilt
<1>. QED  BY <1>1, <1>5 DEF IInv

(* Leaving the loop on cancellation: pc leaves the states the invariant   *)
(* speaks of, and pending_storages is saved.                             *)
LEMMA CancelExitIInv == IInv /\ CancelExit => IInv'
BY DEF IInv, CancelExit, TypeOK, StopLast, Drained, Idle, OkRebuilt, Accounted,
       CompleteMeansRebuilt, InChan, Stored

(* Going to recv_many changes only pc, between two states Accounted      *)
(* speaks of alike.                                                        *)
LEMMA ToRecvIInv == IInv /\ ToRecv => IInv'
BY DEF IInv, ToRecv, TypeOK, StopLast, Drained, Idle, OkRebuilt, Accounted,
       CompleteMeansRebuilt, InChan, Stored

(* Dropping the Senders closes the channel and changes nothing else.      *)
LEMMA DropSendersIInv == IInv /\ DropSenders => IInv'
BY DEF IInv, DropSenders, TypeOK, StopLast, Drained, Idle, OkRebuilt, Accounted,
       CompleteMeansRebuilt, InChan, Stored

(* Cancelling the token changes nothing the invariant reads.              *)
LEMMA CancelIInv == IInv /\ Cancel => IInv'
BY DEF IInv, Cancel, TypeOK, StopLast, Drained, Idle, OkRebuilt, Accounted,
       CompleteMeansRebuilt, InChan, Stored

(* Spawning from pending_storages, with nothing to read: the storages    *)
(* popped are now running tasks.                                          *)
LEMMA SpawnPendingIInv == IInv /\ SpawnPending => IInv'
<1> SUFFICES ASSUME IInv, SpawnPending PROVE IInv'
  OBVIOUS
<1>1. /\ pending' \in Seq(Storages)
      /\ DOMAIN inflight' \subseteq Storages
      /\ \A s \in DOMAIN inflight' : inflight'[s] = "running"
      /\ ToSet(pending) = ToSet(pending') \cup DOMAIN inflight'
      /\ pc' = "join"
  BY SpawnFacts DEF SpawnPending, IInv, TypeOK
<1>2. TypeOK'
  BY <1>1 DEF IInv, SpawnPending, TypeOK
<1>3. StopLast' /\ Drained' /\ Idle' /\ OkRebuilt' /\ CompleteMeansRebuilt'
  BY <1>1 DEF IInv, SpawnPending, StopLast, Drained, Idle, OkRebuilt,
              CompleteMeansRebuilt
<1>4. InChan' = InChan /\ DOMAIN inflight = {}
  BY DEF IInv, SpawnPending, InChan, Idle
<1>5. Accounted'
  BY <1>1, <1>4 DEF IInv, SpawnPending, Accounted
<1>. QED  BY <1>2, <1>3, <1>5 DEF IInv

(* A rebuild task returns Ok: its storage is rebuilt.                      *)
LEMMA TaskOkIInv ==
    ASSUME NEW s \in Storages
    PROVE  IInv /\ TaskOk(s) => IInv'
<1> SUFFICES ASSUME IInv, TaskOk(s) PROVE IInv'
  OBVIOUS
<1>1. DOMAIN inflight' = DOMAIN inflight /\ inflight'[s] = "ok"
      /\ \A t \in DOMAIN inflight \ {s} : inflight'[t] = inflight[t]
  BY DEF TaskOk
<1>2. TypeOK'
  BY <1>1 DEF IInv, TaskOk, TypeOK
<1>3. StopLast' /\ Drained' /\ Idle' /\ CompleteMeansRebuilt'
  BY <1>1 DEF IInv, TaskOk, StopLast, Drained, Idle, CompleteMeansRebuilt
<1>4. OkRebuilt'
  BY <1>1 DEF IInv, TaskOk, OkRebuilt
<1>5. Accounted'
  BY <1>1 DEF IInv, TaskOk, Accounted, InChan, Stored
<1>. QED  BY <1>2, <1>3, <1>4, <1>5 DEF IInv

(* A rebuild task returns a Store error.                                  *)
LEMMA TaskErrIInv ==
    ASSUME NEW s \in Storages
    PROVE  IInv /\ TaskErr(s) => IInv'
<1> SUFFICES ASSUME IInv, TaskErr(s) PROVE IInv'
  OBVIOUS
<1>1. DOMAIN inflight' = DOMAIN inflight /\ inflight'[s] = "err"
      /\ \A t \in DOMAIN inflight \ {s} : inflight'[t] = inflight[t]
  BY DEF TaskErr
<1>2. TypeOK'
  BY <1>1, StorageConstantsAssumption DEF IInv, TaskErr, TypeOK
<1>3. StopLast' /\ Drained' /\ Idle' /\ CompleteMeansRebuilt'
  BY <1>1 DEF IInv, TaskErr, StopLast, Drained, Idle, CompleteMeansRebuilt
<1>4. OkRebuilt'
  BY <1>1 DEF IInv, TaskErr, OkRebuilt
<1>5. Accounted'
  BY <1>1 DEF IInv, TaskErr, Accounted, InChan, Stored
<1>. QED  BY <1>2, <1>3, <1>4, <1>5 DEF IInv

(* join_all without an error: every task returned Ok, so every storage    *)
(* that leaves the JoinSet is rebuilt.                                    *)
LEMMA JoinIInv == IInv /\ Join => IInv'
<1> SUFFICES ASSUME IInv, Join PROVE IInv'
  OBVIOUS
<1>1. DOMAIN inflight' = {}
  BY DEF Join, NoTasks
<1>2. TypeOK' /\ StopLast' /\ Drained' /\ Idle' /\ OkRebuilt' /\ CompleteMeansRebuilt'
  BY <1>1 DEF IInv, Join, TypeOK, StopLast, Drained, Idle, OkRebuilt,
              CompleteMeansRebuilt
<1>3. Accounted'
  <2>1. CASE \E s \in DOMAIN inflight : inflight[s] = "err"
    <3>1. pc' = "failed"  BY <2>1 DEF Join
    <3>. QED  BY <3>1 DEF Accounted
  <2>2. CASE ~\E s \in DOMAIN inflight : inflight[s] = "err"
    <3>1. DOMAIN inflight \subseteq rebuilt
      BY <2>2 DEF IInv, Join, TypeOK, OkRebuilt
    <3>2. pc' = "head" /\ pc = "join" /\ InChan' = InChan
      BY <2>2 DEF Join, InChan
    <3>. QED  BY <1>1, <3>1, <3>2 DEF IInv, Join, Accounted
  <2>. QED  BY <2>1, <2>2
<1>. QED  BY <1>2, <1>3 DEF IInv

(* The fetcher queues a batch: nothing follows a stop signal, and a batch *)
(* is never empty, so it is not read as one.                              *)
LEMMA SendIInv ==
    ASSUME NEW b \in Batches
    PROVE  IInv /\ Send(b) => IInv'
<1> SUFFICES ASSUME IInv, Send(b) PROVE IInv'
  OBVIOUS
<1>1. b \in Seq(Storages) /\ b # <<>>
  BY BatchFacts
<1>2. /\ chan' \in Seq(Seq(Storages))
      /\ InChan' = InChan \cup ToSet(b)
      /\ Len(chan') = Len(chan) + 1
      /\ chan'[Len(chan) + 1] = b
      /\ \A i \in 1..Len(chan) : chan'[i] = chan[i]
  BY <1>1, StoredAppend DEF IInv, TypeOK, Send, InChan
<1>3. ToSet(b) \subseteq Storages
  BY <1>1 DEF ToSet
<1>4. TypeOK'
  BY <1>2, <1>3 DEF IInv, TypeOK, Send
<1>5. StopLast'
  BY <1>1, <1>2 DEF IInv, TypeOK, StopLast, Send
<1>6. Drained' /\ Idle' /\ OkRebuilt' /\ CompleteMeansRebuilt'
  BY DEF IInv, TypeOK, Drained, Idle, OkRebuilt, CompleteMeansRebuilt, Send, Alive
<1>7. Accounted'
  BY <1>2 DEF IInv, Accounted, Send
<1>. QED  BY <1>4, <1>5, <1>6, <1>7 DEF IInv

(* complete() sends the stop signal: it is the last message, and it is   *)
(* sent once.                                                             *)
LEMMA CompleteIInv == IInv /\ Complete => IInv'
<1> SUFFICES ASSUME IInv, Complete PROVE IInv'
  OBVIOUS
<1>1. <<>> \in Seq(Storages) /\ ToSet(<<>>) = {}
  BY DEF ToSet
<1>2. /\ chan' \in Seq(Seq(Storages))
      /\ InChan' = InChan \cup ToSet(<<>>)
      /\ Len(chan') = Len(chan) + 1
      /\ chan'[Len(chan) + 1] = <<>>
      /\ \A i \in 1..Len(chan) : chan'[i] = chan[i]
  <2>1. chan \in Seq(Seq(Storages))  BY DEF IInv, TypeOK
  <2>2. /\ Append(chan, <<>>) \in Seq(Seq(Storages))
        /\ Stored(Append(chan, <<>>)) = Stored(chan) \cup ToSet(<<>>)
    BY <1>1, <2>1, StoredAppend
  <2>3. /\ Len(Append(chan, <<>>)) = Len(chan) + 1
        /\ Append(chan, <<>>)[Len(chan) + 1] = <<>>
        /\ \A i \in 1..Len(chan) : Append(chan, <<>>)[i] = chan[i]
    BY <2>1
  <2>. QED  BY <2>2, <2>3 DEF Complete, InChan
<1>4. TypeOK'
  BY <1>2 DEF IInv, TypeOK, Complete
<1>5. StopLast'
  BY <1>2 DEF IInv, TypeOK, StopLast, Complete
<1>6. Drained' /\ Idle' /\ OkRebuilt' /\ CompleteMeansRebuilt'
  BY DEF IInv, TypeOK, Drained, Idle, OkRebuilt, CompleteMeansRebuilt, Complete
<1>7. Accounted'
  BY <1>1, <1>2 DEF IInv, Accounted, Complete
<1>. QED  BY <1>4, <1>5, <1>6, <1>7 DEF IInv

(* The next sync cycle restarts the rebuilder on the saved pending list: *)
(* what it resumes is in pending_storages.                                *)
LEMMA RestartIInv == IInv /\ Restart => IInv'
<1> SUFFICES ASSUME IInv, Restart PROVE IInv'
  OBVIOUS
<1>1. DOMAIN inflight' = {} /\ InChan' = {}
  BY DEF Restart, NoTasks, InChan, Stored
<1>2. ToSet(persisted) \subseteq Storages
  BY DEF IInv, TypeOK, ToSet
<1>3. TypeOK'
  <2>1. <<>> \in Seq(Seq(Storages)) /\ restarts + 1 \in 0..MaxRestarts
    BY StorageConstantsAssumption DEF IInv, TypeOK, Restart
  <2>. QED  BY <1>1, <1>2, <2>1 DEF IInv, TypeOK, Restart
<1>4. StopLast' /\ Drained' /\ Idle' /\ OkRebuilt' /\ CompleteMeansRebuilt'
  BY <1>1 DEF StopLast, Drained, Idle, OkRebuilt, CompleteMeansRebuilt, Restart
<1>5. Accounted'
  BY DEF Accounted, Restart
<1>. QED  BY <1>3, <1>4, <1>5 DEF IInv

(* recv_many: the batches read move to pending_storages and on to the   *)
(* JoinSet, flattened; a stop signal among them was the channel's last    *)
(* message, so clearing `incoming` leaves the channel empty.              *)
LEMMA RecvIInv == IInv /\ Recv => IInv'
<1> SUFFICES ASSUME IInv, Recv PROVE IInv'
  OBVIOUS
<1> DEFINE k == IF Len(chan) < MaxReads THEN Len(chan) ELSE MaxReads
           buf == SubSeq(chan, 1, k)
<1>1. k \in 0..Len(chan) /\ (k < Len(chan) => k = MaxReads)
  BY StorageConstantsAssumption DEF IInv, TypeOK
<1>2. /\ chan' = SubSeq(chan, k + 1, Len(chan))
      /\ incoming' = ~(\E i \in 1..k : buf[i] = <<>>)
      /\ pc = "recv"
      /\ UNCHANGED <<rebuilt, stopSent, cycleSent, restored>>
  BY DEF Recv
<1>3. PICK r \in Seq(Storages) : IsFlattening(r, buf) /\ Spawn(pending \o r)
  BY DEF Recv, FlatCandidates
<1>4. /\ buf \in Seq(Seq(Storages))
      /\ chan' \in Seq(Seq(Storages))
      /\ Stored(chan) = Stored(buf) \cup Stored(chan')
  BY <1>1, <1>2, StoredSplit DEF IInv, TypeOK
<1>5. Stored(buf) \subseteq ToSet(r)
  BY <1>3, <1>4, FlatCovers
<1>6. pending \o r \in Seq(Storages) /\ ToSet(pending \o r) = ToSet(pending) \cup ToSet(r)
  BY <1>3, ToSetConcat DEF IInv, TypeOK
<1>7. /\ pending' \in Seq(Storages)
      /\ DOMAIN inflight' \subseteq Storages
      /\ \A s \in DOMAIN inflight' : inflight'[s] = "running"
      /\ ToSet(pending \o r) = ToSet(pending') \cup DOMAIN inflight'
      /\ pc' = "join"
  BY <1>3, <1>6, SpawnFacts
<1>8. TypeOK'
  BY <1>2, <1>4, <1>7 DEF IInv, TypeOK, Recv
<1>9. /\ Len(chan') = Len(chan) - k
      /\ \A j \in 1..(Len(chan) - k) : chan'[j] = chan[k + j]
      /\ \A i \in 1..k : buf[i] = chan[i]
  <2>1. /\ chan \in Seq(Seq(Storages))
        /\ k \in 0..Len(chan) /\ Len(chan) \in 0..Len(chan) /\ 0 \in 0..Len(chan)
        /\ k <= Len(chan) /\ 0 <= k
    BY <1>1 DEF IInv, TypeOK
  <2>2. /\ Len(SubSeq(chan, k + 1, Len(chan))) = Len(chan) - k
        /\ \A j \in 1..(Len(chan) - k) : SubSeq(chan, k + 1, Len(chan))[j] = chan[k + j]
    BY <2>1, TailFacts, Zenon
  <2>3. \A i \in 1..(k - 0) : SubSeq(chan, 0 + 1, k)[i] = chan[0 + i]
    BY <2>1, SubSeqFacts, Zenon
  <2>4. SubSeq(chan, 0 + 1, k) = buf /\ 1..(k - 0) = 1..k /\ \A i \in 1..k : 0 + i = i
    BY <1>1
  <2>5. \A i \in 1..k : buf[i] = chan[i]
    BY <2>3, <2>4
  <2>. QED  BY <1>2, <2>2, <2>5
<1>10. StopLast'
  <2> SUFFICES ASSUME NEW j \in 1..Len(chan'), chan'[j] = <<>>
               PROVE  j = Len(chan') /\ stopSent'
    BY DEF StopLast
  <2>1. k + j \in 1..Len(chan) /\ chan[k + j] = <<>>
    BY <1>1, <1>9
  <2>2. k + j = Len(chan) /\ stopSent
    BY <2>1 DEF IInv, StopLast
  <2>3. j = Len(chan')
    BY <1>1, <1>9, <2>2
  <2>4. stopSent' = stopSent
    BY DEF Recv
  <2>. QED  BY <2>2, <2>3, <2>4
<1>11. Drained'
  <2> SUFFICES ASSUME ~incoming' PROVE chan' = <<>> /\ stopSent'
    BY DEF Drained
  <2>1. PICK i \in 1..k : buf[i] = <<>>
    BY <1>2
  <2>2. i \in 1..Len(chan) /\ chan[i] = <<>>
    BY <1>1, <1>9, <2>1
  <2>3. i = Len(chan) /\ stopSent
    BY <2>2 DEF IInv, StopLast
  <2>4. Len(chan') = 0
    BY <1>1, <1>9, <2>3
  <2>. QED  BY <1>2, <1>4, <2>3, <2>4
<1>12. Idle' /\ OkRebuilt' /\ CompleteMeansRebuilt'
  BY <1>7 DEF Idle, OkRebuilt, CompleteMeansRebuilt
<1>13. Accounted'
  <2>1. DOMAIN inflight = {}
    BY <1>2 DEF IInv, Idle
  <2>2. \A s \in cycleSent \cup restored :
            s \in rebuilt \cup Stored(buf) \cup Stored(chan') \cup ToSet(pending)
    BY <1>2, <1>4, <2>1 DEF IInv, Accounted, InChan
  <2>. QED  BY <1>2, <1>5, <1>6, <1>7, <2>2 DEF Accounted, InChan
<1>. QED  BY <1>8, <1>10, <1>11, <1>12, <1>13 DEF IInv

(* A step of nobody keeps the invariant.                                  *)
LEMMA StutterIInv == IInv /\ UNCHANGED vars => IInv'
<1> SUFFICES ASSUME IInv, UNCHANGED vars PROVE IInv'
  OBVIOUS
<1>1. /\ chan' = chan /\ pending' = pending /\ incoming' = incoming
      /\ inflight' = inflight /\ pc' = pc /\ cancelled' = cancelled
      /\ persisted' = persisted /\ healed' = healed /\ rebuilt' = rebuilt
      /\ sent' = sent /\ cycleSent' = cycleSent /\ restored' = restored
      /\ stopSent' = stopSent /\ closed' = closed /\ failures' = failures
      /\ restarts' = restarts
  BY DEF vars
<1>2. TypeOK' /\ StopLast' /\ Drained' /\ Idle' /\ OkRebuilt'
  BY <1>1 DEF IInv, TypeOK, StopLast, Drained, Idle, OkRebuilt
<1>3. Accounted' /\ CompleteMeansRebuilt'
  BY <1>1 DEF IInv, Accounted, CompleteMeansRebuilt, InChan
<1>. QED  BY <1>2, <1>3 DEF IInv

(* Every step of the rebuilder and of its environment keeps the invariant. *)
LEMMA NextIInv == IInv /\ [Next]_vars => IInv'
<1> SUFFICES ASSUME IInv, [Next]_vars PROVE IInv'
  OBVIOUS
<1>1. CASE Rebuilder
  <2>1. CASE \E s \in Storages : TaskOk(s) \/ TaskErr(s)
    BY <2>1, TaskOkIInv, TaskErrIInv
  <2>. QED  BY <1>1, <2>1, ExitIInv, CancelExitIInv, ToRecvIInv, SpawnPendingIInv,
              RecvIInv, JoinIInv DEF Rebuilder
<1>2. CASE Environment
  <2>1. CASE \E b \in Batches : Send(b)
    BY <2>1, SendIInv
  <2>. QED  BY <1>2, <2>1, CompleteIInv, DropSendersIInv, CancelIInv, RestartIInv
              DEF Environment
<1>3. CASE UNCHANGED vars
  BY <1>3, StutterIInv
<1>. QED  BY <1>1, <1>2, <1>3 DEF Next

(* The type invariant: every reachable state of the rebuilder and its     *)
(* environment is well typed (TypeOK, checked by the run storage_rebuild). *)
THEOREM StorageTypeCorrect == Spec => []TypeOK
<1>1. Init => IInv  BY InitIInv
<1>2. IInv /\ [Next]_vars => IInv'  BY NextIInv
<1>3. IInv => TypeOK  BY DEF IInv
<1>. QED  BY <1>1, <1>2, <1>3, PTL DEF Spec

(* complete(): when rebuild_storage_trie_in_background ends its loop      *)
(* normally, every storage sent to it since it last started and every     *)
(* storage it resumed from the Store's pending list has been rebuilt, for *)
(* every channel capacity, read limit, parallelism, batch size and number *)
(* of storages (CompleteMeansRebuilt, checked by the run storage_rebuild). *)
(* A storage sent before a cancellation and not saved (the channel is     *)
(* dropped at line 232) is in neither set: NoLostStorage shows it lost.   *)
THEOREM CompleteMeansRebuiltInvariant == Spec => []CompleteMeansRebuilt
<1>1. Init => IInv  BY InitIInv
<1>2. IInv /\ [Next]_vars => IInv'  BY NextIInv
<1>3. IInv => CompleteMeansRebuilt  BY DEF IInv
<1>. QED  BY <1>1, <1>2, <1>3, PTL DEF Spec

=============================================================================
