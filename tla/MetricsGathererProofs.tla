------------------------- MODULE MetricsGathererProofs -------------------------
(***************************************************************************)
(* Proofs about the metrics gatherer, for every bound on L1's batches.     *)
(***************************************************************************)
EXTENDS MetricsGatherer, TLAPS

(* What a round holds between its reads: the values it read are those of  *)
(* an L1 whose counters only grow, so they are never below the gauges.    *)
Fresh ==
    /\ GaugesBehindL1
    /\ pc \in {"lastVerified", "gasPrices", "publish"} =>
          pubCommitted <= committed /\ committed <= l1Committed
    /\ pc \in {"gasPrices", "publish"} =>
          pubVerified <= verified /\ verified <= l1Verified

(* The inductive invariant.                                               *)
IInv == TypeOK /\ OneGatherInFlight /\ Fresh

(* The facts about the bound that the proofs use.                         *)
LEMMA BatchFacts ==
    /\ MaxBatch \in Nat /\ 0 \in Batches /\ Batches \subseteq Nat
    /\ \A b \in Batches : b <= MaxBatch
BY MaxBatchAssumption DEF Batches

LEMMA InitIInv == Init => IInv
<1> SUFFICES ASSUME Init PROVE IInv
  OBVIOUS
<1>1. TypeOK
  BY BatchFacts DEF Init, TypeOK
<1>2. OneGatherInFlight
  BY DEF Init, OneGatherInFlight
<1>3. Fresh
  BY DEF Init, Fresh, GaugesBehindL1
<1>. QED
  BY <1>1, <1>2, <1>3 DEF IInv

LEMMA NextIInv ==
    ASSUME IInv, [Next]_vars
    PROVE  IInv'
<1>0. /\ TypeOK /\ OneGatherInFlight /\ Fresh
      /\ mailbox \in Nat /\ timers \in Nat
      /\ {l1Committed, l1Verified, committed, verified, pubCommitted, pubVerified,
          pubVerifiedBlock} \subseteq Nat
  BY BatchFacts DEF IInv, TypeOK
<1>1. TypeOK'
  <2>1. CASE Commit \/ Verify
    <3>1. l1Committed' \in Batches /\ l1Verified' \in Batches
      BY <2>1, <1>0, BatchFacts DEF Commit, Verify, TypeOK, Batches
    <3>. QED
      BY <2>1, <1>0, <3>1 DEF Commit, Verify, TypeOK, round, gauges
  <2>2. CASE HandleCast \/ TimerFires
    BY <2>2, <1>0 DEF HandleCast, TimerFires, TypeOK, l1, round, gauges
  <2>4. CASE ReadCommitted \/ ReadVerified \/ ReadGasPrices
    BY <2>4, <1>0 DEF ReadCommitted, ReadVerified, ReadGasPrices, TypeOK, l1, gauges
  <2>5. CASE Publish
    <3>1. /\ pubVerifiedBlock' \in {verified, pubVerifiedBlock}
          /\ pubCommitted' \in {committed, pubCommitted}
          /\ pubVerified' \in {verified, pubVerified}
          /\ failed' \in BOOLEAN
      BY <2>5 DEF Publish
    <3>. QED
      BY <2>5, <1>0, <3>1 DEF Publish, TypeOK, l1
  <2>6. CASE Reschedule
    <3>1. timers' \in Nat /\ pc' = "idle" /\ failed' = FALSE
      BY <2>6, <1>0 DEF Reschedule
    <3>2. UNCHANGED <<l1Committed, l1Verified, mailbox, committed, verified,
                      pubCommitted, pubVerified, pubVerifiedBlock>>
      BY <2>6 DEF Reschedule, l1, gauges
    <3>. QED
      BY <1>0, <3>1, <3>2 DEF TypeOK
  <2>3. CASE UNCHANGED vars
    BY <2>3, <1>0 DEF TypeOK, vars
  <2>. QED
    BY <2>1, <2>2, <2>3, <2>4, <2>5, <2>6 DEF Next, Gatherer
<1>4. ASSUME Publish
      PROVE  /\ UNCHANGED <<l1Committed, l1Verified, mailbox, timers, committed, verified>>
             /\ pc = "publish" /\ pc' = "reschedule"
             /\ pubCommitted' \in {committed, pubCommitted}
             /\ pubVerified' \in {verified, pubVerified}
             /\ pubVerifiedBlock' \in {verified, pubVerifiedBlock}
  BY <1>4 DEF Publish, l1
<1>2. OneGatherInFlight'
  <2>1. CASE Publish
    BY <1>0, <1>4, <2>1 DEF OneGatherInFlight
  <2>2. CASE ~Publish
    BY <1>0, <2>2 DEF Next, Gatherer, HandleCast, ReadCommitted, ReadVerified, ReadGasPrices,
                      Reschedule, TimerFires, Commit, Verify, OneGatherInFlight, vars
  <2>. QED  BY <2>1, <2>2
<1>3. Fresh'
  <2>1. CASE Publish
    BY <1>0, <1>4, <2>1 DEF Fresh, GaugesBehindL1
  <2>2. CASE HandleCast \/ TimerFires \/ Reschedule
    BY <1>0, <2>2 DEF HandleCast, TimerFires, Reschedule, Fresh, GaugesBehindL1, l1, round, gauges
  <2>3. CASE ReadCommitted
    BY <1>0, <2>3 DEF ReadCommitted, Fresh, GaugesBehindL1, l1, gauges
  <2>4. CASE ReadVerified \/ ReadGasPrices
    BY <1>0, <2>4 DEF ReadVerified, ReadGasPrices, Fresh, GaugesBehindL1, l1, gauges
  <2>5. CASE Commit \/ Verify
    BY <1>0, <2>5 DEF Commit, Verify, Fresh, GaugesBehindL1, round, gauges
  <2>6. CASE UNCHANGED vars
    BY <1>0, <2>6 DEF Fresh, GaugesBehindL1, vars
  <2>. QED  BY <2>1, <2>2, <2>3, <2>4, <2>5, <2>6 DEF Next, Gatherer
<1>. QED
  BY <1>1, <1>2, <1>3 DEF IInv

(* For every bound on L1, exactly one Gather is alive in every reachable  *)
(* state of spawn, handle_cast and send_after: the loop neither dies out  *)
(* nor multiplies, whichever RPCs fail.                                   *)
THEOREM OneGatherInFlightInvariant == Spec => []OneGatherInFlight
<1>1. IInv => OneGatherInFlight
  BY DEF IInv
<1>. QED
  BY <1>1, InitIInv, NextIInv, PTL DEF Spec

(* For every bound on L1, the LastCommittedBatch, LastVerifiedBatch and   *)
(* LastVerifiedBlock gauges never show a batch L1 has not reached, though *)
(* L1 moves between gather_metrics' reads and a round may stop after any  *)
(* setter.                                                                *)
THEOREM GaugesBehindL1Invariant == Spec => []GaugesBehindL1
<1>1. IInv => GaugesBehindL1
  BY DEF IInv, Fresh
<1>. QED
  BY <1>1, InitIInv, NextIInv, PTL DEF Spec

(* For every bound on L1, the LastCommittedBatch and LastVerifiedBatch    *)
(* gauges never move backwards.                                           *)
THEOREM GaugesMonotoneThm == Spec => GaugesMonotone
<1>1. IInv /\ [Next]_vars
      => [pubCommitted' >= pubCommitted /\ pubVerified' >= pubVerified]_vars
  <2> SUFFICES ASSUME IInv, [Next]_vars
               PROVE  [pubCommitted' >= pubCommitted /\ pubVerified' >= pubVerified]_vars
    OBVIOUS
  <2>0. {pubCommitted, pubVerified, committed, verified} \subseteq Nat
    BY BatchFacts DEF IInv, TypeOK
  <2>. USE <2>0 DEF IInv, Fresh, GaugesBehindL1
  <2>1. CASE Publish
    BY <2>1 DEF Publish
  <2>2. CASE HandleCast \/ ReadCommitted \/ ReadVerified \/ ReadGasPrices
    BY <2>2 DEF HandleCast, ReadCommitted, ReadVerified, ReadGasPrices, gauges
  <2>3. CASE Reschedule \/ TimerFires \/ Commit \/ Verify
    BY <2>3 DEF Reschedule, TimerFires, Commit, Verify, gauges
  <2>4. CASE UNCHANGED vars
    BY <2>4 DEF vars
  <2>. QED
    BY <2>1, <2>2, <2>3, <2>4 DEF Next, Gatherer
<1>. QED
  BY <1>1, InitIInv, NextIInv, PTL DEF Spec, GaugesMonotone

=============================================================================
