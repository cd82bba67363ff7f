-------------------------- MODULE MCMetricsGatherer --------------------------
(* The metrics gatherer with L1 reaching batch 2: enough for L1 to commit *)
(* and verify a batch between the gatherer's two reads, and for a later   *)
(* round to read smaller values than the published ones if it misread.    *)
EXTENDS MetricsGatherer

MCMaxBatch == 2
=============================================================================
