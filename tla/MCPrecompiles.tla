---------------------------- MODULE MCPrecompiles ----------------------------
(* Precompiles on a small instance: a usize of 8 bits, so that the modexp *)
(* lengths 160 (fits usize, overflows 96 + B) and 256 (does not fit)      *)
(* reach both of the code's overflow paths; up to two pairs per pairing   *)
(* and MSM input, so that the order of the per-pair checks matters.       *)
EXTENDS Precompiles

MCUsizeMax == 255
MCSizeVals == {0, 1, 40, 160, 256}
MCLens == {0, 1, 32, 33}
MCRounds == {0, 12}
(* BN254 G1 encodings with a coordinate >= p under both behaviours of   *)
(* the library's decoder: reduced mod p (on or off the curve), or         *)
(* rejected.                                                              *)
MCBigAll == {"bigOn", "bigOff", "bigErr"}
=============================================================================
