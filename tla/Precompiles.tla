----------------------------- MODULE Precompiles -----------------------------
(***************************************************************************)
(* The precompiled-contract core of LEVM: src/crates/vm/levm/src/          *)
(* precompiles.rs.  The EVM frame gates an address with is_precompile and *)
(* calls execute_precompile(address, calldata, &mut gas_remaining); the    *)
(* dispatcher runs one of 17 precompiles, each of which meters its cost    *)
(* once with increase_precompile_consumed_gas and returns output bytes or  *)
(* an error.                                                               *)
(*                                                                         *)
(* The CONTROL of every precompile is kept: the order of its length check, *)
(* its gas charge and its parsing checks, every early return and the kind  *)
(* of error it returns (a PrecompileError, which halts the frame, or an    *)
(* InternalError).  The DATA is abstracted: calldata is a record of the    *)
(* features the code branches on (a point is on the curve, off it, the     *)
(* point at infinity, out of the subgroup, non-canonical, badly padded; a  *)
(* length is aligned or not), and an output is its kind and its length.    *)
(* The results of the cryptographic libraries (a recovered key, a sum      *)
(* that is the identity, a pairing product equal to one) are inputs.       *)
(***************************************************************************)
EXTENDS Integers, Sequences, FiniteSets

CONSTANTS
    NoCall,     \* the frame has not called a precompile yet
    NoResult,   \* the call in progress has not returned
    UsizeMax,   \* usize::MAX of the build; scaled down for TLC
    MaxPairs,   \* most pairs / points of a pairing or MSM input enumerated
    Lens,       \* calldata lengths enumerated for the hash precompiles
    SizeVals,   \* U256 values enumerated for the three modexp length words
    Rounds,     \* values of the Blake2f rounds word enumerated
    BNNonCanonical  \* BN254 G1 encodings with a coordinate >= p enumerated

ASSUME UsizeMaxAssumption == UsizeMax \in Nat /\ UsizeMax >= 96
ASSUME MaxPairsAssumption == MaxPairs \in 1..3
ASSUME LensAssumption == Lens \subseteq Nat
ASSUME SizeValsAssumption == SizeVals \subseteq Nat /\ 0 \in SizeVals
ASSUME RoundsAssumption == Rounds \subseteq Nat
(* A G1 coordinate >= p is never compared with ALT_BN128_PRIME; what      *)
(* BN254FieldElement::from_bytes_be makes of it is the library's: it      *)
(* reduces it mod p onto the curve ("bigOn") or off it ("bigOff"), or     *)
(* returns an error ("bigErr").                                           *)
ASSUME BNNonCanonicalAssumption == BNNonCanonical \subseteq {"bigOn", "bigOff", "bigErr"}

-----------------------------------------------------------------------------
(* Addresses 0x01..0x11 as their last byte; PRECOMPILES and                *)
(* PRECOMPILES_POST_CANCUN.                                                *)
ECRECOVER_ADDRESS == 1
SHA2_256_ADDRESS == 2
RIPEMD_160_ADDRESS == 3
IDENTITY_ADDRESS == 4
MODEXP_ADDRESS == 5
ECADD_ADDRESS == 6
ECMUL_ADDRESS == 7
ECPAIRING_ADDRESS == 8
BLAKE2F_ADDRESS == 9
POINT_EVALUATION_ADDRESS == 10
BLS12_G1ADD_ADDRESS == 11
BLS12_G1MSM_ADDRESS == 12
BLS12_G2ADD_ADDRESS == 13
BLS12_G2MSM_ADDRESS == 14
BLS12_PAIRING_CHECK_ADDRESS == 15
BLS12_MAP_FP_TO_G1_ADDRESS == 16
BLS12_MAP_FP2_TO_G2_ADDRESS == 17

PRECOMPILES == 1..10
PRECOMPILES_POST_CANCUN == 11..17
Addresses == PRECOMPILES \cup PRECOMPILES_POST_CANCUN

(* Forks in order; only < Cancun and < Prague are observed. *)
Forks == {"Shanghai", "Cancun", "Prague"}
ForkRank == [f \in Forks |-> IF f = "Shanghai" THEN 0 ELSE IF f = "Cancun" THEN 1 ELSE 2]
Before(f, g) == ForkRank[f] < ForkRank[g]

is_precompile(a, f) ==
    /\ ~(a = POINT_EVALUATION_ADDRESS /\ Before(f, "Cancun"))
    /\ ~(a \in PRECOMPILES_POST_CANCUN /\ Before(f, "Prague"))
    /\ a \in PRECOMPILES \cup PRECOMPILES_POST_CANCUN

-----------------------------------------------------------------------------
(* Outcomes.  "halt" is VMError::ExceptionalHalt(Precompile(e)), the      *)
(* precompile failure the caller turns into consuming all gas; "internal" *)
(* is VMError::Internal(e).                                                *)
NoOut == [kind |-> "none", len |-> 0]
Ok(k, n) == [status |-> "ok", err |-> "none", out |-> [kind |-> k, len |-> n]]
Halt(e) == [status |-> "halt", err |-> e, out |-> NoOut]
Internal(e) == [status |-> "internal", err |-> e, out |-> NoOut]
Out(g, r) == [gas |-> g, res |-> r]

OutKinds == {"none", "empty", "data", "zero", "one", "point", "const"}
Errors == {"none", "NotEnoughGas", "ParsingInputError", "InvalidPoint",
           "PointNotInTheCurve", "PointNotInSubgroup", "G1PointNotInCurve",
           "G2PointNotInCurve", "Overflow", "Slicing", "Msg"}
Results == [status : {"ok", "halt", "internal"}, err : Errors,
            out : [kind : OutKinds, len : Nat]]
(* The sentinel for "still running" is no result a precompile returns.    *)
ASSUME NoResultAssumption == NoResult \notin Results

(* Mutant: the subtraction without the checked_sub guard.                *)
Charged_unchecked(cost, g, r) == Out(g - cost, r)

(* increase_precompile_consumed_gas followed by what the precompile        *)
(* returns once it has paid: the checked_sub leaves gas untouched when it  *)
(* fails.                                                                  *)
Charged(cost, g, r) ==
    IF cost > g THEN Out(g, Halt("NotEnoughGas")) ELSE Out(g - cost, r)

(* The first error of a sequence of checks run in order ("none" if none): *)
(* the check at index i fails and every earlier one passed.               *)
FirstErr(s) ==
    LET IsFirst(i) == s[i] # "none" /\ \A j \in 1..(i - 1) : s[j] = "none"
    IN  IF \E i \in DOMAIN s : IsFirst(i)
        THEN s[CHOOSE i \in DOMAIN s : IsFirst(i)]
        ELSE "none"

SeqsUpTo(S, n) == UNION {[1..k -> S] : k \in 0..n}

-----------------------------------------------------------------------------
(* Gas prices of gas_cost.rs (not in this excerpt; EIP values).            *)
Words(len) == (len + 31) \div 32
BitsOf(x) == IF x = 0 THEN 0 ELSE x - 1      \* x is the bit length of the head
Larger(x, y) == IF x >= y THEN x ELSE y
ModexpIterations(e, expBits) ==
    LET adj == IF e <= 32 THEN BitsOf(expBits) ELSE 8 * (e - 32) + BitsOf(expBits)
    IN  Larger(adj, 1)
ModexpGas(b, e, m, expBits) ==
    LET words == (Larger(b, m) + 7) \div 8
    IN  Larger(200, (words * words * ModexpIterations(e, expBits)) \div 3)
G1Discount == <<1000, 949, 848>>
G2Discount == <<1000, 1000, 923>>
bls12_msm(k, discount, mulCost) == (k * mulCost * discount[k]) \div 1000

-----------------------------------------------------------------------------
(* Calldata, abstracted per precompile.                                    *)
BNClass == {"inf", "on", "off"}
G1Class == BNClass \cup BNNonCanonical
BNPairs == [g1 : G1Class \cup {"half"}, g2 : BNClass \cup {"half", "big", "nosub"}]
(* The point BN254FieldElement::from_bytes_be and create_point_from_affine *)
(* see for a decoded G1 encoding.                                          *)
Decoded(c) == CASE c = "bigOn" -> "on" [] c = "bigOff" -> "off" [] OTHER -> c
BLSClass == {"inf", "on", "nosub", "off", "noncanon", "padbad"}
FpClass == {"zero", "canon", "noncanon", "padbad"}

EcrecoverInputs == [v : {0, 27, 28}, recoverable : BOOLEAN]
LenInputs == [len : Lens]
ModexpInputs == {r \in [b : SizeVals, e : SizeVals, m : SizeVals, expBits : {0, 1, 9}] :
                    r.expBits <= 8 * r.e}
EcaddInputs == {r \in [p1 : G1Class, p2 : G1Class, sumZero : BOOLEAN] :
                    r.sumZero => Decoded(r.p1) = "on" /\ Decoded(r.p2) = "on"}
EcmulInputs == {r \in [p : G1Class, scalarZero : BOOLEAN, prodZero : BOOLEAN] :
                    r.prodZero => Decoded(r.p) = "on" /\ ~r.scalarZero}
EcpairingInputs == {r \in [aligned : BOOLEAN, pairs : SeqsUpTo(BNPairs, MaxPairs), one : BOOLEAN] :
                    ~r.aligned => r.pairs = <<>>}
Blake2fInputs == [len : {212, 213}, rounds : Rounds, f : {0, 1, 2}]
PointEvalInputs == [len : {191, 192}, hashOk : BOOLEAN, proofOk : BOOLEAN]
AddInputs == {r \in [lenOk : BOOLEAN, p1 : BLSClass, p2 : BLSClass, sumInf : BOOLEAN] :
                    ~r.lenOk => r.p1 = "inf" /\ r.p2 = "inf"}
MsmInputs == {r \in [aligned : BOOLEAN, pts : SeqsUpTo(BLSClass, MaxPairs), sumInf : BOOLEAN] :
                    r.aligned <=> r.pts # <<>>}
PairingInputs == {r \in [aligned : BOOLEAN, pairs : SeqsUpTo(BLSClass \X BLSClass, MaxPairs),
                         one : BOOLEAN] : r.aligned <=> r.pairs # <<>>}
MapG1Inputs == {r \in [lenOk : BOOLEAN, fp : FpClass, isInf : BOOLEAN] : ~r.lenOk => r.fp = "zero"}
MapG2Inputs == {r \in [lenOk : BOOLEAN, c0 : FpClass, c1 : FpClass, isInf : BOOLEAN] :
                    ~r.lenOk => r.c0 = "zero" /\ r.c1 = "zero"}

Inputs(a) ==
    IF a = ECRECOVER_ADDRESS THEN EcrecoverInputs
    ELSE IF a \in {SHA2_256_ADDRESS, RIPEMD_160_ADDRESS, IDENTITY_ADDRESS} THEN LenInputs
    ELSE IF a = MODEXP_ADDRESS THEN ModexpInputs
    ELSE IF a = ECADD_ADDRESS THEN EcaddInputs
    ELSE IF a = ECMUL_ADDRESS THEN EcmulInputs
    ELSE IF a = ECPAIRING_ADDRESS THEN EcpairingInputs
    ELSE IF a = BLAKE2F_ADDRESS THEN Blake2fInputs
    ELSE IF a = POINT_EVALUATION_ADDRESS THEN PointEvalInputs
    ELSE IF a \in {BLS12_G1ADD_ADDRESS, BLS12_G2ADD_ADDRESS} THEN AddInputs
    ELSE IF a \in {BLS12_G1MSM_ADDRESS, BLS12_G2MSM_ADDRESS} THEN MsmInputs
    ELSE IF a = BLS12_PAIRING_CHECK_ADDRESS THEN PairingInputs
    ELSE IF a = BLS12_MAP_FP_TO_G1_ADDRESS THEN MapG1Inputs
    ELSE IF a = BLS12_MAP_FP2_TO_G2_ADDRESS THEN MapG2Inputs
    ELSE {[none |-> 0]}

(* The price the precompile meters for its input, where it meters one.    *)
Cost(a, in) ==
    IF a = ECRECOVER_ADDRESS THEN 3000
    ELSE IF a = SHA2_256_ADDRESS THEN 60 + 12 * Words(in.len)
    ELSE IF a = RIPEMD_160_ADDRESS THEN 600 + 120 * Words(in.len)
    ELSE IF a = IDENTITY_ADDRESS THEN 15 + 3 * Words(in.len)
    ELSE IF a = MODEXP_ADDRESS THEN
            IF in.b = 0 /\ in.m = 0 THEN 200 ELSE ModexpGas(in.b, in.e, in.m, in.expBits)
    ELSE IF a = ECADD_ADDRESS THEN 150
    ELSE IF a = ECMUL_ADDRESS THEN 6000
    ELSE IF a = ECPAIRING_ADDRESS THEN 45000 + 34000 * Len(in.pairs)
    ELSE IF a = BLAKE2F_ADDRESS THEN in.rounds
    ELSE IF a = POINT_EVALUATION_ADDRESS THEN 50000
    ELSE IF a = BLS12_G1ADD_ADDRESS THEN 375
    ELSE IF a = BLS12_G1MSM_ADDRESS THEN
            IF in.pts = <<>> THEN 0 ELSE bls12_msm(Len(in.pts), G1Discount, 12000)
    ELSE IF a = BLS12_G2ADD_ADDRESS THEN 600
    ELSE IF a = BLS12_G2MSM_ADDRESS THEN
            IF in.pts = <<>> THEN 0 ELSE bls12_msm(Len(in.pts), G2Discount, 22500)
    ELSE IF a = BLS12_PAIRING_CHECK_ADDRESS THEN 32600 * Len(in.pairs) + 37700
    ELSE IF a = BLS12_MAP_FP_TO_G1_ADDRESS THEN 5500
    ELSE IF a = BLS12_MAP_FP2_TO_G2_ADDRESS THEN 23800
    ELSE 0

-----------------------------------------------------------------------------
(* The precompiles.  Each maps (input, gas_remaining) to the gas left and  *)
(* the result, in the order of the code's checks.                          *)

ecrecover(in, g) ==
    Charged(3000, g,
            IF in.v \in {27, 28} /\ in.recoverable THEN Ok("data", 32) ELSE Ok("empty", 0))

identity(in, g) == Charged(Cost(IDENTITY_ADDRESS, in), g, Ok("data", in.len))
sha2_256(in, g) == Charged(Cost(SHA2_256_ADDRESS, in), g, Ok("data", 32))
ripemd_160(in, g) == Charged(Cost(RIPEMD_160_ADDRESS, in), g, Ok("data", 32))

(* Mutant: the B = M = 0 short cut returns before metering its 200 gas.  *)
modexp_unmetered(in, g) ==
    IF in.b = 0 /\ in.m = 0 THEN Out(g, Ok("empty", 0))
    ELSE IF \E x \in {in.b, in.e, in.m} : x > UsizeMax
         THEN Out(g, Halt("ParsingInputError"))
    ELSE IF in.b + 96 > UsizeMax \/ in.e + in.b + 96 > UsizeMax
            \/ in.m + in.e + in.b + 96 > UsizeMax
         THEN Out(g, Internal("Overflow"))
    ELSE Charged(ModexpGas(in.b, in.e, in.m, in.expBits), g, Ok("data", in.m))

(* usize::try_from of the three lengths, then the three checked_add of    *)
(* the limits 96 + B, + E, + M; the output is left-padded to M bytes.      *)
modexp(in, g) ==
    IF in.b = 0 /\ in.m = 0 THEN Charged(200, g, Ok("empty", 0))
    ELSE IF \E x \in {in.b, in.e, in.m} : x > UsizeMax
         THEN Out(g, Halt("ParsingInputError"))
    ELSE IF in.b + 96 > UsizeMax \/ in.e + in.b + 96 > UsizeMax
            \/ in.m + in.e + in.b + 96 > UsizeMax
         THEN Out(g, Internal("Overflow"))
    ELSE Charged(ModexpGas(in.b, in.e, in.m, in.expBits), g, Ok("data", in.m))

(* The four coordinates are decoded first, a decoder error being a       *)
(* ParsingInputError; create_point_from_affine then fails off the curve;   *)
(* (0,0) skips it.                                                          *)
ecadd(in, g) ==
    LET p1 == Decoded(in.p1)
        p2 == Decoded(in.p2)
    IN  Charged(150, g,
          IF "bigErr" \in {p1, p2} THEN Halt("ParsingInputError")
          ELSE IF p1 = "inf" /\ p2 = "inf" THEN Ok("zero", 64)
          ELSE IF p1 = "inf" THEN IF p2 = "off" THEN Halt("ParsingInputError") ELSE Ok("point", 64)
          ELSE IF p2 = "inf" THEN IF p1 = "off" THEN Halt("ParsingInputError") ELSE Ok("point", 64)
          ELSE IF "off" \in {p1, p2} THEN Halt("ParsingInputError")
          ELSE IF in.sumZero THEN Ok("zero", 64) ELSE Ok("point", 64))

(* The point is built before the scalar is compared with zero.            *)
ecmul(in, g) ==
    Charged(6000, g,
        IF in.p = "inf" THEN Ok("zero", 64)
        ELSE IF in.p = "bigErr" THEN Internal("Slicing")
        ELSE IF Decoded(in.p) = "off" THEN Halt("ParsingInputError")
        ELSE IF in.scalarZero \/ in.prodZero THEN Ok("zero", 64)
        ELSE Ok("point", 64))

(* parse_first_point_coordinates, parse_second_point_coordinates and      *)
(* handle_pairing_from_coordinates for one 192-byte pair: the error it    *)
(* stops on, in order; "Msg" is the InternalError::msg of a G1 decoder    *)
(* error.                                                                  *)
PairCheckErrs(p) ==
    << IF p.g1 = "half" THEN "InvalidPoint" ELSE "none",
       IF p.g1 = "bigErr" THEN "Msg" ELSE "none",
       IF p.g2 = "half" THEN "InvalidPoint"
       ELSE IF p.g2 = "big" THEN "PointNotInTheCurve" ELSE "none",
       IF Decoded(p.g1) = "off" \/ p.g2 = "off" THEN "InvalidPoint"
       ELSE IF p.g2 = "nosub" THEN "PointNotInSubgroup" ELSE "none" >>
handle_pairing_error(p) == FirstErr(PairCheckErrs(p))
(* handle_pairing_from_coordinates returns false (updates mul) only when   *)
(* neither point is infinity.                                              *)
Contributes(p) == p.g1 # "inf" /\ p.g2 # "inf"

ecpairing(in, g) ==
    IF ~in.aligned THEN Out(g, Halt("ParsingInputError"))
    ELSE Charged(Cost(ECPAIRING_ADDRESS, in), g,
            LET e == FirstErr([i \in DOMAIN in.pairs |-> handle_pairing_error(in.pairs[i])])
            IN  IF e = "Msg" THEN Internal(e)
                ELSE IF e # "none" THEN Halt(e)
                ELSE IF (\E i \in DOMAIN in.pairs : Contributes(in.pairs[i])) /\ ~in.one
                     THEN Ok("zero", 32)
                     ELSE Ok("one", 32))

(* Mutant: the final-block flag taken as any nonzero byte.                *)
blake2f_anyflag(in, g) ==
    IF in.len # 213 THEN Out(g, Halt("ParsingInputError"))
    ELSE Charged(in.rounds, g, Ok("data", 64))

(* Length, then gas for the rounds, then the final-block flag.            *)
blake2f(in, g) ==
    IF in.len # 213 THEN Out(g, Halt("ParsingInputError"))
    ELSE Charged(in.rounds, g,
            IF in.f \notin {0, 1} THEN Halt("ParsingInputError") ELSE Ok("data", 64))

point_evaluation(in, g) ==
    IF in.len # 192 THEN Out(g, Halt("ParsingInputError"))
    ELSE Charged(50000, g,
            IF ~in.hashOk \/ ~in.proofOk THEN Halt("ParsingInputError") ELSE Ok("const", 64))

(* parse_g1_point / parse_g2_point: parse_coordinate rejects a nonzero    *)
(* 16-byte prefix; from_uncompressed(_unchecked) rejects a non-canonical  *)
(* coordinate; the unchecked path tests is_on_curve only, the checked one *)
(* the curve and the subgroup.                                             *)
parse_point(c, unchecked, notInCurve) ==
    CASE c \in {"padbad", "noncanon"} -> "ParsingInputError"
      [] c = "off" -> IF unchecked THEN notInCurve ELSE "ParsingInputError"
      [] c = "nosub" -> IF unchecked THEN "none" ELSE "ParsingInputError"
      [] OTHER -> "none"

(* Mutant: G1ADD/G2ADD parse with the subgroup-checking decoder.          *)
bls12_add_checked(in, g, cost, width, notInCurve) ==
    IF ~in.lenOk THEN Out(g, Halt("ParsingInputError"))
    ELSE Charged(cost, g,
            LET e == FirstErr(<<parse_point(in.p1, FALSE, notInCurve),
                                parse_point(in.p2, FALSE, notInCurve)>>)
            IN  IF e # "none" THEN Halt(e)
                ELSE IF in.sumInf THEN Ok("zero", width) ELSE Ok("point", width))

bls12_add(in, g, cost, width, notInCurve) ==
    IF ~in.lenOk THEN Out(g, Halt("ParsingInputError"))
    ELSE Charged(cost, g,
            LET e == FirstErr(<<parse_point(in.p1, TRUE, notInCurve),
                                parse_point(in.p2, TRUE, notInCurve)>>)
            IN  IF e # "none" THEN Halt(e)
                ELSE IF in.sumInf THEN Ok("zero", width) ELSE Ok("point", width))
bls12_g1add(in, g) == bls12_add(in, g, 375, 128, "G1PointNotInCurve")
bls12_g2add(in, g) == bls12_add(in, g, 600, 256, "G2PointNotInCurve")

bls12_msm_run(in, g, cost, width) ==
    IF ~in.aligned THEN Out(g, Halt("ParsingInputError"))
    ELSE Charged(cost, g,
            LET e == FirstErr([i \in DOMAIN in.pts |-> parse_point(in.pts[i], FALSE, "none")])
            IN  IF e # "none" THEN Halt(e)
                ELSE IF in.sumInf THEN Ok("zero", width) ELSE Ok("point", width))
bls12_g1msm(in, g) == bls12_msm_run(in, g, Cost(BLS12_G1MSM_ADDRESS, in), 128)
bls12_g2msm(in, g) == bls12_msm_run(in, g, Cost(BLS12_G2MSM_ADDRESS, in), 256)

bls12_pairing_check(in, g) ==
    IF ~in.aligned THEN Out(g, Halt("ParsingInputError"))
    ELSE Charged(Cost(BLS12_PAIRING_CHECK_ADDRESS, in), g,
            LET e == FirstErr([j \in 1..2 * Len(in.pairs) |->
                        LET p == in.pairs[(j + 1) \div 2]
                        IN  parse_point(IF j % 2 = 1 THEN p[1] ELSE p[2], FALSE, "none")])
            IN  IF e # "none" THEN Halt(e)
                ELSE IF in.one THEN Ok("one", 32) ELSE Ok("zero", 32))

(* parse_coordinate then Fp::from_bytes.                                   *)
parse_fp(c) == IF c \in {"padbad", "noncanon"} THEN "ParsingInputError" ELSE "none"

bls12_map_fp_to_g1(in, g) ==
    IF ~in.lenOk THEN Out(g, Halt("ParsingInputError"))
    ELSE Charged(5500, g,
            IF parse_fp(in.fp) # "none" THEN Halt(parse_fp(in.fp))
            ELSE IF in.isInf THEN Ok("zero", 128) ELSE Ok("point", 128))

bls12_map_fp2_tp_g2(in, g) ==
    IF ~in.lenOk THEN Out(g, Halt("ParsingInputError"))
    ELSE Charged(23800, g,
            IF FirstErr(<<parse_fp(in.c0), parse_fp(in.c1)>>) # "none"
            THEN Halt("ParsingInputError")
            ELSE IF in.c0 = "zero" /\ in.c1 = "zero" THEN Ok("const", 256)
            ELSE IF in.isInf THEN Ok("zero", 256) ELSE Ok("point", 256))

-----------------------------------------------------------------------------
(* The call frame.  gas is the frame's gas_remaining; call is the last    *)
(* call made (its address, its calldata and the gas it was given); result *)
(* is what execute_precompile returned, NoResult while it runs.           *)
VARIABLES fork, gas, call, result
vars == <<fork, gas, call, result>>

(* The gas the frame offers: one short of the price, the price, one more. *)
GasOffers(a, in) == {x \in {Cost(a, in) - 1, Cost(a, in), Cost(a, in) + 1} : x >= 0}

Init ==
    /\ fork \in Forks
    /\ gas = 0
    /\ call = NoCall
    /\ result = NoResult

(* The interpreter calls a precompile address: it gates it with           *)
(* is_precompile at the current fork and hands over calldata and gas.     *)
(* Each behaviour is one call: precompiles keep no state between calls,   *)
(* so a second call would start from the same state as the first.         *)
Invoke(a, in, g) ==
    /\ call = NoCall
    /\ is_precompile(a, fork)
    /\ call' = [addr |-> a, input |-> in, gas |-> g]
    /\ gas' = g
    /\ result' = NoResult
    /\ UNCHANGED fork

(* execute_precompile dispatches on the address to one precompile, which  *)
(* leaves the gas it did not consume and returns its result.              *)
Exec(a, r) ==
    /\ call # NoCall
    /\ result = NoResult
    /\ call.addr = a
    /\ gas' = r.gas
    /\ result' = r.res
    /\ UNCHANGED <<fork, call>>

Ecrecover == Exec(ECRECOVER_ADDRESS, ecrecover(call.input, gas))
Sha2_256 == Exec(SHA2_256_ADDRESS, sha2_256(call.input, gas))
Ripemd_160 == Exec(RIPEMD_160_ADDRESS, ripemd_160(call.input, gas))
Identity == Exec(IDENTITY_ADDRESS, identity(call.input, gas))
Modexp == Exec(MODEXP_ADDRESS, modexp(call.input, gas))
Ecadd == Exec(ECADD_ADDRESS, ecadd(call.input, gas))
Ecmul == Exec(ECMUL_ADDRESS, ecmul(call.input, gas))
Ecpairing == Exec(ECPAIRING_ADDRESS, ecpairing(call.input, gas))
Blake2f == Exec(BLAKE2F_ADDRESS, blake2f(call.input, gas))
PointEvaluation == Exec(POINT_EVALUATION_ADDRESS, point_evaluation(call.input, gas))
Bls12G1Add == Exec(BLS12_G1ADD_ADDRESS, bls12_g1add(call.input, gas))
Bls12G1Msm == Exec(BLS12_G1MSM_ADDRESS, bls12_g1msm(call.input, gas))
Bls12G2Add == Exec(BLS12_G2ADD_ADDRESS, bls12_g2add(call.input, gas))
Bls12G2Msm == Exec(BLS12_G2MSM_ADDRESS, bls12_g2msm(call.input, gas))
Bls12PairingCheck == Exec(BLS12_PAIRING_CHECK_ADDRESS, bls12_pairing_check(call.input, gas))
Bls12MapFpToG1 == Exec(BLS12_MAP_FP_TO_G1_ADDRESS, bls12_map_fp_to_g1(call.input, gas))
Bls12MapFp2ToG2 == Exec(BLS12_MAP_FP2_TO_G2_ADDRESS, bls12_map_fp2_tp_g2(call.input, gas))

ExecutePrecompile ==
    \/ Ecrecover \/ Sha2_256 \/ Ripemd_160 \/ Identity \/ Modexp
    \/ Ecadd \/ Ecmul \/ Ecpairing \/ Blake2f \/ PointEvaluation
    \/ Bls12G1Add \/ Bls12G1Msm \/ Bls12G2Add \/ Bls12G2Msm
    \/ Bls12PairingCheck \/ Bls12MapFpToG1 \/ Bls12MapFp2ToG2

Next ==
    \/ \E a \in Addresses : \E in \in Inputs(a) : \E g \in GasOffers(a, in) : Invoke(a, in, g)
    \/ ExecutePrecompile

Spec == Init /\ [][Next]_vars

-----------------------------------------------------------------------------
(* Every variable has its type; the gas the frame holds is never negative. *)
CallOK(c) == c.addr \in Addresses /\ c.input \in Inputs(c.addr) /\ c.gas \in Nat
TypeOK ==
    /\ fork \in Forks
    /\ gas \in Nat
    /\ call = NoCall \/ CallOK(call)
    /\ result \in Results \cup {NoResult}
    /\ result # NoResult => call # NoCall

(* Metering (spec section 3, invariants 1 and 2; section 8).  A call that *)
(* returns output has paid exactly its price, once; a call that fails     *)
(* with NotEnoughGas was offered less than the price and keeps all its    *)
(* gas; any other failure has either paid exactly the price or nothing    *)
(* (it failed before metering).  This is about the order of the checks   *)
(* and the one increase_precompile_consumed_gas in every precompile.      *)
GasCharged ==
    result # NoResult =>
        LET price == Cost(call.addr, call.input) IN
        /\ result.status = "ok" => gas = call.gas - price
        /\ result.err = "NotEnoughGas" => gas = call.gas /\ call.gas < price
        /\ gas \in {call.gas, call.gas - price}

-----------------------------------------------------------------------------
(* What spec.md says each precompile accepts and returns, written from    *)
(* the spec, to be compared with what the code does.                      *)
Paid(c) == c.gas >= Cost(c.addr, c.input)

(* EIP-2537 policy table (spec 4.9): on-curve always, subgroup for MSM    *)
(* and pairing only; all-zero encodings are the identity.                 *)
SpecPointValid(c, needSubgroup) == c \in {"inf", "on"} \/ (c = "nosub" /\ ~needSubgroup)
SpecFpValid(c) == c \in {"zero", "canon"}
SpecBLSAccepts(a, in) ==
    CASE a \in {BLS12_G1ADD_ADDRESS, BLS12_G2ADD_ADDRESS} ->
            in.lenOk /\ SpecPointValid(in.p1, FALSE) /\ SpecPointValid(in.p2, FALSE)
      [] a \in {BLS12_G1MSM_ADDRESS, BLS12_G2MSM_ADDRESS} ->
            in.aligned /\ \A i \in DOMAIN in.pts : SpecPointValid(in.pts[i], TRUE)
      [] a = BLS12_PAIRING_CHECK_ADDRESS ->
            in.aligned /\ \A i \in DOMAIN in.pairs :
                SpecPointValid(in.pairs[i][1], TRUE) /\ SpecPointValid(in.pairs[i][2], TRUE)
      [] a = BLS12_MAP_FP_TO_G1_ADDRESS -> in.lenOk /\ SpecFpValid(in.fp)
      [] a = BLS12_MAP_FP2_TO_G2_ADDRESS -> in.lenOk /\ SpecFpValid(in.c0) /\ SpecFpValid(in.c1)
SpecBLSOut(a, in) ==
    LET width == IF a \in {BLS12_G1ADD_ADDRESS, BLS12_G1MSM_ADDRESS, BLS12_MAP_FP_TO_G1_ADDRESS}
                 THEN 128 ELSE 256
    IN  CASE a \in {BLS12_G1ADD_ADDRESS, BLS12_G2ADD_ADDRESS, BLS12_G1MSM_ADDRESS,
                    BLS12_G2MSM_ADDRESS} ->
                [kind |-> IF in.sumInf THEN "zero" ELSE "point", len |-> width]
          [] a = BLS12_PAIRING_CHECK_ADDRESS -> [kind |-> IF in.one THEN "one" ELSE "zero", len |-> 32]
          [] a = BLS12_MAP_FP_TO_G1_ADDRESS -> [kind |-> IF in.isInf THEN "zero" ELSE "point", len |-> 128]
          [] a = BLS12_MAP_FP2_TO_G2_ADDRESS ->
                [kind |-> IF in.c0 = "zero" /\ in.c1 = "zero" THEN "const"
                          ELSE IF in.isInf THEN "zero" ELSE "point", len |-> 256]

(* A BLS12-381 call succeeds exactly when spec 4.9 says it must (its      *)
(* length, padding, canonical coordinates, curve and subgroup checks as   *)
(* the per-operation table requires, and enough gas), and returns the     *)
(* output spec 4.9 gives, identity as the zero blob.                       *)
BLSConforms ==
    result # NoResult /\ call.addr \in PRECOMPILES_POST_CANCUN =>
        /\ result.status = "ok" <=> Paid(call) /\ SpecBLSAccepts(call.addr, call.input)
        /\ result.status = "ok" => result.out = SpecBLSOut(call.addr, call.input)

(* Spec 4.5 and 7: the modexp lengths and the offsets computed from them  *)
(* fit a machine integer.                                                  *)
SpecModexpFits(in) ==
    (in.b = 0 /\ in.m = 0) \/ in.m + in.e + in.b + 96 <= UsizeMax
(* Spec 4.6 and EIP-197: no half-zero coordinates, G2 halves below the    *)
(* prime, a finite G1 point on the curve and a finite G2 point on the      *)
(* twist and in the subgroup.  Spec 4.6 states the curve and subgroup      *)
(* checks for a pair of two finite points and is silent on a pair with one *)
(* point at infinity; EIP-197 requires every input point to be valid, and  *)
(* that is the rule taken here for the finite point of such a pair.        *)
SpecPairOK(p) ==
    /\ p.g1 # "half" /\ p.g2 \notin {"half", "big"}
    /\ p.g1 # "inf" => p.g1 = "on"
    /\ p.g2 # "inf" => p.g2 = "on"
(* Spec 4.6: one when the accumulated pairing product is one.  A pair with *)
(* a point at infinity multiplies it by one, so the product is that of the *)
(* finite pairs, whose value `one` abstracts; no finite pair gives one.    *)
SpecPairingOut(in) ==
    [kind |-> IF in.one \/ \A i \in DOMAIN in.pairs : "inf" \in {in.pairs[i].g1, in.pairs[i].g2}
              THEN "one" ELSE "zero",
     len |-> 32]

(* ECRECOVER, the hashes, MODEXP, ECADD, ECPAIRING, BLAKE2F and the point *)
(* evaluation succeed exactly when spec 4.3-4.8 say they must and return  *)
(* what it says: ecrecover's null result on a bad signature, modexp's M   *)
(* bytes, ecpairing's pairing check (one on an empty input), Blake2f's f  *)
(* flag, etc.                                                              *)
CoreConforms ==
    result # NoResult =>
        LET a == call.addr
            in == call.input
            ok == result.status = "ok"
        IN
        /\ a = ECRECOVER_ADDRESS =>
              /\ ok <=> Paid(call)
              /\ ok => result.out = IF in.v \in {27, 28} /\ in.recoverable
                                    THEN [kind |-> "data", len |-> 32]
                                    ELSE [kind |-> "empty", len |-> 0]
        /\ a \in {SHA2_256_ADDRESS, RIPEMD_160_ADDRESS, IDENTITY_ADDRESS} =>
              /\ ok <=> Paid(call)
              /\ ok => result.out.len = IF a = IDENTITY_ADDRESS THEN in.len ELSE 32
        /\ a = MODEXP_ADDRESS =>
              /\ ok <=> Paid(call) /\ SpecModexpFits(in)
              /\ ok => result.out.len = in.m
        /\ a = ECADD_ADDRESS =>
              /\ ok <=> Paid(call) /\ "off" \notin {in.p1, in.p2}
              /\ ok => result.out = [kind |-> IF in.sumZero \/ (in.p1 = "inf" /\ in.p2 = "inf")
                                              THEN "zero" ELSE "point", len |-> 64]
        /\ a = ECPAIRING_ADDRESS =>
              /\ ok <=> in.aligned /\ Paid(call) /\ \A i \in DOMAIN in.pairs : SpecPairOK(in.pairs[i])
              /\ ok => result.out = SpecPairingOut(in)
        /\ a = BLAKE2F_ADDRESS =>
              /\ ok <=> Paid(call) /\ in.len = 213 /\ in.f \in {0, 1}
              /\ ok => result.out.len = 64
        /\ a = POINT_EVALUATION_ADDRESS =>
              /\ ok <=> Paid(call) /\ in.len = 192 /\ in.hashOk /\ in.proofOk
              /\ ok => result.out = [kind |-> "const", len |-> 64]

(* Spec 4.6: ECMUL returns 64 zero bytes when the point is (0,0) or the   *)
(* scalar is zero, and fails only on a finite point off the curve.        *)
EcmulConforms ==
    result # NoResult /\ call.addr = ECMUL_ADDRESS =>
        LET in == call.input IN
        /\ Paid(call) /\ (in.p = "inf" \/ in.scalarZero) => result = Ok("zero", 64)
        /\ result.status = "ok" <=> Paid(call) /\ (in.p # "off" \/ in.scalarZero)

(* EIP-196 and EIP-197: a G1 coordinate that is not below the field prime *)
(* makes ECADD, ECMUL and ECPAIRING fail as a precompile (a halt, all gas *)
(* consumed); ethrex checks the G2 halves against ALT_BN128_PRIME but     *)
(* leaves the G1 coordinates to BN254FieldElement::from_bytes_be.         *)
HasNonCanonicalG1(a, in) ==
    CASE a = ECADD_ADDRESS -> {in.p1, in.p2} \cap BNNonCanonical # {}
      [] a = ECMUL_ADDRESS -> in.p \in BNNonCanonical
      [] a = ECPAIRING_ADDRESS -> \E i \in DOMAIN in.pairs : in.pairs[i].g1 \in BNNonCanonical
      [] OTHER -> FALSE
G1NonCanonicalRejected ==
    result # NoResult /\ Paid(call) /\ HasNonCanonicalG1(call.addr, call.input) =>
        result.status = "halt"

(* Spec 4.5 and 7: an overflow of the lengths or of the offset arithmetic *)
(* is an input-parsing error, a precompile failure; no input makes a      *)
(* precompile return an InternalError, the VM's own fault.                *)
FailClosed == result # NoResult => result.status # "internal"
=============================================================================
