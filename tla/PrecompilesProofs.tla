-------------------------- MODULE PrecompilesProofs --------------------------
(***************************************************************************)
(* Proofs about Precompiles for every value of the constants: the type    *)
(* invariant and the metering invariant GasCharged.                       *)
(*                                                                         *)
(* The argument: every precompile returns either an error raised before   *)
(* it meters (gas untouched, never NotEnoughGas) or the result of         *)
(* Charged(Cost(a, in), g, r) with r never NotEnoughGas.  RunOK states    *)
(* what GasCharged needs of one precompile run; one lemma per precompile  *)
(* proves it, and the step of Exec then carries it into the state.        *)
(***************************************************************************)
EXTENDS Precompiles, TLAPS

USE DEF ECRECOVER_ADDRESS, SHA2_256_ADDRESS, RIPEMD_160_ADDRESS, IDENTITY_ADDRESS,
        MODEXP_ADDRESS, ECADD_ADDRESS, ECMUL_ADDRESS, ECPAIRING_ADDRESS, BLAKE2F_ADDRESS,
        POINT_EVALUATION_ADDRESS, BLS12_G1ADD_ADDRESS, BLS12_G1MSM_ADDRESS,
        BLS12_G2ADD_ADDRESS, BLS12_G2MSM_ADDRESS, BLS12_PAIRING_CHECK_ADDRESS,
        BLS12_MAP_FP_TO_G1_ADDRESS, BLS12_MAP_FP2_TO_G2_ADDRESS

(* What one precompile run o = op(in, g) must satisfy. *)
RunOK(o, a, in, g) ==
    /\ o.gas \in Nat
    /\ o.res \in Results
    /\ o.res.status = "ok" => o.gas = g - Cost(a, in)
    /\ o.res.err = "NotEnoughGas" => o.gas = g /\ g < Cost(a, in)
    /\ o.gas \in {g, g - Cost(a, in)}

LEMMA ChargedOK ==
    ASSUME NEW a, NEW in, NEW g \in Nat, NEW r \in Results, r.err # "NotEnoughGas",
           NEW cost \in Nat, Cost(a, in) = cost
    PROVE  RunOK(Charged(cost, g, r), a, in, g)
BY DEF RunOK, Charged, Out, Results, Halt, NoOut, OutKinds, Errors

LEMMA EarlyOK ==
    ASSUME NEW a, NEW in, NEW g \in Nat, NEW r \in Results,
           r.status # "ok", r.err # "NotEnoughGas"
    PROVE  RunOK(Out(g, r), a, in, g)
BY DEF RunOK, Out

LEMMA OkType ==
    ASSUME NEW k \in OutKinds \ {"none"}, NEW n \in Nat
    PROVE  Ok(k, n) \in Results /\ Ok(k, n).err # "NotEnoughGas"
BY DEF Ok, Results, Errors, OutKinds

LEMMA HaltType ==
    ASSUME NEW e \in Errors \ {"none", "NotEnoughGas"}
    PROVE  Halt(e) \in Results /\ Halt(e).err # "NotEnoughGas" /\ Halt(e).status # "ok"
BY DEF Halt, Results, NoOut, OutKinds

LEMMA EcrecoverOK ==
    ASSUME NEW in \in Inputs(ECRECOVER_ADDRESS), NEW g \in Nat
    PROVE  RunOK(ecrecover(in, g), ECRECOVER_ADDRESS, in, g)
<1>1. Cost(ECRECOVER_ADDRESS, in) = 3000
    BY DEF Cost
<1>2. Ok("data", 32) \in Results /\ Ok("empty", 0) \in Results
      /\ Ok("data", 32).err # "NotEnoughGas" /\ Ok("empty", 0).err # "NotEnoughGas"
    BY OkType DEF OutKinds
<1>. QED BY <1>1, <1>2, ChargedOK DEF ecrecover

LEMMA InternalType ==
    ASSUME NEW e \in Errors \ {"none", "NotEnoughGas"}
    PROVE  Internal(e) \in Results /\ Internal(e).err # "NotEnoughGas"
           /\ Internal(e).status # "ok"
BY DEF Internal, Results, NoOut, OutKinds

(* FirstErr returns one of the checks' results, or "none". *)
LEMMA FirstErrType ==
    ASSUME NEW S, NEW s, \A i \in DOMAIN s : s[i] \in S
    PROVE  FirstErr(s) \in S \cup {"none"}
BY DEF FirstErr

LEMMA SeqsUpToSeq ==
    ASSUME NEW S, NEW n \in Nat, NEW s \in SeqsUpTo(S, n)
    PROVE  s \in Seq(S) /\ Len(s) \in 0..n /\ DOMAIN s = 1..Len(s)
BY DEF SeqsUpTo

(* The errors a check returns after metering: never NotEnoughGas. *)
CheckErrs == Errors \ {"NotEnoughGas"}

(* The modexp lengths, exponent head and price are naturals.             *)
LEMMA ModexpFacts ==
    ASSUME NEW in \in ModexpInputs
    PROVE  /\ in.b \in Nat /\ in.e \in Nat /\ in.m \in Nat /\ in.expBits \in Nat
           /\ ModexpGas(in.b, in.e, in.m, in.expBits) \in Nat
<1>1. in.b \in Nat /\ in.e \in Nat /\ in.m \in Nat /\ in.expBits \in Nat
    <2>1. in \in [b : SizeVals, e : SizeVals, m : SizeVals, expBits : {0, 1, 9}]
        BY DEF ModexpInputs
    <2>2. in.b \in Nat
        BY <2>1, SizeValsAssumption
    <2>3. in.e \in Nat
        BY <2>1, SizeValsAssumption
    <2>4. in.m \in Nat
        BY <2>1, SizeValsAssumption
    <2>5. in.expBits \in Nat
        BY <2>1
    <2>. QED BY <2>2, <2>3, <2>4, <2>5
<1>2. ModexpIterations(in.e, in.expBits) \in Nat
    BY <1>1 DEF ModexpIterations, Larger, BitsOf
<1>. QED BY <1>1, <1>2 DEF ModexpGas, Larger

LEMMA ModexpOK ==
    ASSUME NEW in \in Inputs(MODEXP_ADDRESS), NEW g \in Nat
    PROVE  RunOK(modexp(in, g), MODEXP_ADDRESS, in, g)
<1>1. Cost(MODEXP_ADDRESS, in) =
        IF in.b = 0 /\ in.m = 0 THEN 200 ELSE ModexpGas(in.b, in.e, in.m, in.expBits)
    BY DEF Cost
<1>2. in \in ModexpInputs
    BY DEF Inputs
<1>3. in.b \in Nat /\ in.e \in Nat /\ in.m \in Nat /\ in.expBits \in Nat
    BY <1>2, ModexpFacts
<1>4. ModexpGas(in.b, in.e, in.m, in.expBits) \in Nat
    BY <1>2, ModexpFacts
<1>5. Ok("empty", 0) \in Results /\ Ok("empty", 0).err # "NotEnoughGas"
      /\ Ok("data", in.m) \in Results /\ Ok("data", in.m).err # "NotEnoughGas"
    BY <1>3, OkType DEF OutKinds
<1>6. CASE in.b = 0 /\ in.m = 0
    <2>1. RunOK(Charged(200, g, Ok("empty", 0)), MODEXP_ADDRESS, in, g)
        BY <1>1, <1>5, <1>6, ChargedOK
    <2>. QED BY <1>6, <2>1 DEF modexp
<1>7. CASE ~(in.b = 0 /\ in.m = 0) /\ \E x \in {in.b, in.e, in.m} : x > UsizeMax
    <2>1. RunOK(Out(g, Halt("ParsingInputError")), MODEXP_ADDRESS, in, g)
        BY HaltType, EarlyOK DEF Errors
    <2>. QED BY <1>7, <2>1 DEF modexp
<1>8. CASE ~(in.b = 0 /\ in.m = 0) /\ ~(\E x \in {in.b, in.e, in.m} : x > UsizeMax)
           /\ (in.b + 96 > UsizeMax \/ in.e + in.b + 96 > UsizeMax
               \/ in.m + in.e + in.b + 96 > UsizeMax)
    <2>1. RunOK(Out(g, Internal("Overflow")), MODEXP_ADDRESS, in, g)
        BY InternalType, EarlyOK DEF Errors
    <2>. QED BY <1>8, <2>1 DEF modexp
<1>9. CASE ~(in.b = 0 /\ in.m = 0) /\ ~(\E x \in {in.b, in.e, in.m} : x > UsizeMax)
           /\ ~(in.b + 96 > UsizeMax \/ in.e + in.b + 96 > UsizeMax
               \/ in.m + in.e + in.b + 96 > UsizeMax)
    <2>1. RunOK(Charged(ModexpGas(in.b, in.e, in.m, in.expBits), g, Ok("data", in.m)),
                MODEXP_ADDRESS, in, g)
        BY <1>1, <1>4, <1>5, <1>9, ChargedOK
    <2>. QED BY <1>9, <2>1 DEF modexp
<1>. QED BY <1>6, <1>7, <1>8, <1>9

(* The first failed check of a sequence of checks is a precompile error.  *)
LEMMA FirstErrCheck ==
    ASSUME NEW s, \A i \in DOMAIN s : s[i] \in CheckErrs
    PROVE  FirstErr(s) \in CheckErrs
<1>1. FirstErr(s) \in CheckErrs \cup {"none"}
    BY FirstErrType
<1>2. "none" \in CheckErrs
    BY DEF CheckErrs, Errors
<1>. QED BY <1>1, <1>2

(* A result a precompile returns after metering: never NotEnoughGas.       *)
GoodRes == {r \in Results : r.err # "NotEnoughGas"}

LEMMA GoodCharged ==
    ASSUME NEW a, NEW in, NEW g \in Nat, NEW r \in GoodRes,
           NEW cost \in Nat, Cost(a, in) = cost
    PROVE  RunOK(Charged(cost, g, r), a, in, g)
BY ChargedOK DEF GoodRes

LEMMA OkGood ==
    ASSUME NEW k \in OutKinds \ {"none"}, NEW n \in Nat
    PROVE  Ok(k, n) \in GoodRes
BY OkType DEF GoodRes

(* Halt on the first failed check, or the success result.                  *)
LEMMA HaltOrGood ==
    ASSUME NEW e \in CheckErrs, NEW ok \in GoodRes
    PROVE  (IF e # "none" THEN Halt(e) ELSE ok) \in GoodRes
<1>1. CASE e # "none"
    <2>1. e \in Errors \ {"none", "NotEnoughGas"}
        BY <1>1 DEF CheckErrs
    <2>. QED BY <1>1, <2>1, HaltType DEF GoodRes
<1>. QED BY <1>1

(* A run that stops on a malformed length before metering.                 *)
LEMMA EarlyParsingOK ==
    ASSUME NEW a, NEW in, NEW g \in Nat
    PROVE  RunOK(Out(g, Halt("ParsingInputError")), a, in, g)
BY HaltType, EarlyOK DEF Errors

LEMMA Sha2_256OK ==
    ASSUME NEW in \in Inputs(SHA2_256_ADDRESS), NEW g \in Nat
    PROVE  RunOK(sha2_256(in, g), SHA2_256_ADDRESS, in, g)
<1>1. in.len \in Nat
    <2>1. in \in LenInputs
        BY DEF Inputs
    <2>. QED BY <2>1, LensAssumption DEF LenInputs
<1>2. Cost(SHA2_256_ADDRESS, in) \in Nat
    BY <1>1 DEF Cost, Words
<1>3. Ok("data", 32) \in GoodRes
    BY OkGood DEF OutKinds
<1>. QED BY <1>2, <1>3, GoodCharged DEF sha2_256

LEMMA Ripemd_160OK ==
    ASSUME NEW in \in Inputs(RIPEMD_160_ADDRESS), NEW g \in Nat
    PROVE  RunOK(ripemd_160(in, g), RIPEMD_160_ADDRESS, in, g)
<1>1. in.len \in Nat
    <2>1. in \in LenInputs
        BY DEF Inputs
    <2>. QED BY <2>1, LensAssumption DEF LenInputs
<1>2. Cost(RIPEMD_160_ADDRESS, in) \in Nat
    BY <1>1 DEF Cost, Words
<1>3. Ok("data", 32) \in GoodRes
    BY OkGood DEF OutKinds
<1>. QED BY <1>2, <1>3, GoodCharged DEF ripemd_160

LEMMA IdentityOK ==
    ASSUME NEW in \in Inputs(IDENTITY_ADDRESS), NEW g \in Nat
    PROVE  RunOK(identity(in, g), IDENTITY_ADDRESS, in, g)
<1>1. in.len \in Nat
    <2>1. in \in LenInputs
        BY DEF Inputs
    <2>. QED BY <2>1, LensAssumption DEF LenInputs
<1>2. Cost(IDENTITY_ADDRESS, in) \in Nat
    BY <1>1 DEF Cost, Words
<1>3. Ok("data", in.len) \in GoodRes
    BY <1>1, OkGood DEF OutKinds
<1>. QED BY <1>2, <1>3, GoodCharged DEF identity

LEMMA EcaddOK ==
    ASSUME NEW in \in Inputs(ECADD_ADDRESS), NEW g \in Nat
    PROVE  RunOK(ecadd(in, g), ECADD_ADDRESS, in, g)
<1>1. Cost(ECADD_ADDRESS, in) = 150
    BY DEF Cost
<1>2. Ok("zero", 64) \in GoodRes /\ Ok("point", 64) \in GoodRes
      /\ Halt("ParsingInputError") \in GoodRes
    BY OkGood, HaltType DEF OutKinds, Errors, GoodRes
<1>. QED BY <1>1, <1>2, GoodCharged DEF ecadd


LEMMA EcmulOK ==
    ASSUME NEW in \in Inputs(ECMUL_ADDRESS), NEW g \in Nat
    PROVE  RunOK(ecmul(in, g), ECMUL_ADDRESS, in, g)
<1>1. Cost(ECMUL_ADDRESS, in) = 6000
    BY DEF Cost
<1>2. Ok("zero", 64) \in GoodRes /\ Ok("point", 64) \in GoodRes
      /\ Halt("ParsingInputError") \in GoodRes /\ Internal("Slicing") \in GoodRes
    BY OkGood, HaltType, InternalType DEF OutKinds, Errors, GoodRes
<1>. QED BY <1>1, <1>2, GoodCharged DEF ecmul

(* Every check of a pairing, a point or a field element reports one of the *)
(* precompile errors, or "none".                                           *)
LEMMA PairErrType ==
    ASSUME NEW p
    PROVE  handle_pairing_error(p) \in CheckErrs
<1>1. \A i \in DOMAIN PairCheckErrs(p) : PairCheckErrs(p)[i] \in CheckErrs
    BY DEF PairCheckErrs, CheckErrs, Errors
<1>. QED BY <1>1, FirstErrType DEF handle_pairing_error, CheckErrs, Errors

LEMMA ParsePointType ==
    ASSUME NEW c, NEW u \in BOOLEAN, NEW n \in CheckErrs
    PROVE  parse_point(c, u, n) \in CheckErrs
BY Zenon DEF parse_point, CheckErrs, Errors

LEMMA ParseFpType ==
    ASSUME NEW c
    PROVE  parse_fp(c) \in CheckErrs
BY DEF parse_fp, CheckErrs, Errors

LEMMA EcpairingOK ==
    ASSUME NEW in \in Inputs(ECPAIRING_ADDRESS), NEW g \in Nat
    PROVE  RunOK(ecpairing(in, g), ECPAIRING_ADDRESS, in, g)
<1>1. in \in EcpairingInputs
    BY DEF Inputs
<1>2. in.pairs \in Seq(BNPairs)
    <2>1. in.pairs \in SeqsUpTo(BNPairs, MaxPairs)
        BY <1>1 DEF EcpairingInputs
    <2>. QED BY <2>1, SeqsUpToSeq, MaxPairsAssumption
<1>3. Cost(ECPAIRING_ADDRESS, in) = 45000 + 34000 * Len(in.pairs)
    BY DEF Cost
<1>4. 45000 + 34000 * Len(in.pairs) \in Nat
    BY <1>2
<1>. DEFINE e == FirstErr([i \in DOMAIN in.pairs |-> handle_pairing_error(in.pairs[i])])
            ok == IF (\E i \in DOMAIN in.pairs : Contributes(in.pairs[i])) /\ ~in.one
                  THEN Ok("zero", 32) ELSE Ok("one", 32)
<1>5. e \in CheckErrs
    <2>1. \A i \in DOMAIN in.pairs : handle_pairing_error(in.pairs[i]) \in CheckErrs
        BY PairErrType
    <2>. QED BY <2>1, FirstErrType DEF CheckErrs, Errors
<1>6. ok \in GoodRes
    BY OkGood DEF OutKinds
<1>7. (IF e = "Msg" THEN Internal(e) ELSE IF e # "none" THEN Halt(e) ELSE ok) \in GoodRes
    <2>1. (IF e # "none" THEN Halt(e) ELSE ok) \in GoodRes
        BY <1>5, <1>6, HaltOrGood
    <2>2. Internal("Msg") \in GoodRes
        BY InternalType DEF Errors, GoodRes
    <2>. QED BY <2>1, <2>2
<1>8. CASE in.aligned
    <2>1. RunOK(Charged(Cost(ECPAIRING_ADDRESS, in), g,
                        IF e = "Msg" THEN Internal(e) ELSE IF e # "none" THEN Halt(e) ELSE ok),
                ECPAIRING_ADDRESS, in, g)
        BY <1>3, <1>4, <1>7, GoodCharged
    <2>. QED BY <1>8, <2>1 DEF ecpairing
<1>9. CASE ~in.aligned
    BY <1>9, EarlyParsingOK DEF ecpairing
<1>. QED BY <1>8, <1>9

LEMMA Blake2fOK ==
    ASSUME NEW in \in Inputs(BLAKE2F_ADDRESS), NEW g \in Nat
    PROVE  RunOK(blake2f(in, g), BLAKE2F_ADDRESS, in, g)
<1>1. in.rounds \in Nat
    <2>1. in \in Blake2fInputs
        BY DEF Inputs
    <2>. QED BY <2>1, RoundsAssumption DEF Blake2fInputs
<1>2. Cost(BLAKE2F_ADDRESS, in) = in.rounds
    BY DEF Cost
<1>3. (IF in.f \notin {0, 1} THEN Halt("ParsingInputError") ELSE Ok("data", 64)) \in GoodRes
    BY OkGood, HaltType DEF OutKinds, Errors, GoodRes
<1>4. CASE in.len = 213
    <2>1. RunOK(Charged(in.rounds, g,
                  IF in.f \notin {0, 1} THEN Halt("ParsingInputError") ELSE Ok("data", 64)),
                BLAKE2F_ADDRESS, in, g)
        BY <1>1, <1>2, <1>3, GoodCharged
    <2>. QED BY <1>4, <2>1 DEF blake2f
<1>5. CASE in.len # 213
    BY <1>5, EarlyParsingOK DEF blake2f
<1>. QED BY <1>4, <1>5

LEMMA PointEvaluationOK ==
    ASSUME NEW in \in Inputs(POINT_EVALUATION_ADDRESS), NEW g \in Nat
    PROVE  RunOK(point_evaluation(in, g), POINT_EVALUATION_ADDRESS, in, g)
<1>1. Cost(POINT_EVALUATION_ADDRESS, in) = 50000
    BY DEF Cost
<1>2. (IF ~in.hashOk \/ ~in.proofOk THEN Halt("ParsingInputError") ELSE Ok("const", 64))
        \in GoodRes
    BY OkGood, HaltType DEF OutKinds, Errors, GoodRes
<1>3. CASE in.len = 192
    <2>1. RunOK(Charged(50000, g,
                  IF ~in.hashOk \/ ~in.proofOk THEN Halt("ParsingInputError") ELSE Ok("const", 64)),
                POINT_EVALUATION_ADDRESS, in, g)
        BY <1>1, <1>2, GoodCharged
    <2>. QED BY <1>3, <2>1 DEF point_evaluation
<1>4. CASE in.len # 192
    BY <1>4, EarlyParsingOK DEF point_evaluation
<1>. QED BY <1>3, <1>4


(* G1ADD and G2ADD share bls12_add; only the price, the output width and   *)
(* the not-in-curve error differ.                                          *)
LEMMA Bls12AddOK ==
    ASSUME NEW a, NEW in, NEW g \in Nat, NEW cost \in Nat, Cost(a, in) = cost,
           NEW width \in Nat, NEW n \in CheckErrs
    PROVE  RunOK(bls12_add(in, g, cost, width, n), a, in, g)
<1>. DEFINE e == FirstErr(<<parse_point(in.p1, TRUE, n), parse_point(in.p2, TRUE, n)>>)
            ok == IF in.sumInf THEN Ok("zero", width) ELSE Ok("point", width)
<1>1. e \in CheckErrs
    <2>. DEFINE x == parse_point(in.p1, TRUE, n)
                y == parse_point(in.p2, TRUE, n)
    <2>1. x \in CheckErrs /\ y \in CheckErrs
        BY ParsePointType
    <2>. HIDE DEF x, y
    <2>2. \A i \in DOMAIN <<x, y>> : <<x, y>>[i] \in CheckErrs
        BY <2>1
    <2>3. FirstErr(<<x, y>>) \in CheckErrs
        BY <2>2, FirstErrCheck
    <2>. QED BY <2>3 DEF e, x, y
<1>2. ok \in GoodRes
    BY OkGood DEF OutKinds
<1>3. RunOK(Charged(cost, g, IF e # "none" THEN Halt(e) ELSE ok), a, in, g)
    BY <1>1, <1>2, HaltOrGood, GoodCharged
<1>. QED BY <1>3, EarlyParsingOK DEF bls12_add

LEMMA Bls12G1AddOK ==
    ASSUME NEW in \in Inputs(BLS12_G1ADD_ADDRESS), NEW g \in Nat
    PROVE  RunOK(bls12_g1add(in, g), BLS12_G1ADD_ADDRESS, in, g)
<1>1. Cost(BLS12_G1ADD_ADDRESS, in) = 375
    BY DEF Cost
<1>. QED BY <1>1, Bls12AddOK DEF bls12_g1add, CheckErrs, Errors

LEMMA Bls12G2AddOK ==
    ASSUME NEW in \in Inputs(BLS12_G2ADD_ADDRESS), NEW g \in Nat
    PROVE  RunOK(bls12_g2add(in, g), BLS12_G2ADD_ADDRESS, in, g)
<1>1. Cost(BLS12_G2ADD_ADDRESS, in) = 600
    BY DEF Cost
<1>. QED BY <1>1, Bls12AddOK DEF bls12_g2add, CheckErrs, Errors

(* G1MSM and G2MSM share bls12_msm_run.                                    *)
LEMMA Bls12MsmOK ==
    ASSUME NEW a, NEW in, NEW g \in Nat, NEW cost \in Nat, Cost(a, in) = cost,
           NEW width \in Nat
    PROVE  RunOK(bls12_msm_run(in, g, cost, width), a, in, g)
<1>. DEFINE e == FirstErr([i \in DOMAIN in.pts |-> parse_point(in.pts[i], FALSE, "none")])
            ok == IF in.sumInf THEN Ok("zero", width) ELSE Ok("point", width)
<1>1. e \in CheckErrs
    <2>1. \A i \in DOMAIN in.pts : parse_point(in.pts[i], FALSE, "none") \in CheckErrs
        BY ParsePointType DEF CheckErrs, Errors
    <2>. QED BY <2>1, FirstErrType DEF CheckErrs, Errors
<1>2. ok \in GoodRes
    BY OkGood DEF OutKinds
<1>3. RunOK(Charged(cost, g, IF e # "none" THEN Halt(e) ELSE ok), a, in, g)
    BY <1>1, <1>2, HaltOrGood, GoodCharged
<1>. QED BY <1>3, EarlyParsingOK DEF bls12_msm_run

(* The MSM price is a natural number for up to MaxPairs points.            *)
LEMMA MsmCostNat ==
    ASSUME NEW in \in MsmInputs, NEW d \in {G1Discount, G2Discount}, NEW m \in Nat
    PROVE  (IF in.pts = <<>> THEN 0 ELSE bls12_msm(Len(in.pts), d, m)) \in Nat
<1>. DEFINE k == Len(in.pts)
<1>1. in.pts \in Seq(BLSClass) /\ k \in 0..MaxPairs
    <2>1. in.pts \in SeqsUpTo(BLSClass, MaxPairs)
        BY DEF MsmInputs
    <2>. QED BY <2>1, SeqsUpToSeq, MaxPairsAssumption
<1>2. CASE in.pts # <<>>
    <2>0. k # 0
        BY <1>1, <1>2
    <2>1. k \in 1..3
        <3>1. k \in 0..MaxPairs
            BY <1>1
        <3>. HIDE DEF k
        <3>. QED BY <3>1, <2>0, MaxPairsAssumption
    <2>2. d[k] \in Nat
        <3>1. \A j \in 1..3 : G1Discount[j] \in Nat /\ G2Discount[j] \in Nat
            BY DEF G1Discount, G2Discount
        <3>. HIDE DEF k
        <3>. QED BY <2>1, <3>1
    <2>. QED BY <1>2, <2>1, <2>2 DEF bls12_msm
<1>. QED BY <1>2

LEMMA Bls12G1MsmOK ==
    ASSUME NEW in \in Inputs(BLS12_G1MSM_ADDRESS), NEW g \in Nat
    PROVE  RunOK(bls12_g1msm(in, g), BLS12_G1MSM_ADDRESS, in, g)
<1>1. Cost(BLS12_G1MSM_ADDRESS, in) \in Nat
    <2>1. in \in MsmInputs
        BY DEF Inputs
    <2>2. Cost(BLS12_G1MSM_ADDRESS, in)
            = IF in.pts = <<>> THEN 0 ELSE bls12_msm(Len(in.pts), G1Discount, 12000)
        BY DEF Cost
    <2>. QED BY <2>1, <2>2, MsmCostNat
<1>. QED BY <1>1, Bls12MsmOK DEF bls12_g1msm

LEMMA Bls12G2MsmOK ==
    ASSUME NEW in \in Inputs(BLS12_G2MSM_ADDRESS), NEW g \in Nat
    PROVE  RunOK(bls12_g2msm(in, g), BLS12_G2MSM_ADDRESS, in, g)
<1>1. Cost(BLS12_G2MSM_ADDRESS, in) \in Nat
    <2>1. in \in MsmInputs
        BY DEF Inputs
    <2>2. Cost(BLS12_G2MSM_ADDRESS, in)
            = IF in.pts = <<>> THEN 0 ELSE bls12_msm(Len(in.pts), G2Discount, 22500)
        BY DEF Cost
    <2>. QED BY <2>1, <2>2, MsmCostNat
<1>. QED BY <1>1, Bls12MsmOK DEF bls12_g2msm


LEMMA Bls12PairingCheckOK ==
    ASSUME NEW in \in Inputs(BLS12_PAIRING_CHECK_ADDRESS), NEW g \in Nat
    PROVE  RunOK(bls12_pairing_check(in, g), BLS12_PAIRING_CHECK_ADDRESS, in, g)
<1>1. Len(in.pairs) \in Nat
    <2>1. in.pairs \in SeqsUpTo(BLSClass \X BLSClass, MaxPairs)
        BY DEF Inputs, PairingInputs
    <2>. QED BY <2>1, SeqsUpToSeq, MaxPairsAssumption
<1>2. Cost(BLS12_PAIRING_CHECK_ADDRESS, in) \in Nat
    <2>1. Cost(BLS12_PAIRING_CHECK_ADDRESS, in) = 32600 * Len(in.pairs) + 37700
        BY DEF Cost
    <2>. QED BY <1>1, <2>1
<1>. DEFINE s == [j \in 1..2 * Len(in.pairs) |->
                    LET p == in.pairs[(j + 1) \div 2]
                    IN  parse_point(IF j % 2 = 1 THEN p[1] ELSE p[2], FALSE, "none")]
            e == FirstErr(s)
            ok == IF in.one THEN Ok("one", 32) ELSE Ok("zero", 32)
<1>3. e \in CheckErrs
    <2>1. \A j \in DOMAIN s : s[j] \in CheckErrs
        BY ParsePointType DEF CheckErrs, Errors
    <2>. HIDE DEF s
    <2>. QED BY <2>1, FirstErrCheck
<1>4. ok \in GoodRes
    BY OkGood DEF OutKinds
<1>5. RunOK(Charged(Cost(BLS12_PAIRING_CHECK_ADDRESS, in), g, IF e # "none" THEN Halt(e) ELSE ok),
            BLS12_PAIRING_CHECK_ADDRESS, in, g)
    BY <1>2, <1>3, <1>4, HaltOrGood, GoodCharged
<1>. QED BY <1>5, EarlyParsingOK DEF bls12_pairing_check

LEMMA Bls12MapFpToG1OK ==
    ASSUME NEW in \in Inputs(BLS12_MAP_FP_TO_G1_ADDRESS), NEW g \in Nat
    PROVE  RunOK(bls12_map_fp_to_g1(in, g), BLS12_MAP_FP_TO_G1_ADDRESS, in, g)
<1>1. Cost(BLS12_MAP_FP_TO_G1_ADDRESS, in) = 5500
    BY DEF Cost
<1>. DEFINE ok == IF in.isInf THEN Ok("zero", 128) ELSE Ok("point", 128)
<1>2. ok \in GoodRes
    BY OkGood DEF OutKinds
<1>3. (IF parse_fp(in.fp) # "none" THEN Halt(parse_fp(in.fp)) ELSE ok) \in GoodRes
    BY <1>2, ParseFpType, HaltOrGood
<1>4. RunOK(Charged(5500, g, IF parse_fp(in.fp) # "none" THEN Halt(parse_fp(in.fp)) ELSE ok),
            BLS12_MAP_FP_TO_G1_ADDRESS, in, g)
    BY <1>1, <1>3, GoodCharged
<1>. QED BY <1>4, EarlyParsingOK DEF bls12_map_fp_to_g1

LEMMA Bls12MapFp2ToG2OK ==
    ASSUME NEW in \in Inputs(BLS12_MAP_FP2_TO_G2_ADDRESS), NEW g \in Nat
    PROVE  RunOK(bls12_map_fp2_tp_g2(in, g), BLS12_MAP_FP2_TO_G2_ADDRESS, in, g)
<1>1. Cost(BLS12_MAP_FP2_TO_G2_ADDRESS, in) = 23800
    BY DEF Cost
<1>. DEFINE r == IF FirstErr(<<parse_fp(in.c0), parse_fp(in.c1)>>) # "none"
                 THEN Halt("ParsingInputError")
                 ELSE IF in.c0 = "zero" /\ in.c1 = "zero" THEN Ok("const", 256)
                 ELSE IF in.isInf THEN Ok("zero", 256) ELSE Ok("point", 256)
<1>2. r \in GoodRes
    BY OkGood, HaltType DEF OutKinds, Errors, GoodRes
<1>3. RunOK(Charged(23800, g, r), BLS12_MAP_FP2_TO_G2_ADDRESS, in, g)
    BY <1>1, <1>2, GoodCharged
<1>. QED BY <1>3, EarlyParsingOK DEF bls12_map_fp2_tp_g2


-----------------------------------------------------------------------------
(* The invariants.  GasCharged alone is not inductive: an Exec step meters *)
(* the gas the frame holds, so the induction also needs that a call still  *)
(* running holds exactly the gas it was given (Running).                   *)
Running == call # NoCall /\ result = NoResult => gas = call.gas
IInv == TypeOK /\ GasCharged /\ Running

LEMMA InitIInv == Init => IInv
BY DEF Init, IInv, TypeOK, GasCharged, Running

LEMMA InvokeIInv ==
    ASSUME IInv, NEW a \in Addresses, NEW in \in Inputs(a), NEW g \in GasOffers(a, in),
           Invoke(a, in, g)
    PROVE  IInv'
<1>1. g \in Nat
    BY DEF GasOffers
<1>2. TypeOK'
    BY <1>1 DEF Invoke, IInv, TypeOK, CallOK
<1>3. GasCharged'
    BY DEF Invoke, GasCharged
<1>4. Running'
    BY DEF Invoke, Running
<1>. QED BY <1>2, <1>3, <1>4 DEF IInv

(* One step of execute_precompile: the run r of the precompile at the      *)
(* called address, on the calldata and the gas the frame holds.            *)
LEMMA ExecIInv ==
    ASSUME IInv, NEW a, NEW r, Exec(a, r), RunOK(r, a, call.input, gas)
    PROVE  IInv'
<1>1. gas = call.gas /\ CallOK(call)
    BY DEF IInv, Running, Exec, TypeOK
<1>2. result' \in Results /\ result' # NoResult
    BY NoResultAssumption DEF Exec, RunOK
<1>3. TypeOK'
    BY <1>2 DEF IInv, TypeOK, Exec, RunOK
<1>4. GasCharged'
    BY <1>1 DEF Exec, RunOK, GasCharged
<1>5. Running'
    BY <1>2 DEF Running
<1>. QED BY <1>3, <1>4, <1>5 DEF IInv

(* The frame of a running call, from which every precompile lemma applies. *)
LEMMA RunningCall ==
    ASSUME IInv, call # NoCall, result = NoResult
    PROVE  call.input \in Inputs(call.addr) /\ gas \in Nat
BY DEF IInv, TypeOK, CallOK

LEMMA NextIInv == IInv /\ [Next]_vars => IInv'
<1> SUFFICES ASSUME IInv, [Next]_vars PROVE IInv'
    OBVIOUS
<1>1. CASE \E a \in Addresses : \E in \in Inputs(a) : \E g \in GasOffers(a, in) : Invoke(a, in, g)
    BY <1>1, InvokeIInv
<1>2. CASE UNCHANGED vars
    BY <1>2 DEF vars, IInv, TypeOK, CallOK, GasCharged, Running
<1>3. ASSUME NEW A, call # NoCall, result = NoResult, call.addr = A
      PROVE  call.input \in Inputs(A) /\ gas \in Nat
    BY <1>3, RunningCall
<1>4. CASE Ecrecover
    BY <1>4, <1>3, EcrecoverOK, ExecIInv DEF Ecrecover, Exec
<1>5. CASE Sha2_256
    BY <1>5, <1>3, Sha2_256OK, ExecIInv DEF Sha2_256, Exec
<1>6. CASE Ripemd_160
    BY <1>6, <1>3, Ripemd_160OK, ExecIInv DEF Ripemd_160, Exec
<1>7. CASE Identity
    BY <1>7, <1>3, IdentityOK, ExecIInv DEF Identity, Exec
<1>8. CASE Modexp
    BY <1>8, <1>3, ModexpOK, ExecIInv DEF Modexp, Exec
<1>9. CASE Ecadd
    BY <1>9, <1>3, EcaddOK, ExecIInv DEF Ecadd, Exec
<1>10. CASE Ecmul
    BY <1>10, <1>3, EcmulOK, ExecIInv DEF Ecmul, Exec
<1>11. CASE Ecpairing
    BY <1>11, <1>3, EcpairingOK, ExecIInv DEF Ecpairing, Exec
<1>12. CASE Blake2f
    BY <1>12, <1>3, Blake2fOK, ExecIInv DEF Blake2f, Exec
<1>13. CASE PointEvaluation
    BY <1>13, <1>3, PointEvaluationOK, ExecIInv DEF PointEvaluation, Exec
<1>14. CASE Bls12G1Add
    BY <1>14, <1>3, Bls12G1AddOK, ExecIInv DEF Bls12G1Add, Exec
<1>15. CASE Bls12G1Msm
    BY <1>15, <1>3, Bls12G1MsmOK, ExecIInv DEF Bls12G1Msm, Exec
<1>16. CASE Bls12G2Add
    BY <1>16, <1>3, Bls12G2AddOK, ExecIInv DEF Bls12G2Add, Exec
<1>17. CASE Bls12G2Msm
    BY <1>17, <1>3, Bls12G2MsmOK, ExecIInv DEF Bls12G2Msm, Exec
<1>18. CASE Bls12PairingCheck
    BY <1>18, <1>3, Bls12PairingCheckOK, ExecIInv DEF Bls12PairingCheck, Exec
<1>19. CASE Bls12MapFpToG1
    BY <1>19, <1>3, Bls12MapFpToG1OK, ExecIInv DEF Bls12MapFpToG1, Exec
<1>20. CASE Bls12MapFp2ToG2
    BY <1>20, <1>3, Bls12MapFp2ToG2OK, ExecIInv DEF Bls12MapFp2ToG2, Exec
<1>. QED BY <1>1, <1>2, <1>4, <1>5, <1>6, <1>7, <1>8, <1>9, <1>10, <1>11, <1>12,
            <1>13, <1>14, <1>15, <1>16, <1>17, <1>18, <1>19, <1>20
         DEF Next, ExecutePrecompile

(* Type correctness of the frame (TypeOK): the gas the frame holds is     *)
(* never negative and every result is a well-formed precompile result,    *)
(* whichever precompile runs on whichever input, for every UsizeMax,      *)
(* MaxPairs and input sets.                                               *)
THEOREM TypeCorrect == Spec => []TypeOK
<1>1. IInv => TypeOK
    BY DEF IInv
<1>. QED BY InitIInv, NextIInv, <1>1, PTL DEF Spec

(* Every precompile meters exactly once and in the code's order           *)
(* (GasCharged): an output is paid at exactly its price, NotEnoughGas     *)
(* leaves the gas untouched and was offered less than the price, and any  *)
(* other failure costs the price or nothing.                              *)
THEOREM GasChargedInvariant == Spec => []GasCharged
<1>1. IInv => GasCharged
    BY DEF IInv
<1>. QED BY InitIInv, NextIInv, <1>1, PTL DEF Spec

=============================================================================
