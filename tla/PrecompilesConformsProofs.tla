---------------------- MODULE PrecompilesConformsProofs ----------------------
(***************************************************************************)
(* Proofs that the precompiles accept and return what spec.md says, for   *)
(* every value of the constants: BLSConforms (spec 4.9, EIP-2537).        *)
(*                                                                         *)
(* The argument: each BLS12-381 precompile is a function of its calldata  *)
(* and of the gas the frame holds, which is the gas the call was given    *)
(* (Running, from PrecompilesProofs).  One lemma per precompile shows     *)
(* that the function succeeds exactly when the gas covers the price and   *)
(* the EIP-2537 checks pass, and returns what the EIP gives; FirstErrNone *)
(* says that a sequence of checks run in order stops on none exactly when *)
(* every check passes.                                                    *)
(***************************************************************************)
EXTENDS PrecompilesProofs

USE DEF ECRECOVER_ADDRESS, SHA2_256_ADDRESS, RIPEMD_160_ADDRESS, IDENTITY_ADDRESS,
        MODEXP_ADDRESS, ECADD_ADDRESS, ECMUL_ADDRESS, ECPAIRING_ADDRESS, BLAKE2F_ADDRESS,
        POINT_EVALUATION_ADDRESS, BLS12_G1ADD_ADDRESS, BLS12_G1MSM_ADDRESS,
        BLS12_G2ADD_ADDRESS, BLS12_G2MSM_ADDRESS, BLS12_PAIRING_CHECK_ADDRESS,
        BLS12_MAP_FP_TO_G1_ADDRESS, BLS12_MAP_FP2_TO_G2_ADDRESS

(* What a run o = op(in, g) of the BLS12-381 precompile at address a must *)
(* satisfy: success exactly on enough gas and an input spec 4.9 accepts,  *)
(* with the output it gives.                                              *)
BLSRunOK(o, a, in, g) ==
    /\ o.res.status = "ok" <=> g >= Cost(a, in) /\ SpecBLSAccepts(a, in)
    /\ o.res.status = "ok" => o.res.out = SpecBLSOut(a, in)

(* Checks run in order stop on none exactly when every check passes; the  *)
(* longest sequence of checks is the two points of MaxPairs <= 3 pairs.   *)
LEMMA FirstErrNone ==
    ASSUME NEW s, NEW n \in 0..6, DOMAIN s = 1..n
    PROVE  FirstErr(s) = "none" <=> \A i \in 1..n : s[i] = "none"
<1> DEFINE IsFirst(i) == s[i] # "none" /\ \A j \in 1..(i - 1) : s[j] = "none"
<1>1. ASSUME NEW i \in 1..n, s[i] # "none"
      PROVE  \E m \in 1..n : IsFirst(m)
  <2>1. CASE s[1] # "none"
    BY <2>1, <1>1
  <2>2. CASE s[1] = "none" /\ 2 <= n /\ s[2] # "none"
    BY <2>2
  <2>3. CASE s[1] = "none" /\ s[2] = "none" /\ 3 <= n /\ s[3] # "none"
    BY <2>3
  <2>4. CASE s[1] = "none" /\ s[2] = "none" /\ s[3] = "none" /\ 4 <= n /\ s[4] # "none"
    BY <2>4
  <2>5. CASE s[1] = "none" /\ s[2] = "none" /\ s[3] = "none" /\ s[4] = "none"
             /\ 5 <= n /\ s[5] # "none"
    BY <2>5
  <2>6. CASE s[1] = "none" /\ s[2] = "none" /\ s[3] = "none" /\ s[4] = "none"
             /\ s[5] = "none" /\ 6 <= n /\ s[6] # "none"
    BY <2>6
  <2>. QED  BY <1>1, <2>1, <2>2, <2>3, <2>4, <2>5, <2>6
<1>2. CASE \E i \in DOMAIN s : IsFirst(i)
  <2>1. FirstErr(s) = s[CHOOSE i \in DOMAIN s : IsFirst(i)]
    BY <1>2 DEF FirstErr
  <2>2. FirstErr(s) # "none"
    BY <1>2, <2>1
  <2>. QED  BY <1>2, <2>2
<1>3. CASE ~\E i \in DOMAIN s : IsFirst(i)
  <2>1. FirstErr(s) = "none"
    BY <1>3 DEF FirstErr
  <2>. QED  BY <1>1, <1>3, <2>1
<1>. QED  BY <1>2, <1>3

(* Two checks run in order stop on none exactly when both pass.           *)
LEMMA FirstErrPair ==
    ASSUME NEW x, NEW y
    PROVE  FirstErr(<<x, y>>) = "none" <=> x = "none" /\ y = "none"
<1>1. DOMAIN <<x, y>> = 1..2 /\ 2 \in 0..6
  OBVIOUS
<1>2. FirstErr(<<x, y>>) = "none" <=> \A i \in 1..2 : <<x, y>>[i] = "none"
  BY <1>1, FirstErrNone
<1>. QED  BY <1>2

(* The decoders pass exactly the encodings the EIP-2537 table accepts:   *)
(* the unchecked one (G1ADD, G2ADD) points on the curve, the checked one  *)
(* (MSM, pairing) points in the subgroup.                                 *)
LEMMA ParsePointUnchecked ==
    ASSUME NEW c \in BLSClass, NEW nic, nic # "none"
    PROVE  parse_point(c, TRUE, nic) = "none" <=> SpecPointValid(c, FALSE)
BY DEF parse_point, SpecPointValid, BLSClass

LEMMA ParsePointChecked ==
    ASSUME NEW c \in BLSClass, NEW nic
    PROVE  parse_point(c, FALSE, nic) = "none" <=> SpecPointValid(c, TRUE)
BY DEF parse_point, SpecPointValid, BLSClass

(* G1ADD and G2ADD: the length, then the gas, then both points.           *)
LEMMA Bls12AddConforms ==
    ASSUME NEW a \in {BLS12_G1ADD_ADDRESS, BLS12_G2ADD_ADDRESS},
           NEW in \in AddInputs, NEW g \in Nat, NEW nic, nic # "none"
    PROVE  BLSRunOK(bls12_add(in, g, Cost(a, in),
                              IF a = BLS12_G1ADD_ADDRESS THEN 128 ELSE 256, nic), a, in, g)
<1> DEFINE width == IF a = BLS12_G1ADD_ADDRESS THEN 128 ELSE 256
           e1 == parse_point(in.p1, TRUE, nic)
           e2 == parse_point(in.p2, TRUE, nic)
           o == bls12_add(in, g, Cost(a, in), width, nic)
<1>1. in.p1 \in BLSClass /\ in.p2 \in BLSClass /\ in.lenOk \in BOOLEAN /\ in.sumInf \in BOOLEAN
  BY DEF AddInputs
<1>2. Cost(a, in) \in Nat
  BY DEF Cost
<1>3. SpecBLSAccepts(a, in) <=> in.lenOk /\ SpecPointValid(in.p1, FALSE) /\ SpecPointValid(in.p2, FALSE)
  <2>1. CASE a = BLS12_G1ADD_ADDRESS  BY <2>1 DEF SpecBLSAccepts
  <2>2. CASE a = BLS12_G2ADD_ADDRESS  BY <2>2 DEF SpecBLSAccepts
  <2>. QED  BY <2>1, <2>2
<1>4. SpecBLSOut(a, in) = [kind |-> IF in.sumInf THEN "zero" ELSE "point", len |-> width]
  BY DEF SpecBLSOut
<1>5. CASE ~in.lenOk
  <2>1. o.res.status = "halt"
    BY <1>5 DEF bls12_add, Out, Halt
  <2>. QED  BY <1>3, <1>5, <2>1 DEF BLSRunOK
<1>6. CASE in.lenOk /\ Cost(a, in) > g
  <2>1. o.res.status = "halt"
    BY <1>6 DEF bls12_add, Charged, Out, Halt
  <2>. QED  BY <1>2, <1>6, <2>1 DEF BLSRunOK
<1>7. CASE in.lenOk /\ ~(Cost(a, in) > g)
  <2>1. FirstErr(<<e1, e2>>) = "none" <=> e1 = "none" /\ e2 = "none"
    BY FirstErrPair
  <2>2. (e1 = "none" <=> SpecPointValid(in.p1, FALSE)) /\ (e2 = "none" <=> SpecPointValid(in.p2, FALSE))
    BY <1>1, ParsePointUnchecked
  <2>3. o.res = IF FirstErr(<<e1, e2>>) # "none" THEN Halt(FirstErr(<<e1, e2>>))
                ELSE IF in.sumInf THEN Ok("zero", width) ELSE Ok("point", width)
    BY <1>7 DEF bls12_add, Charged, Out
  <2>4. CASE FirstErr(<<e1, e2>>) # "none"
    <3>1. o.res.status = "halt"  BY <2>3, <2>4 DEF Halt
    <3>. QED  BY <1>3, <2>1, <2>2, <2>4, <3>1 DEF BLSRunOK
  <2>5. CASE FirstErr(<<e1, e2>>) = "none"
    <3>1. o.res = IF in.sumInf THEN Ok("zero", width) ELSE Ok("point", width)
      BY <2>3, <2>5
    <3>2. o.res.status = "ok" /\ o.res.out = [kind |-> IF in.sumInf THEN "zero" ELSE "point", len |-> width]
      BY <3>1 DEF Ok
    <3>5. g >= Cost(a, in)
      BY <1>2, <1>7
    <3>6. SpecPointValid(in.p1, FALSE) /\ SpecPointValid(in.p2, FALSE)
      BY <2>1, <2>2, <2>5
    <3>3. g >= Cost(a, in) /\ SpecBLSAccepts(a, in)
      BY <1>3, <1>7, <3>5, <3>6
    <3>4. o.res.out = SpecBLSOut(a, in)
      BY <1>4, <3>2
    <3>. QED  BY <3>2, <3>3, <3>4 DEF BLSRunOK
  <2>. QED  BY <2>4, <2>5
<1>. QED  BY <1>5, <1>6, <1>7

(* G1MSM and G2MSM: the alignment, then the gas, then every point, each  *)
(* decoded with the subgroup check.                                       *)
LEMMA Bls12MsmConforms ==
    ASSUME NEW a \in {BLS12_G1MSM_ADDRESS, BLS12_G2MSM_ADDRESS},
           NEW in \in MsmInputs, NEW g \in Nat
    PROVE  BLSRunOK(bls12_msm_run(in, g, Cost(a, in),
                                  IF a = BLS12_G1MSM_ADDRESS THEN 128 ELSE 256), a, in, g)
<1> DEFINE width == IF a = BLS12_G1MSM_ADDRESS THEN 128 ELSE 256
           s == [i \in DOMAIN in.pts |-> parse_point(in.pts[i], FALSE, "none")]
           o == bls12_msm_run(in, g, Cost(a, in), width)
<1>1. /\ in.pts \in Seq(BLSClass) /\ Len(in.pts) \in 0..MaxPairs
      /\ DOMAIN in.pts = 1..Len(in.pts)
      /\ in.aligned \in BOOLEAN /\ in.sumInf \in BOOLEAN
  BY SeqsUpToSeq, MaxPairsAssumption DEF MsmInputs
<1>2. Cost(a, in) \in Nat
  <2>1. CASE a = BLS12_G1MSM_ADDRESS
    <3>1. Cost(a, in) = IF in.pts = <<>> THEN 0 ELSE bls12_msm(Len(in.pts), G1Discount, 12000)
      BY <2>1 DEF Cost
    <3>. QED  BY <3>1, MsmCostNat
  <2>2. CASE a = BLS12_G2MSM_ADDRESS
    <3>1. Cost(a, in) = IF in.pts = <<>> THEN 0 ELSE bls12_msm(Len(in.pts), G2Discount, 22500)
      BY <2>2 DEF Cost
    <3>. QED  BY <3>1, MsmCostNat
  <2>. QED  BY <2>1, <2>2
<1>3. SpecBLSAccepts(a, in) <=> in.aligned /\ \A i \in DOMAIN in.pts : SpecPointValid(in.pts[i], TRUE)
  <2>1. CASE a = BLS12_G1MSM_ADDRESS  BY <2>1 DEF SpecBLSAccepts
  <2>2. CASE a = BLS12_G2MSM_ADDRESS  BY <2>2 DEF SpecBLSAccepts
  <2>. QED  BY <2>1, <2>2
<1>4. SpecBLSOut(a, in) = [kind |-> IF in.sumInf THEN "zero" ELSE "point", len |-> width]
  BY DEF SpecBLSOut
<1>5. CASE ~in.aligned
  <2>1. o.res.status = "halt"
    BY <1>5 DEF bls12_msm_run, Out, Halt
  <2>. QED  BY <1>3, <1>5, <2>1 DEF BLSRunOK
<1>6. CASE in.aligned /\ Cost(a, in) > g
  <2>1. o.res.status = "halt"
    BY <1>6 DEF bls12_msm_run, Charged, Out, Halt
  <2>. QED  BY <1>2, <1>6, <2>1 DEF BLSRunOK
<1>7. CASE in.aligned /\ ~(Cost(a, in) > g)
  <2>1. FirstErr(s) = "none" <=> \A i \in DOMAIN in.pts : SpecPointValid(in.pts[i], TRUE)
    <3>a. MaxPairs \in 1..3
      BY MaxPairsAssumption
    <3>b. Len(in.pts) \in 0..MaxPairs
      BY <1>1
    <3>c. PICK k \in 0..MaxPairs : k = Len(in.pts)
      BY <3>b
    <3>d. k \in 0..6
      BY <3>a
    <3>0. Len(in.pts) \in 0..6
      BY <3>c, <3>d
    <3>1. DOMAIN s = 1..Len(in.pts) /\ Len(in.pts) \in 0..6
      BY <1>1, <3>0
    <3>2. FirstErr(s) = "none" <=> \A i \in 1..Len(in.pts) : s[i] = "none"
      BY <3>1, FirstErrNone
    <3>3. ASSUME NEW i \in 1..Len(in.pts)
          PROVE  s[i] = "none" <=> SpecPointValid(in.pts[i], TRUE)
      <4>a. i \in DOMAIN in.pts
        BY <1>1
      <4>b. in.pts[i] \in BLSClass
        BY <1>1
      <4>1. s[i] = parse_point(in.pts[i], FALSE, "none") /\ in.pts[i] \in BLSClass
        BY <4>a, <4>b
      <4>2. parse_point(in.pts[i], FALSE, "none") = "none" <=> SpecPointValid(in.pts[i], TRUE)
        BY <4>1, ParsePointChecked
      <4>. QED  BY <4>1, <4>2
    <3>. QED  BY <1>1, <3>2, <3>3
  <2>2. o.res = IF FirstErr(s) # "none" THEN Halt(FirstErr(s))
                ELSE IF in.sumInf THEN Ok("zero", width) ELSE Ok("point", width)
    BY <1>7 DEF bls12_msm_run, Charged, Out
  <2>3. CASE FirstErr(s) # "none"
    <3>1. o.res.status = "halt"  BY <2>2, <2>3 DEF Halt
    <3>. QED  BY <1>3, <2>1, <2>3, <3>1 DEF BLSRunOK
  <2>4. CASE FirstErr(s) = "none"
    <3>1. o.res = IF in.sumInf THEN Ok("zero", width) ELSE Ok("point", width)
      BY <2>2, <2>4
    <3>2. o.res.status = "ok" /\ o.res.out = [kind |-> IF in.sumInf THEN "zero" ELSE "point", len |-> width]
      BY <3>1 DEF Ok
    <3>3. g >= Cost(a, in)
      BY <1>2, <1>7
    <3>4. SpecBLSAccepts(a, in)
      BY <1>3, <1>7, <2>1, <2>4
    <3>5. o.res.out = SpecBLSOut(a, in)
      BY <1>4, <3>2
    <3>. QED  BY <3>2, <3>3, <3>4, <3>5 DEF BLSRunOK
  <2>. QED  BY <2>3, <2>4
<1>. QED  BY <1>5, <1>6, <1>7

(* The pairing check decodes the 2 * k points of k pairs in order: point *)
(* j is half (j + 1) \div 2 of a pair, the first when j is odd.           *)
LEMMA PairIndex ==
    ASSUME NEW k \in Nat
    PROVE  /\ \A j \in 1..(2 * k) : (j + 1) \div 2 \in 1..k /\ j % 2 \in {0, 1}
           /\ \A i \in 1..k : /\ 2 * i - 1 \in 1..(2 * k) /\ 2 * i \in 1..(2 * k)
                              /\ (2 * i - 1 + 1) \div 2 = i /\ (2 * i - 1) % 2 = 1
                              /\ (2 * i + 1) \div 2 = i /\ (2 * i) % 2 = 0
OBVIOUS

(* PAIRING_CHECK: the alignment, then the gas, then both points of every *)
(* pair, decoded with the subgroup check.                                 *)
LEMMA Bls12PairingConforms ==
    ASSUME NEW in \in PairingInputs, NEW g \in Nat
    PROVE  BLSRunOK(bls12_pairing_check(in, g), BLS12_PAIRING_CHECK_ADDRESS, in, g)
<1> DEFINE a == BLS12_PAIRING_CHECK_ADDRESS
           k == Len(in.pairs)
           s == [j \in 1..2 * k |->
                    LET p == in.pairs[(j + 1) \div 2]
                    IN  parse_point(IF j % 2 = 1 THEN p[1] ELSE p[2], FALSE, "none")]
           Valid(i) == SpecPointValid(in.pairs[i][1], TRUE) /\ SpecPointValid(in.pairs[i][2], TRUE)
           o == bls12_pairing_check(in, g)
<1>1. /\ in.pairs \in Seq(BLSClass \X BLSClass) /\ k \in 0..MaxPairs
      /\ DOMAIN in.pairs = 1..k
      /\ in.aligned \in BOOLEAN /\ in.one \in BOOLEAN
  <2>1. in.pairs \in SeqsUpTo(BLSClass \X BLSClass, MaxPairs)
        /\ in.aligned \in BOOLEAN /\ in.one \in BOOLEAN
    BY DEF PairingInputs
  <2>2. MaxPairs \in Nat
    BY MaxPairsAssumption
  <2>. QED  BY <2>1, <2>2, SeqsUpToSeq
<1>2. k \in 0..3 /\ 2 * k \in 0..6
  <2>1. MaxPairs \in 1..3  BY MaxPairsAssumption
  <2>2. PICK n \in 0..MaxPairs : n = k  BY <1>1
  <2>3. n \in 0..3 /\ 2 * n \in 0..6  BY <2>1
  <2>. QED  BY <2>2, <2>3
<1>3. Cost(a, in) = 32600 * k + 37700 /\ Cost(a, in) \in Nat
  BY <1>2 DEF Cost
<1>4. SpecBLSAccepts(a, in) <=> in.aligned /\ \A i \in 1..k : Valid(i)
  BY <1>1 DEF SpecBLSAccepts
<1>5. SpecBLSOut(a, in) = [kind |-> IF in.one THEN "one" ELSE "zero", len |-> 32]
  BY DEF SpecBLSOut
<1>6. CASE ~in.aligned
  <2>1. o.res.status = "halt"
    BY <1>6 DEF bls12_pairing_check, Out, Halt
  <2>. QED  BY <1>4, <1>6, <2>1 DEF BLSRunOK
<1>7. CASE in.aligned /\ Cost(a, in) > g
  <2>1. o.res.status = "halt"
    BY <1>7 DEF bls12_pairing_check, Charged, Out, Halt
  <2>. QED  BY <1>3, <1>7, <2>1 DEF BLSRunOK
<1>8. CASE in.aligned /\ ~(Cost(a, in) > g)
  <2>1. FirstErr(s) = "none" <=> \A j \in 1..(2 * k) : s[j] = "none"
    <3>1. DOMAIN s = 1..(2 * k) /\ 2 * k \in 0..6
      BY <1>2 DEF s
    <3>. QED  BY <3>1, FirstErrNone
  <2>2. ASSUME NEW j \in 1..(2 * k)
        PROVE  /\ (j + 1) \div 2 \in 1..k
               /\ s[j] = parse_point(IF j % 2 = 1 THEN in.pairs[(j + 1) \div 2][1]
                                                 ELSE in.pairs[(j + 1) \div 2][2], FALSE, "none")
    <3>1. (j + 1) \div 2 \in 1..k
      BY <1>2, PairIndex
    <3>. QED  BY <3>1
  <2>3. \A i \in 1..k : in.pairs[i][1] \in BLSClass /\ in.pairs[i][2] \in BLSClass
    BY <1>1
  <2>4. (\A j \in 1..(2 * k) : s[j] = "none") => \A i \in 1..k : Valid(i)
    <3> SUFFICES ASSUME \A j \in 1..(2 * k) : s[j] = "none", NEW i \in 1..k
                 PROVE  Valid(i)
      OBVIOUS
    <3>1. /\ 2 * i - 1 \in 1..(2 * k) /\ 2 * i \in 1..(2 * k)
          /\ (2 * i - 1 + 1) \div 2 = i /\ (2 * i - 1) % 2 = 1
          /\ (2 * i + 1) \div 2 = i /\ (2 * i) % 2 = 0
      BY <1>1, PairIndex
    <3>2. s[2 * i - 1] = parse_point(in.pairs[i][1], FALSE, "none")
      BY <2>2, <3>1
    <3>3. s[2 * i] = parse_point(in.pairs[i][2], FALSE, "none")
      BY <2>2, <3>1
    <3>. QED  BY <2>3, <3>1, <3>2, <3>3, ParsePointChecked
  <2>5. (\A i \in 1..k : Valid(i)) => \A j \in 1..(2 * k) : s[j] = "none"
    <3> SUFFICES ASSUME \A i \in 1..k : Valid(i), NEW j \in 1..(2 * k)
                 PROVE  s[j] = "none"
      OBVIOUS
    <3>1. (j + 1) \div 2 \in 1..k /\ j % 2 \in {0, 1}
      BY <1>1, PairIndex
    <3>. QED  BY <2>2, <2>3, <3>1, ParsePointChecked
  <2>6. o.res = IF FirstErr(s) # "none" THEN Halt(FirstErr(s))
                ELSE IF in.one THEN Ok("one", 32) ELSE Ok("zero", 32)
    BY <1>8 DEF bls12_pairing_check, Charged, Out
  <2>7. CASE FirstErr(s) # "none"
    <3>1. o.res.status = "halt"  BY <2>6, <2>7 DEF Halt
    <3>. QED  BY <1>4, <2>1, <2>4, <2>5, <2>7, <3>1 DEF BLSRunOK
  <2>8. CASE FirstErr(s) = "none"
    <3>1. o.res = IF in.one THEN Ok("one", 32) ELSE Ok("zero", 32)
      BY <2>6, <2>8
    <3>2. o.res.status = "ok" /\ o.res.out = [kind |-> IF in.one THEN "one" ELSE "zero", len |-> 32]
      BY <3>1 DEF Ok
    <3>3. g >= Cost(a, in)
      BY <1>3, <1>8
    <3>4. SpecBLSAccepts(a, in)
      BY <1>4, <1>8, <2>1, <2>4, <2>8
    <3>5. o.res.out = SpecBLSOut(a, in)
      BY <1>5, <3>2
    <3>. QED  BY <3>2, <3>3, <3>4, <3>5 DEF BLSRunOK
  <2>. QED  BY <2>7, <2>8
<1>. QED  BY <1>6, <1>7, <1>8

(* The field-element decoder passes exactly the canonical encodings.     *)
LEMMA ParseFpValid ==
    ASSUME NEW c \in FpClass
    PROVE  parse_fp(c) = "none" <=> SpecFpValid(c)
BY DEF parse_fp, SpecFpValid, FpClass

(* MAP_FP_TO_G1: the length, then the gas, then the field element.        *)
LEMMA Bls12MapFpToG1Conforms ==
    ASSUME NEW in \in MapG1Inputs, NEW g \in Nat
    PROVE  BLSRunOK(bls12_map_fp_to_g1(in, g), BLS12_MAP_FP_TO_G1_ADDRESS, in, g)
<1> DEFINE a == BLS12_MAP_FP_TO_G1_ADDRESS
           o == bls12_map_fp_to_g1(in, g)
<1>1. in.fp \in FpClass /\ in.lenOk \in BOOLEAN /\ in.isInf \in BOOLEAN
  BY DEF MapG1Inputs
<1>2. Cost(a, in) = 5500
  BY DEF Cost
<1>3. SpecBLSAccepts(a, in) <=> in.lenOk /\ SpecFpValid(in.fp)
  BY DEF SpecBLSAccepts
<1>4. SpecBLSOut(a, in) = [kind |-> IF in.isInf THEN "zero" ELSE "point", len |-> 128]
  BY DEF SpecBLSOut
<1>5. parse_fp(in.fp) = "none" <=> SpecFpValid(in.fp)
  BY <1>1, ParseFpValid
<1>6. CASE ~in.lenOk \/ 5500 > g \/ parse_fp(in.fp) # "none"
  <2>1. o.res.status = "halt"
    BY <1>6 DEF bls12_map_fp_to_g1, Charged, Out, Halt
  <2>. QED  BY <1>2, <1>3, <1>5, <1>6, <2>1 DEF BLSRunOK
<1>7. CASE in.lenOk /\ ~(5500 > g) /\ parse_fp(in.fp) = "none"
  <2>1. o.res = IF in.isInf THEN Ok("zero", 128) ELSE Ok("point", 128)
    BY <1>7 DEF bls12_map_fp_to_g1, Charged, Out
  <2>2. o.res.status = "ok" /\ o.res.out = [kind |-> IF in.isInf THEN "zero" ELSE "point", len |-> 128]
    BY <2>1 DEF Ok
  <2>. QED  BY <1>2, <1>3, <1>4, <1>5, <1>7, <2>2 DEF BLSRunOK
<1>. QED  BY <1>6, <1>7

(* MAP_FP2_TO_G2: the length, then the gas, then both field elements; the *)
(* all-zero element maps to a constant point.                             *)
LEMMA Bls12MapFp2ToG2Conforms ==
    ASSUME NEW in \in MapG2Inputs, NEW g \in Nat
    PROVE  BLSRunOK(bls12_map_fp2_tp_g2(in, g), BLS12_MAP_FP2_TO_G2_ADDRESS, in, g)
<1> DEFINE a == BLS12_MAP_FP2_TO_G2_ADDRESS
           o == bls12_map_fp2_tp_g2(in, g)
           kind == IF in.c0 = "zero" /\ in.c1 = "zero" THEN "const"
                   ELSE IF in.isInf THEN "zero" ELSE "point"
<1>1. in.c0 \in FpClass /\ in.c1 \in FpClass /\ in.lenOk \in BOOLEAN /\ in.isInf \in BOOLEAN
  BY DEF MapG2Inputs
<1>2. Cost(a, in) = 23800
  BY DEF Cost
<1>3. SpecBLSAccepts(a, in) <=> in.lenOk /\ SpecFpValid(in.c0) /\ SpecFpValid(in.c1)
  BY DEF SpecBLSAccepts
<1>4. SpecBLSOut(a, in) = [kind |-> kind, len |-> 256]
  BY DEF SpecBLSOut
<1>5. FirstErr(<<parse_fp(in.c0), parse_fp(in.c1)>>) = "none"
        <=> SpecFpValid(in.c0) /\ SpecFpValid(in.c1)
  <2>1. FirstErr(<<parse_fp(in.c0), parse_fp(in.c1)>>) = "none"
          <=> parse_fp(in.c0) = "none" /\ parse_fp(in.c1) = "none"
    BY FirstErrPair
  <2>. QED  BY <1>1, <2>1, ParseFpValid
<1>6. CASE ~in.lenOk \/ 23800 > g \/ FirstErr(<<parse_fp(in.c0), parse_fp(in.c1)>>) # "none"
  <2>1. o.res.status = "halt"
    BY <1>6 DEF bls12_map_fp2_tp_g2, Charged, Out, Halt
  <2>. QED  BY <1>2, <1>3, <1>5, <1>6, <2>1 DEF BLSRunOK
<1>7. CASE in.lenOk /\ ~(23800 > g) /\ FirstErr(<<parse_fp(in.c0), parse_fp(in.c1)>>) = "none"
  <2>1. o.res = IF in.c0 = "zero" /\ in.c1 = "zero" THEN Ok("const", 256)
                ELSE IF in.isInf THEN Ok("zero", 256) ELSE Ok("point", 256)
    BY <1>7 DEF bls12_map_fp2_tp_g2, Charged, Out
  <2>2. o.res.status = "ok" /\ o.res.out = [kind |-> kind, len |-> 256]
    BY <2>1 DEF Ok
  <2>. QED  BY <1>2, <1>3, <1>4, <1>5, <1>7, <2>2 DEF BLSRunOK
<1>. QED  BY <1>6, <1>7

-----------------------------------------------------------------------------
(* A step of execute_precompile at a BLS12-381 address whose run conforms *)
(* leaves a conforming result: the gas the run saw is the call's.         *)
LEMMA ExecBLS ==
    ASSUME IInv, NEW a \in PRECOMPILES_POST_CANCUN, NEW r, Exec(a, r),
           BLSRunOK(r, a, call.input, gas)
    PROVE  BLSConforms'
<1>1. gas = call.gas /\ call' = call /\ result' = r.res /\ call.addr = a
  BY DEF IInv, Running, Exec
<1>. QED  BY <1>1 DEF BLSRunOK, BLSConforms, Paid

(* A step at one of the older addresses leaves a result BLSConforms does  *)
(* not speak of.                                                          *)
LEMMA ExecOther ==
    ASSUME NEW a \in PRECOMPILES, NEW r, Exec(a, r)
    PROVE  BLSConforms'
BY DEF Exec, BLSConforms, PRECOMPILES, PRECOMPILES_POST_CANCUN

LEMMA NextBLS == IInv /\ BLSConforms /\ [Next]_vars => BLSConforms'
<1> SUFFICES ASSUME IInv, BLSConforms, [Next]_vars PROVE BLSConforms'
  OBVIOUS
<1>1. ASSUME NEW A, call # NoCall, result = NoResult, call.addr = A
      PROVE  call.input \in Inputs(A) /\ gas \in Nat
  BY <1>1, RunningCall
<1>2. CASE \E a \in Addresses : \E in \in Inputs(a) : \E g \in GasOffers(a, in) : Invoke(a, in, g)
  BY <1>2, NoResultAssumption DEF Invoke, BLSConforms
<1>3. CASE UNCHANGED vars
  BY <1>3 DEF vars, BLSConforms, Paid
<1>4. CASE Ecrecover \/ Sha2_256 \/ Ripemd_160 \/ Identity \/ Modexp \/ Ecadd \/ Ecmul
           \/ Ecpairing \/ Blake2f \/ PointEvaluation
  BY <1>4, ExecOther DEF Ecrecover, Sha2_256, Ripemd_160, Identity, Modexp, Ecadd, Ecmul,
                          Ecpairing, Blake2f, PointEvaluation, PRECOMPILES
<1>5. CASE Bls12G1Add
  <2>1. call.input \in AddInputs /\ gas \in Nat
    BY <1>1, <1>5 DEF Bls12G1Add, Exec, Inputs
  <2>2. Cost(BLS12_G1ADD_ADDRESS, call.input) = 375
    BY DEF Cost
  <2>3. BLSRunOK(bls12_g1add(call.input, gas), BLS12_G1ADD_ADDRESS, call.input, gas)
    BY <2>1, <2>2, Bls12AddConforms DEF bls12_g1add
  <2>. QED  BY <1>5, <2>3, ExecBLS DEF Bls12G1Add, PRECOMPILES_POST_CANCUN
<1>6. CASE Bls12G2Add
  <2>1. call.input \in AddInputs /\ gas \in Nat
    BY <1>1, <1>6 DEF Bls12G2Add, Exec, Inputs
  <2>2. Cost(BLS12_G2ADD_ADDRESS, call.input) = 600
    BY DEF Cost
  <2>3. BLSRunOK(bls12_g2add(call.input, gas), BLS12_G2ADD_ADDRESS, call.input, gas)
    BY <2>1, <2>2, Bls12AddConforms DEF bls12_g2add
  <2>. QED  BY <1>6, <2>3, ExecBLS DEF Bls12G2Add, PRECOMPILES_POST_CANCUN
<1>7. CASE Bls12G1Msm
  <2>1. call.input \in MsmInputs /\ gas \in Nat
    BY <1>1, <1>7 DEF Bls12G1Msm, Exec, Inputs
  <2>2. BLSRunOK(bls12_g1msm(call.input, gas), BLS12_G1MSM_ADDRESS, call.input, gas)
    BY <2>1, Bls12MsmConforms DEF bls12_g1msm
  <2>. QED  BY <1>7, <2>2, ExecBLS DEF Bls12G1Msm, PRECOMPILES_POST_CANCUN
<1>8. CASE Bls12G2Msm
  <2>1. call.input \in MsmInputs /\ gas \in Nat
    BY <1>1, <1>8 DEF Bls12G2Msm, Exec, Inputs
  <2>2. BLSRunOK(bls12_g2msm(call.input, gas), BLS12_G2MSM_ADDRESS, call.input, gas)
    BY <2>1, Bls12MsmConforms DEF bls12_g2msm
  <2>. QED  BY <1>8, <2>2, ExecBLS DEF Bls12G2Msm, PRECOMPILES_POST_CANCUN
<1>9. CASE Bls12PairingCheck
  <2>1. call.input \in PairingInputs /\ gas \in Nat
    BY <1>1, <1>9 DEF Bls12PairingCheck, Exec, Inputs
  <2>2. BLSRunOK(bls12_pairing_check(call.input, gas), BLS12_PAIRING_CHECK_ADDRESS,
                 call.input, gas)
    BY <2>1, Bls12PairingConforms
  <2>. QED  BY <1>9, <2>2, ExecBLS DEF Bls12PairingCheck, PRECOMPILES_POST_CANCUN
<1>10. CASE Bls12MapFpToG1
  <2>1. call.input \in MapG1Inputs /\ gas \in Nat
    BY <1>1, <1>10 DEF Bls12MapFpToG1, Exec, Inputs
  <2>2. BLSRunOK(bls12_map_fp_to_g1(call.input, gas), BLS12_MAP_FP_TO_G1_ADDRESS,
                 call.input, gas)
    BY <2>1, Bls12MapFpToG1Conforms
  <2>. QED  BY <1>10, <2>2, ExecBLS DEF Bls12MapFpToG1, PRECOMPILES_POST_CANCUN
<1>11. CASE Bls12MapFp2ToG2
  <2>1. call.input \in MapG2Inputs /\ gas \in Nat
    BY <1>1, <1>11 DEF Bls12MapFp2ToG2, Exec, Inputs
  <2>2. BLSRunOK(bls12_map_fp2_tp_g2(call.input, gas), BLS12_MAP_FP2_TO_G2_ADDRESS,
                 call.input, gas)
    BY <2>1, Bls12MapFp2ToG2Conforms
  <2>. QED  BY <1>11, <2>2, ExecBLS DEF Bls12MapFp2ToG2, PRECOMPILES_POST_CANCUN
<1>. QED  BY <1>2, <1>3, <1>4, <1>5, <1>6, <1>7, <1>8, <1>9, <1>10, <1>11
          DEF Next, ExecutePrecompile

(* EIP-2537 conformance (BLSConforms, checked by the run                  *)
(* precompiles_conform): every BLS12-381 precompile call, on any          *)
(* calldata and any gas, succeeds exactly when spec 4.9 says it must and  *)
(* returns the output it gives, for every UsizeMax, MaxPairs and input    *)
(* sets.                                                                  *)
THEOREM BLSConformsInvariant == Spec => []BLSConforms
<1>1. Init => IInv /\ BLSConforms
  BY InitIInv, NoResultAssumption DEF Init, BLSConforms
<1>2. IInv /\ BLSConforms /\ [Next]_vars => (IInv /\ BLSConforms)'
  BY NextIInv, NextBLS
<1>. QED  BY <1>1, <1>2, PTL DEF Spec

-----------------------------------------------------------------------------
(* The precompiles of spec 4.3-4.8.  CoreRunOK(o, a, in, g) is            *)
(* CoreConforms for one run o of the precompile at address a on input in *)
(* with gas g.                                                            *)
CoreRunOK(o, a, in, g) ==
    LET ok == o.res.status = "ok"
        paid == g >= Cost(a, in)
    IN
    /\ a = ECRECOVER_ADDRESS =>
          /\ ok <=> paid
          /\ ok => o.res.out = IF in.v \in {27, 28} /\ in.recoverable
                               THEN [kind |-> "data", len |-> 32]
                               ELSE [kind |-> "empty", len |-> 0]
    /\ a \in {SHA2_256_ADDRESS, RIPEMD_160_ADDRESS, IDENTITY_ADDRESS} =>
          /\ ok <=> paid
          /\ ok => o.res.out.len = IF a = IDENTITY_ADDRESS THEN in.len ELSE 32
    /\ a = MODEXP_ADDRESS =>
          /\ ok <=> paid /\ SpecModexpFits(in)
          /\ ok => o.res.out.len = in.m
    /\ a = ECADD_ADDRESS =>
          /\ ok <=> paid /\ "off" \notin {in.p1, in.p2}
          /\ ok => o.res.out = [kind |-> IF in.sumZero \/ (in.p1 = "inf" /\ in.p2 = "inf")
                                         THEN "zero" ELSE "point", len |-> 64]
    /\ a = ECPAIRING_ADDRESS =>
          /\ ok <=> in.aligned /\ paid /\ \A i \in DOMAIN in.pairs : SpecPairOK(in.pairs[i])
          /\ ok => o.res.out = SpecPairingOut(in)
    /\ a = BLAKE2F_ADDRESS =>
          /\ ok <=> paid /\ in.len = 213 /\ in.f \in {0, 1}
          /\ ok => o.res.out.len = 64
    /\ a = POINT_EVALUATION_ADDRESS =>
          /\ ok <=> paid /\ in.len = 192 /\ in.hashOk /\ in.proofOk
          /\ ok => o.res.out = [kind |-> "const", len |-> 64]

(* ecrecover meters 3000 and returns the address or nothing.              *)
LEMMA EcrecoverConforms ==
    ASSUME NEW in \in EcrecoverInputs, NEW g \in Nat
    PROVE  CoreRunOK(ecrecover(in, g), ECRECOVER_ADDRESS, in, g)
<1>1. Cost(ECRECOVER_ADDRESS, in) = 3000
  BY DEF Cost
<1>. QED  BY <1>1 DEF CoreRunOK, ecrecover, Charged, Out, Ok, Halt

(* Charged(cost, g, r) succeeds exactly when the gas covers the cost and  *)
(* r is a success, and then returns r itself.                             *)
LEMMA ChargedOk ==
    ASSUME NEW c \in Nat, NEW g \in Nat, NEW r, r.status \in {"ok", "halt", "internal"}
    PROVE  /\ Charged(c, g, r).res.status = "ok" <=> g >= c /\ r.status = "ok"
           /\ Charged(c, g, r).res.status = "ok" => Charged(c, g, r).res = r
BY DEF Charged, Out, Halt

(* The hashes and identity meter by words and always succeed once paid.  *)
LEMMA HashConforms ==
    ASSUME NEW in \in LenInputs, NEW g \in Nat
    PROVE  /\ CoreRunOK(sha2_256(in, g), SHA2_256_ADDRESS, in, g)
           /\ CoreRunOK(ripemd_160(in, g), RIPEMD_160_ADDRESS, in, g)
           /\ CoreRunOK(identity(in, g), IDENTITY_ADDRESS, in, g)
<1>1. Words(in.len) \in Nat /\ in.len \in Nat
  <2>1. in.len \in Lens
    BY DEF LenInputs
  <2>2. in.len \in Nat
    BY <2>1, LensAssumption
  <2>. QED  BY <2>2 DEF Words
<1>2. /\ Cost(SHA2_256_ADDRESS, in) = 60 + 12 * Words(in.len)
      /\ Cost(RIPEMD_160_ADDRESS, in) = 600 + 120 * Words(in.len)
      /\ Cost(IDENTITY_ADDRESS, in) = 15 + 3 * Words(in.len)
  BY DEF Cost
<1>3. /\ Cost(SHA2_256_ADDRESS, in) \in Nat
      /\ Cost(RIPEMD_160_ADDRESS, in) \in Nat
      /\ Cost(IDENTITY_ADDRESS, in) \in Nat
  BY <1>1, <1>2
<1>4. Ok("data", 32).status = "ok" /\ Ok("data", in.len).status = "ok"
      /\ Ok("data", 32).out.len = 32 /\ Ok("data", in.len).out.len = in.len
  BY DEF Ok
<1>5. CoreRunOK(sha2_256(in, g), SHA2_256_ADDRESS, in, g)
  <2>1. sha2_256(in, g) = Charged(Cost(SHA2_256_ADDRESS, in), g, Ok("data", 32))
    BY DEF sha2_256
  <2>. QED  BY <1>3, <1>4, <2>1, ChargedOk DEF CoreRunOK
<1>6. CoreRunOK(ripemd_160(in, g), RIPEMD_160_ADDRESS, in, g)
  <2>1. ripemd_160(in, g) = Charged(Cost(RIPEMD_160_ADDRESS, in), g, Ok("data", 32))
    BY DEF ripemd_160
  <2>. QED  BY <1>3, <1>4, <2>1, ChargedOk DEF CoreRunOK
<1>7. CoreRunOK(identity(in, g), IDENTITY_ADDRESS, in, g)
  <2>1. identity(in, g) = Charged(Cost(IDENTITY_ADDRESS, in), g, Ok("data", in.len))
    BY DEF identity
  <2>. QED  BY <1>3, <1>4, <2>1, ChargedOk DEF CoreRunOK
<1>. QED  BY <1>5, <1>6, <1>7

(* modexp succeeds exactly when paid and the lengths and offsets fit a    *)
(* usize: a length above usize::MAX already breaks the offsets' bound.   *)
LEMMA ModexpConforms ==
    ASSUME NEW in \in ModexpInputs, NEW g \in Nat
    PROVE  CoreRunOK(modexp(in, g), MODEXP_ADDRESS, in, g)
<1>1. /\ in.b \in Nat /\ in.e \in Nat /\ in.m \in Nat /\ UsizeMax \in Nat
      /\ ModexpGas(in.b, in.e, in.m, in.expBits) \in Nat
  BY ModexpFacts, UsizeMaxAssumption
<1>2. Cost(MODEXP_ADDRESS, in) = IF in.b = 0 /\ in.m = 0 THEN 200
                                 ELSE ModexpGas(in.b, in.e, in.m, in.expBits)
  BY DEF Cost
<1>0. Ok("empty", 0).status = "ok" /\ Ok("empty", 0).out.len = 0
      /\ Ok("data", in.m).status = "ok" /\ Ok("data", in.m).out.len = in.m
  BY DEF Ok
<1>3. CASE in.b = 0 /\ in.m = 0
  <2>1. modexp(in, g) = Charged(200, g, Ok("empty", 0))
    BY <1>3 DEF modexp
  <2>2. Cost(MODEXP_ADDRESS, in) = 200 /\ SpecModexpFits(in)
    BY <1>2, <1>3 DEF SpecModexpFits
  <2>. QED  BY <1>0, <1>3, <2>1, <2>2, ChargedOk DEF CoreRunOK
<1>4. CASE ~(in.b = 0 /\ in.m = 0)
  <2>1. Cost(MODEXP_ADDRESS, in) = ModexpGas(in.b, in.e, in.m, in.expBits)
    BY <1>2, <1>4
  <2>2. SpecModexpFits(in) <=> in.m + in.e + in.b + 96 <= UsizeMax
    BY <1>4 DEF SpecModexpFits
  <2>3. CASE in.m + in.e + in.b + 96 <= UsizeMax
    <3>1. modexp(in, g) = Charged(ModexpGas(in.b, in.e, in.m, in.expBits), g, Ok("data", in.m))
      BY <1>1, <1>4, <2>3 DEF modexp
    <3>. QED  BY <1>0, <1>1, <2>1, <2>2, <2>3, <3>1, ChargedOk DEF CoreRunOK
  <2>4. CASE ~(in.m + in.e + in.b + 96 <= UsizeMax)
    <3>1. modexp(in, g).res.status # "ok"
      BY <1>1, <1>4, <2>4 DEF modexp, Out, Halt, Internal
    <3>. QED  BY <2>2, <2>4, <3>1 DEF CoreRunOK
  <2>. QED  BY <2>3, <2>4
<1>. QED  BY <1>3, <1>4

(* blake2f: length first, then the rounds' gas, then the flag.            *)
LEMMA Blake2fConforms ==
    ASSUME NEW in \in Blake2fInputs, NEW g \in Nat
    PROVE  CoreRunOK(blake2f(in, g), BLAKE2F_ADDRESS, in, g)
<1>1. Cost(BLAKE2F_ADDRESS, in) = in.rounds /\ in.rounds \in Nat
  <2>1. in.rounds \in Rounds
    BY DEF Blake2fInputs
  <2>2. in.rounds \in Nat
    BY <2>1, RoundsAssumption
  <2>3. Cost(BLAKE2F_ADDRESS, in) = in.rounds
    BY DEF Cost
  <2>. QED  BY <2>2, <2>3
<1>2. CASE in.len # 213
  <2>1. blake2f(in, g).res.status # "ok"
    BY <1>2 DEF blake2f, Out, Halt
  <2>. QED  BY <1>2, <2>1 DEF CoreRunOK
<1>3. CASE in.len = 213
  <2> DEFINE r == IF in.f \notin {0, 1} THEN Halt("ParsingInputError") ELSE Ok("data", 64)
  <2>1. blake2f(in, g) = Charged(in.rounds, g, r)
    BY <1>3 DEF blake2f
  <2>2. /\ r.status \in {"ok", "halt", "internal"}
        /\ r.status = "ok" <=> in.f \in {0, 1}
        /\ r.status = "ok" => r.out.len = 64
    BY DEF Halt, Ok
  <2>. QED  BY <1>1, <1>3, <2>1, <2>2, ChargedOk DEF CoreRunOK
<1>. QED  BY <1>2, <1>3

(* The point evaluation: length, gas, then the versioned hash and proof.  *)
LEMMA PointEvaluationConforms ==
    ASSUME NEW in \in PointEvalInputs, NEW g \in Nat
    PROVE  CoreRunOK(point_evaluation(in, g), POINT_EVALUATION_ADDRESS, in, g)
<1>1. Cost(POINT_EVALUATION_ADDRESS, in) = 50000
  BY DEF Cost
<1>. QED  BY <1>1 DEF CoreRunOK, point_evaluation, Charged, Out, Ok, Halt

(* With every G1 encoding canonical, ecadd's decoders return the class   *)
(* itself and ecadd fails exactly on a finite point off the curve.        *)
LEMMA EcaddConforms ==
    ASSUME BNNonCanonical = {}, NEW in \in EcaddInputs, NEW g \in Nat
    PROVE  CoreRunOK(ecadd(in, g), ECADD_ADDRESS, in, g)
<1>1. /\ in.p1 \in BNClass /\ in.p2 \in BNClass /\ in.sumZero \in BOOLEAN
      /\ in.sumZero => in.p1 = "on" /\ in.p2 = "on"
  BY DEF EcaddInputs, G1Class, Decoded, BNClass
<1>2. Decoded(in.p1) = in.p1 /\ Decoded(in.p2) = in.p2
  BY <1>1 DEF Decoded, BNClass
<1>3. Cost(ECADD_ADDRESS, in) = 150
  BY DEF Cost
<1>4. ecadd(in, g) =
        Charged(150, g, IF "off" \in {in.p1, in.p2} THEN Halt("ParsingInputError")
                        ELSE IF in.sumZero \/ (in.p1 = "inf" /\ in.p2 = "inf")
                             THEN Ok("zero", 64) ELSE Ok("point", 64))
  <2>1. CASE in.p1 = "inf" /\ in.p2 = "inf"
    BY <1>1, <1>2, <2>1 DEF ecadd
  <2>2. CASE in.p1 = "inf" /\ in.p2 # "inf"
    <3>1. ~in.sumZero /\ "bigErr" \notin {in.p1, in.p2}
      BY <1>1, <2>2 DEF BNClass
    <3>. QED  BY <1>2, <2>2, <3>1 DEF ecadd
  <2>3. CASE in.p1 # "inf" /\ in.p2 = "inf"
    <3>1. ~in.sumZero /\ "bigErr" \notin {in.p1, in.p2}
      BY <1>1, <2>3 DEF BNClass
    <3>. QED  BY <1>2, <2>3, <3>1 DEF ecadd
  <2>4. CASE in.p1 # "inf" /\ in.p2 # "inf"
    BY <1>1, <1>2, <2>4 DEF ecadd, BNClass
  <2>. QED  BY <2>1, <2>2, <2>3, <2>4
<1>. QED  BY <1>1, <1>3, <1>4 DEF CoreRunOK, Charged, Out, Ok, Halt

(* With canonical G1 encodings, the code's four checks of a pair pass     *)
(* exactly when spec 4.6 and EIP-197 accept the pair: the check of the    *)
(* finite point of a pair with one infinity (line 667) included.          *)
LEMMA BNPairConforms ==
    ASSUME BNNonCanonical = {}, NEW p \in BNPairs
    PROVE  handle_pairing_error(p) = "none" <=> SpecPairOK(p)
<1>1. DOMAIN PairCheckErrs(p) = 1..4 /\ 4 \in 0..6
  BY DEF PairCheckErrs
<1>2. handle_pairing_error(p) = "none" <=> \A i \in 1..4 : PairCheckErrs(p)[i] = "none"
  BY <1>1, FirstErrNone DEF handle_pairing_error
<1>3. /\ p.g1 \in {"inf", "on", "off", "half"}
      /\ p.g2 \in {"inf", "on", "off", "half", "big", "nosub"}
  BY DEF BNPairs, G1Class, BNClass
<1>4. Decoded(p.g1) = p.g1
  BY <1>3 DEF Decoded
<1>5. (\A i \in 1..4 : PairCheckErrs(p)[i] = "none") <=> SpecPairOK(p)
  BY <1>3, <1>4 DEF SpecPairOK, PairCheckErrs
<1>. QED  BY <1>2, <1>5

(* ecpairing succeeds exactly on aligned, paid input whose every pair     *)
(* spec 4.6 and EIP-197 accept, and then returns the pairing check.       *)
LEMMA EcpairingConforms ==
    ASSUME BNNonCanonical = {}, NEW in \in EcpairingInputs, NEW g \in Nat
    PROVE  CoreRunOK(ecpairing(in, g), ECPAIRING_ADDRESS, in, g)
<1> DEFINE k == Len(in.pairs)
           errs == [i \in DOMAIN in.pairs |-> handle_pairing_error(in.pairs[i])]
           e == FirstErr(errs)
           r == IF e = "Msg" THEN Internal(e)
                ELSE IF e # "none" THEN Halt(e)
                ELSE IF (\E i \in DOMAIN in.pairs : Contributes(in.pairs[i])) /\ ~in.one
                     THEN Ok("zero", 32)
                     ELSE Ok("one", 32)
           o == ecpairing(in, g)
<1>1. /\ in.pairs \in Seq(BNPairs) /\ k \in 0..MaxPairs /\ DOMAIN in.pairs = 1..k
  <2>1. in.pairs \in SeqsUpTo(BNPairs, MaxPairs)
    BY DEF EcpairingInputs
  <2>2. MaxPairs \in Nat
    BY MaxPairsAssumption
  <2>. QED  BY <2>1, <2>2, SeqsUpToSeq
<1>2. k \in 0..6
  <2>1. MaxPairs \in 1..3  BY MaxPairsAssumption
  <2>2. PICK n \in 0..MaxPairs : n = k  BY <1>1
  <2>3. n \in 0..6  BY <2>1
  <2>. QED  BY <2>2, <2>3
<1>3. Cost(ECPAIRING_ADDRESS, in) = 45000 + 34000 * k /\ Cost(ECPAIRING_ADDRESS, in) \in Nat
  BY <1>2 DEF Cost
<1>4. /\ r.status \in {"ok", "halt", "internal"}
      /\ r.status = "ok" <=> e = "none"
      /\ r.status = "ok" =>
            r.out = [kind |-> IF (\E i \in DOMAIN in.pairs : Contributes(in.pairs[i])) /\ ~in.one
                              THEN "zero" ELSE "one", len |-> 32]
  BY DEF Internal, Halt, Ok
<1>5. CASE ~in.aligned
  <2>1. o.res.status # "ok"
    BY <1>5 DEF ecpairing, Out, Halt
  <2>. QED  BY <1>5, <2>1 DEF CoreRunOK
<1>6. CASE in.aligned
  <2>1. o = Charged(Cost(ECPAIRING_ADDRESS, in), g, r)
    BY <1>6 DEF ecpairing
  <2> HIDE DEF r
  <2>2. /\ o.res.status = "ok" <=> g >= Cost(ECPAIRING_ADDRESS, in) /\ e = "none"
        /\ o.res.status = "ok" => o.res = r
    <3>1. /\ Charged(Cost(ECPAIRING_ADDRESS, in), g, r).res.status = "ok"
               <=> g >= Cost(ECPAIRING_ADDRESS, in) /\ r.status = "ok"
          /\ Charged(Cost(ECPAIRING_ADDRESS, in), g, r).res.status = "ok"
               => Charged(Cost(ECPAIRING_ADDRESS, in), g, r).res = r
      BY <1>3, <1>4, ChargedOk
    <3>. QED  BY <1>4, <2>1, <3>1
  <2>3. e = "none" <=> \A i \in 1..k : handle_pairing_error(in.pairs[i]) = "none"
    <3>1. DOMAIN errs = 1..k
      BY <1>1
    <3>2. e = "none" <=> \A i \in 1..k : errs[i] = "none"
      BY <1>2, <3>1, FirstErrNone
    <3>3. \A i \in 1..k : errs[i] = handle_pairing_error(in.pairs[i])
      BY <3>1
    <3>. QED  BY <3>2, <3>3
  <2>4. \A i \in 1..k : handle_pairing_error(in.pairs[i]) = "none" <=> SpecPairOK(in.pairs[i])
    BY <1>1, BNPairConforms
  <2>5. ((\E i \in DOMAIN in.pairs : Contributes(in.pairs[i])) /\ ~in.one)
          <=> ~(in.one \/ \A i \in DOMAIN in.pairs : "inf" \in {in.pairs[i].g1, in.pairs[i].g2})
    BY DEF Contributes
  <2>6. SpecPairingOut(in) = [kind |-> IF (\E i \in DOMAIN in.pairs : Contributes(in.pairs[i])) /\ ~in.one
                                       THEN "zero" ELSE "one", len |-> 32]
    BY <2>5 DEF SpecPairingOut
  <2>7. o.res.status = "ok" <=> /\ in.aligned /\ g >= Cost(ECPAIRING_ADDRESS, in)
                                 /\ \A i \in DOMAIN in.pairs : SpecPairOK(in.pairs[i])
    BY <1>1, <1>6, <2>2, <2>3, <2>4
  <2>8. o.res.status = "ok" => o.res.out = SpecPairingOut(in)
    BY <1>4, <2>2, <2>6
  <2>. QED  BY <2>7, <2>8 DEF CoreRunOK
<1>. QED  BY <1>5, <1>6

(* A step of execute_precompile at one of the addresses 0x01..0x0a whose *)
(* run conforms leaves a conforming result: the gas the run saw is the    *)
(* call's.                                                                *)
LEMMA ExecCore ==
    ASSUME IInv, NEW a \in PRECOMPILES, NEW r, Exec(a, r),
           CoreRunOK(r, a, call.input, gas)
    PROVE  CoreConforms'
<1>1. gas = call.gas /\ call' = call /\ result' = r.res /\ call.addr = a
  BY DEF IInv, Running, Exec
<1>. QED  BY <1>1 DEF CoreRunOK, CoreConforms, Paid

(* A step at a BLS12-381 address leaves a result CoreConforms does not    *)
(* speak of.                                                              *)
LEMMA ExecPostCancun ==
    ASSUME NEW a \in PRECOMPILES_POST_CANCUN, NEW r, Exec(a, r)
    PROVE  CoreConforms'
BY DEF Exec, CoreConforms, PRECOMPILES_POST_CANCUN

LEMMA NextCore ==
    ASSUME BNNonCanonical = {}
    PROVE  IInv /\ CoreConforms /\ [Next]_vars => CoreConforms'
<1> SUFFICES ASSUME IInv, CoreConforms, [Next]_vars PROVE CoreConforms'
  OBVIOUS
<1>1. ASSUME NEW A, call # NoCall, result = NoResult, call.addr = A
      PROVE  call.input \in Inputs(A) /\ gas \in Nat
  BY <1>1, RunningCall
<1>2. CASE \E a \in Addresses : \E in \in Inputs(a) : \E g \in GasOffers(a, in) : Invoke(a, in, g)
  BY <1>2, NoResultAssumption DEF Invoke, CoreConforms
<1>3. CASE UNCHANGED vars
  BY <1>3 DEF vars, CoreConforms, Paid
<1>4. CASE Bls12G1Add \/ Bls12G1Msm \/ Bls12G2Add \/ Bls12G2Msm \/ Bls12PairingCheck
           \/ Bls12MapFpToG1 \/ Bls12MapFp2ToG2
  BY <1>4, ExecPostCancun DEF Bls12G1Add, Bls12G1Msm, Bls12G2Add, Bls12G2Msm,
                              Bls12PairingCheck, Bls12MapFpToG1, Bls12MapFp2ToG2,
                              PRECOMPILES_POST_CANCUN
<1>5. CASE Ecrecover
  <2>1. call.input \in EcrecoverInputs /\ gas \in Nat
    BY <1>1, <1>5 DEF Ecrecover, Exec, Inputs
  <2>2. CoreRunOK(ecrecover(call.input, gas), ECRECOVER_ADDRESS, call.input, gas)
    BY <2>1, EcrecoverConforms
  <2>. QED  BY <1>5, <2>2, ExecCore DEF Ecrecover, PRECOMPILES
<1>6. CASE Sha2_256
  <2>1. call.input \in LenInputs /\ gas \in Nat
    BY <1>1, <1>6 DEF Sha2_256, Exec, Inputs
  <2>2. CoreRunOK(sha2_256(call.input, gas), SHA2_256_ADDRESS, call.input, gas)
    BY <2>1, HashConforms
  <2>. QED  BY <1>6, <2>2, ExecCore DEF Sha2_256, PRECOMPILES
<1>7. CASE Ripemd_160
  <2>1. call.input \in LenInputs /\ gas \in Nat
    BY <1>1, <1>7 DEF Ripemd_160, Exec, Inputs
  <2>2. CoreRunOK(ripemd_160(call.input, gas), RIPEMD_160_ADDRESS, call.input, gas)
    BY <2>1, HashConforms
  <2>. QED  BY <1>7, <2>2, ExecCore DEF Ripemd_160, PRECOMPILES
<1>8. CASE Identity
  <2>1. call.input \in LenInputs /\ gas \in Nat
    BY <1>1, <1>8 DEF Identity, Exec, Inputs
  <2>2. CoreRunOK(identity(call.input, gas), IDENTITY_ADDRESS, call.input, gas)
    BY <2>1, HashConforms
  <2>. QED  BY <1>8, <2>2, ExecCore DEF Identity, PRECOMPILES
<1>9. CASE Modexp
  <2>1. call.input \in ModexpInputs /\ gas \in Nat
    BY <1>1, <1>9 DEF Modexp, Exec, Inputs
  <2>2. CoreRunOK(modexp(call.input, gas), MODEXP_ADDRESS, call.input, gas)
    BY <2>1, ModexpConforms
  <2>. QED  BY <1>9, <2>2, ExecCore DEF Modexp, PRECOMPILES
<1>10. CASE Ecadd
  <2>1. call.input \in EcaddInputs /\ gas \in Nat
    BY <1>1, <1>10 DEF Ecadd, Exec, Inputs
  <2>2. CoreRunOK(ecadd(call.input, gas), ECADD_ADDRESS, call.input, gas)
    BY <2>1, EcaddConforms
  <2>. QED  BY <1>10, <2>2, ExecCore DEF Ecadd, PRECOMPILES
<1>11. CASE Ecmul
  <2>1. CoreRunOK(ecmul(call.input, gas), ECMUL_ADDRESS, call.input, gas)
    BY DEF CoreRunOK
  <2>. QED  BY <1>11, <2>1, ExecCore DEF Ecmul, PRECOMPILES
<1>12. CASE Ecpairing
  <2>1. call.input \in EcpairingInputs /\ gas \in Nat
    BY <1>1, <1>12 DEF Ecpairing, Exec, Inputs
  <2>2. CoreRunOK(ecpairing(call.input, gas), ECPAIRING_ADDRESS, call.input, gas)
    BY <2>1, EcpairingConforms
  <2>. QED  BY <1>12, <2>2, ExecCore DEF Ecpairing, PRECOMPILES
<1>13. CASE Blake2f
  <2>1. call.input \in Blake2fInputs /\ gas \in Nat
    BY <1>1, <1>13 DEF Blake2f, Exec, Inputs
  <2>2. CoreRunOK(blake2f(call.input, gas), BLAKE2F_ADDRESS, call.input, gas)
    BY <2>1, Blake2fConforms
  <2>. QED  BY <1>13, <2>2, ExecCore DEF Blake2f, PRECOMPILES
<1>14. CASE PointEvaluation
  <2>1. call.input \in PointEvalInputs /\ gas \in Nat
    BY <1>1, <1>14 DEF PointEvaluation, Exec, Inputs
  <2>2. CoreRunOK(point_evaluation(call.input, gas), POINT_EVALUATION_ADDRESS, call.input, gas)
    BY <2>1, PointEvaluationConforms
  <2>. QED  BY <1>14, <2>2, ExecCore DEF PointEvaluation, PRECOMPILES
<1>. QED  BY <1>2, <1>3, <1>4, <1>5, <1>6, <1>7, <1>8, <1>9, <1>10, <1>11, <1>12, <1>13,
              <1>14 DEF Next, ExecutePrecompile

(* Conformance of the precompiles 0x01..0x0a to spec 4.3-4.8              *)
(* (CoreConforms, checked by the run precompiles_conform): ecrecover, the *)
(* hashes, identity, modexp, ecadd, ecpairing, blake2f and the point      *)
(* evaluation succeed exactly when the spec says and return what it says, *)
(* for every UsizeMax, MaxPairs and input sets, when every BN254 G1       *)
(* encoding is canonical (BNNonCanonical = {}, as in that run).  With a   *)
(* non-canonical one it fails: the finding of bn254_g1_noncanonical.      *)
THEOREM CoreConformsInvariant ==
    ASSUME BNNonCanonical = {}
    PROVE  Spec => []CoreConforms
<1>1. Init => IInv /\ CoreConforms
  BY InitIInv, NoResultAssumption DEF Init, CoreConforms
<1>2. IInv /\ CoreConforms /\ [Next]_vars => (IInv /\ CoreConforms)'
  BY NextIInv, NextCore
<1>. QED  BY <1>1, <1>2, PTL DEF Spec

=============================================================================
