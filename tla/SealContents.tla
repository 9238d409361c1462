---------------------------- MODULE SealContents ----------------------------
(***************************************************************************)
(* The objects of the application that is being compiled: what they        *)
(* allocate, and what their read-only limbs contain once SEAL's data have  *)
(* been brought into the order of the HPU.                                 *)
(***************************************************************************)
EXTENDS SealFrontend

CONSTANT SealData(_, _, _, _, _)  \* coefficients of (kind, data, element, index, mod)

(***************************************************************************)
(* Between SEAL and the HPU.  A polynomial of SEAL is given here by its    *)
(* coefficients under one modulus, in their natural order (SEAL's own      *)
(* transformed order is a matter of SEAL alone: the bridge leaves it by    *)
(* SEAL's inverse transform and comes back by SEAL's transform).           *)
(***************************************************************************)
NegacyclicForward(m, coefficients) == Ntt(BitReversed(coefficients), ForwardTable(m))
NegacyclicInverse(m, physical) == BitReversed(Intt(physical, InverseTable(m, 1)))

\* CKKS is transformed on both sides, evaluation keys are in both schemes.
CiphertextToHpu(m, coefficients) == NegacyclicForward(m, coefficients)
PlaintextToHpu(m, coefficients) == NegacyclicForward(m, coefficients)
KeyToHpu(m, coefficients) == NegacyclicForward(m, coefficients)
HpuToSeal(m, physical) == NegacyclicInverse(m, physical)

\* BFV keeps ciphertexts as coefficients, in the order of the transform array.
BfvCiphertextToHpu(coefficients) == BitReversed(coefficients)
BfvHpuToSeal(physical) == BitReversed(physical)

Modulus(level) ==
  LET product[k \in 0 .. level + 1] == IF k = 0 THEN 1 ELSE product[k - 1] * Q(QIds(level)[k]) IN product[level + 1]
UpperHalf == (PlainModulus + 1) \div 2

\* A plaintext of BFV has coefficients below t.  To be added it is scaled by
\* Q / t, rounding to the nearest integer ..
ScaledWord(level, m, v) ==
  LET correction == (((Modulus(level) % PlainModulus) * v) + UpperHalf) \div PlainModulus
  IN  (v * ((Modulus(level) \div PlainModulus) % Q(m)) + correction) % Q(m)
SumPlaintextToHpu(level, m, plaintext) == BitReversed([i \in Index |-> ScaledWord(level, m, plaintext[i])])
\* .. and to be multiplied by it is centred around 0 and transformed.
CentredWord(m, v) == IF v < UpperHalf THEN v % Q(m) ELSE (Q(m) - ((PlainModulus - v) % Q(m))) % Q(m)
ProductPlaintextToHpu(m, plaintext) == NegacyclicForward(m, [i \in Index |-> CentredWord(m, plaintext[i])])

(***************************************************************************)
(* Imported data.                                                          *)
(***************************************************************************)
CkksInputs ==
  [d \in DOMAIN Ciphertexts |->
    [cm \in Limbs(Ciphertexts[d].comps, QIds(Ciphertexts[d].level)) |->
      CiphertextToHpu(cm[2], SealData("input", d, 0, cm[1], cm[2]))] @@ << >>] @@ << >>
BfvInputs ==
  [d \in DOMAIN Ciphertexts |->
    [cm \in Limbs(Ciphertexts[d].comps, QIds(Ciphertexts[d].level)) |->
      BfvCiphertextToHpu(SealData("input", d, 0, cm[1], cm[2]))] @@ << >>] @@ << >>

CkksPlains ==
  [d \in DOMAIN Plaintexts |->
    [cm \in Limbs(1, QIds(Plaintexts[d])) |-> PlaintextToHpu(cm[2], SealData("plain", d, 0, 0, cm[2]))] @@ << >>] @@ << >>
\* By the level of the ciphertext that it meets.
BfvSumPlains ==
  [d \in DOMAIN Plaintexts |-> [level \in Levels |->
    [cm \in Limbs(1, QIds(level)) |-> SumPlaintextToHpu(level, cm[2], SealData("plain", d, 0, 0, TId))] @@ << >>] @@ << >>] @@ << >>
BfvProductPlains ==
  [d \in DOMAIN Plaintexts |->
    [cm \in Limbs(1, QIds(TopLevel)) |-> ProductPlaintextToHpu(cm[2], SealData("plain", d, 0, 0, TId))] @@ << >>] @@ << >>

\* A level takes the digits of its data moduli, under these moduli and P.
DigitWords(kind, d, element) ==
  [im \in Limbs(2 * Len(KeyDigits(TopLevel)), FullIds(TopLevel)) |-> KeyToHpu(im[2], SealData(kind, d, element, im[1], im[2]))] @@ << >>
RelinKeyWords == [d \in RelinKeySets |-> DigitWords("relin_key", d, 0)] @@ << >>
GaloisKeyWords == [d \in DOMAIN GaloisKeySets |-> [element \in GaloisKeySets[d] |-> DigitWords("galois_key", d, element)] @@ << >>] @@ << >>

(***************************************************************************)
(* data is what was imported into the object, if anything was.             *)
(***************************************************************************)
LimbsOf(kind, level, capacity) == IF scheme = "ckks" THEN CkksLimbs(kind, level, capacity) ELSE BfvLimbs(kind, level, capacity)

CkksContent(object, data, role, i, m) ==
  CASE object[1] = "input" -> CkksInputs[data][<<i, m>>]
    [] object[1] = "plain" -> CkksPlains[data][<<i, m>>]
    [] OTHER -> CkksConstants[<<object[1], object[4], role, i, m>>]
BfvContent(object, data, role, i, m) ==
  CASE object[1] = "input" -> BfvInputs[data][<<i, m>>]
    [] object[1] = "plain" -> IF object[3] = 0 THEN BfvSumPlains[data][object[4]][<<i, m>>] ELSE BfvProductPlains[data][<<i, m>>]
    [] OTHER -> BfvConstants[<<object[1], object[4], role, i, m>>]
Content(limb, data) ==
  LET object == limb[1]
  IN  CASE object[1] = "relin_key" -> RelinKeyWords[data][<<limb[3], limb[4]>>]
        [] object[1] = "galois_key" -> GaloisKeyWords[data][object[3]][<<limb[3], limb[4]>>]
        [] OTHER -> IF scheme = "ckks" THEN CkksContent(object, data, limb[2], limb[3], limb[4])
                    ELSE BfvContent(object, data, limb[2], limb[3], limb[4])
\* Twiddles are in the form that the HPU makes the factors of a transform from.
IsTable(limb) == limb[1][1] \in {"canonical", "fused"}
TableContent(limb) == StoredTable(TableOf(limb[1][1], limb[1][3], limb[2], limb[4])).stored
=============================================================================
