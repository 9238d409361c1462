----------------------------- MODULE SealImage -----------------------------
(***************************************************************************)
(* What a CKKS or BFV application lays out in HPU memory, and what the     *)
(* constants among it contain.  An object is <<kind, owner, element,       *)
(* level>>, a limb is <<object, role, index, mod>>: one polynomial under   *)
(* one modulus.  What an object allocates is a set of <<role, index, mod>>.*)
(***************************************************************************)
EXTENDS HardwareNtt, FiniteSets

Object(kind, owner, element, level) == <<kind, owner, element, level>>
Limb(object, role, i, m) == <<object, role, i, m>>
NoObject == Object("none", 0, 0, 0)
Canonical == Object("canonical", 0, 0, 0)

Mods(list) == ToSet(list)
Limbs(count, mods) == (0 .. count - 1) \X Mods(mods)
Grid(role, indexes, mods) == {role} \X indexes \X mods
Others(list, m) == SelectSeq(list, LAMBDA other : other # m)

\* The base conversion of m limbs at a time has one factor for each source,
\* and one for each source and target.
BconvConstants(inverse, factor, i, sources, targets) ==
  Grid(inverse, {i}, Mods(sources)) \cup Grid(factor, Mods(sources), targets)
ProductMod(list, m) ==
  LET product[k \in 0 .. Len(list)] == IF k = 0 THEN 1 ELSE (product[k - 1] * Q(list[k])) % Q(m)
  IN  product[Len(list)]
HatInverse(list, m) == InverseMod(ProductMod(Others(list, m), m), m)
HatMod(list, source, m) == ProductMod(Others(list, source), m)

\* The tables of the canonical transforms, and of those that also apply X -> X^element.
TableOf(kind, element, role, m) ==
  IF role = "ntt" THEN ForwardTable(m) ELSE InverseTable(m, IF kind = "fused" THEN FusedExponent[element] ELSE 1)
AllPack(kind, element, limbs) == PairsValid /\ \A l \in limbs : TablePacks(TableOf(kind, element, l[1], l[3]))

\* Limbs that programs store to; they are never read-only.
Scratch == {"modup", "accumulator", "normalized", "correction", "rounded", "input", "tensor", "converted", "y", "alpha"}
\* Everything else is: imported data, keys, tables and constants.
Writable(limb) == limb[1][1] \in {"output", "workspace"} \/ limb[2] \in Scratch

-----------------------------------------------------------------------------
(* CKKS.                                                                   *)

\* CKKS has no moduli but those of Q and P.
CkksModIds == 0 .. PId
CkksTables == Grid("ntt", {0}, CkksModIds) \cup Grid("intt", {0}, CkksModIds)
CkksFusedTables(level) == Grid("intt", {0}, Mods(QIds(level)))

CkksValueLimbs(level, capacity) == Grid("c", 0 .. capacity - 1, Mods(QIds(level)))
CkksPlainLimbs(level) == Grid("c", {0}, Mods(QIds(level)))
CkksKeyLimbs(level) == Grid("key", 0 .. 2 * Len(KeyDigits(level)) - 1, Mods(FullIds(level)))

KeySwitchConstants(level) ==
  LET q == Mods(QIds(level))
      full == Mods(FullIds(level))
      digits == KeyDigits(level)
  IN  Grid("half", {0}, full) \cup Grid("p_inverse", {0}, q)
      \cup UNION {BconvConstants("modup_inverse", "modup_factor", d - 1, digits[d], full \ Mods(digits[d])) : d \in DOMAIN digits}
      \cup BconvConstants("moddown_inverse", "moddown_factor", 0, <<PId>>, q)
\* Used again by every key switching of the level.
KeySwitchWorkspace(level) ==
  Grid("modup", {0}, Mods(FullIds(level))) \cup Grid("accumulator", {0, 1}, Mods(FullIds(level)))
  \cup Grid("normalized", {0}, {0}) \cup Grid("correction", {0}, Mods(QIds(level)))

RescaleLimbs(level, capacity) ==
  LET q == Mods(QIds(level))
      kept == Mods(QIds(NextLevel(level)))
  IN  Grid("half", {0}, q) \cup Grid("last_inverse", {0}, kept)
      \cup BconvConstants("drop_inverse", "drop_factor", 0, <<Dropped(level)>>, kept)
      \cup Grid("rounded", 0 .. capacity - 1, q)
      \cup Grid("normalized", {0}, {0}) \cup Grid("correction", {0}, kept)

CkksLimbs(kind, level, capacity) ==
  CASE kind \in {"input", "output", "workspace"} -> CkksValueLimbs(level, capacity)
    [] kind = "plain" -> CkksPlainLimbs(level)
    [] kind \in {"relin_key", "galois_key"} -> CkksKeyLimbs(level)
    [] kind = "fused" -> CkksFusedTables(level)
    [] kind = "keyswitch" -> KeySwitchConstants(level) \cup KeySwitchWorkspace(level)
    [] kind = "rescale" -> RescaleLimbs(level, capacity)
    [] kind = "canonical" -> CkksTables

(***************************************************************************)
(* The word that a constant polynomial repeats.                            *)
(***************************************************************************)
KeySwitchWord(level, role, i, m) ==
  CASE role = "half" -> Q(PId) \div 2
    [] role = "p_inverse" -> InverseMod(Q(PId), m)
    [] role = "modup_inverse" -> HatInverse(KeyDigits(level)[i + 1], m)
    [] role = "modup_factor" -> HatMod(KeyDigits(level)[i + 1], i, m)
    [] role = "moddown_inverse" -> HatInverse(<<PId>>, m)
    [] role = "moddown_factor" -> HatMod(<<PId>>, i, m)
\* Mutant: half of the special modulus instead of the dropped one.
HalfOfSpecialModulus(level, role, i, m) ==
  CASE role = "half" -> Q(PId) \div 2
    [] role = "last_inverse" -> InverseMod(Q(Dropped(level)), m)
    [] role \in {"drop_inverse", "drop_factor"} -> 1
RescaleWord(level, role, i, m) ==
  CASE role = "half" -> Q(Dropped(level)) \div 2
    [] role = "last_inverse" -> InverseMod(Q(Dropped(level)), m)
    [] role \in {"drop_inverse", "drop_factor"} -> 1

\* <<kind, level, role, index, mod>> -> the polynomial
CkksConstants ==
  [x \in UNION {{<<"keyswitch", level>> \o l : l \in KeySwitchConstants(level)} : level \in Levels}
    |-> Const(x[5], KeySwitchWord(x[2], x[3], x[4], x[5]))]
  @@ [x \in UNION {{<<"rescale", level>> \o l : l \in {l \in RescaleLimbs(level, 3) : l[1] \notin Scratch}} : level \in Levels \ {0}}
       |-> Const(x[5], RescaleWord(x[2], x[3], x[4], x[5]))]

-----------------------------------------------------------------------------
(* BFV.                                                                    *)

\* Nothing is transformed under t.
BfvTables == Grid("ntt", {0}, ModIds \ {TId}) \cup Grid("intt", {0}, ModIds \ {TId})
BfvFusedTables(level) == Grid("intt", {0}, Mods(QIds(level)))

BfvValueLimbs(level, capacity) == Grid("c", 0 .. capacity - 1, Mods(QIds(level)))
BfvSumPlainLimbs(level) == Grid("c", {0}, Mods(QIds(level)))
BfvKeyLimbs(level) == Grid("key", 0 .. 2 * Len(KeyDigits(level)) - 1, Mods(FullIds(level)))

BfvKeySwitchLimbs(level) ==
  LET q == Mods(QIds(level))
      full == Mods(FullIds(level))
      digits == KeyDigits(level)
  IN  UNION {BconvConstants("modup_inverse", "modup_factor", d - 1, digits[d], full \ Mods(digits[d])) : d \in DOMAIN digits}
      \cup Grid("half", {0}, full)
      \cup BconvConstants("moddown_inverse", "moddown_factor", 0, <<PId>>, q) \cup Grid("p_inverse", {0}, q)
      \* workspace
      \cup Grid("modup", {0}, full) \cup Grid("accumulator", {0, 1}, full)
      \cup Grid("normalized", {0}, {0}) \cup Grid("correction", {0}, q)

MultiplyLimbs(level) ==
  LET q == Mods(QIds(level))
      b == Mods(BIds(level))
      bsk == Mods(BskIds(level))
      msk == {MskId(level)}
      larger == IF Cardinality(q) > Cardinality(b) THEN Cardinality(q) ELSE Cardinality(b)
  IN  BconvConstants("q_to_bsk_inverse", "q_to_bsk_factor", 0, QIds(level), bsk)
      \cup Grid("t", {0}, q \cup bsk) \cup Grid("q_inverse", {0}, bsk)
      \cup BconvConstants("b_to_q_inverse", "b_to_q_factor", 0, BIds(level), q)
      \* the conversion from B to m_sk shares the inverses of the one to Q
      \cup Grid("b_to_msk_factor", b, msk) \cup Grid("b_inverse", {0}, msk)
      \cup BconvConstants("msk_to_q_inverse", "msk_to_q_factor", 0, <<MskId(level)>>, q)
      \cup Grid("negative_b", {0}, q)
      \* workspace
      \cup Grid("normalized", 0 .. larger - 1, {0})
      \cup Grid("input", 0 .. 3, q \cup bsk) \cup Grid("tensor", 0 .. 2, q \cup bsk)
      \cup Grid("converted", 0 .. 2, bsk) \cup Grid("y", 0 .. 2, q) \cup Grid("alpha", 0 .. 2, q \cup msk)

ModSwitchLimbs(level, capacity) ==
  LET q == Mods(QIds(level))
      kept == Mods(QIds(NextLevel(level)))
  IN  Grid("half", {0}, q) \cup Grid("last_inverse", {0}, kept)
      \cup BconvConstants("drop_inverse", "drop_factor", 0, <<Dropped(level)>>, kept)
      \cup Grid("rounded", 0 .. capacity - 1, q)
      \cup Grid("normalized", {0}, {0}) \cup Grid("correction", {0}, kept)

BfvLimbs(kind, level, capacity) ==
  CASE kind \in {"input", "output", "workspace"} -> BfvValueLimbs(level, capacity)
    [] kind = "plain" -> BfvSumPlainLimbs(level)
    [] kind \in {"relin_key", "galois_key"} -> BfvKeyLimbs(level)
    [] kind = "fused" -> BfvFusedTables(level)
    [] kind = "keyswitch" -> BfvKeySwitchLimbs(level)
    [] kind = "multiply" -> MultiplyLimbs(level)
    [] kind = "mod_switch" -> ModSwitchLimbs(level, capacity)
    [] kind = "canonical" -> BfvTables

(***************************************************************************)
(* The word that a constant polynomial repeats.                            *)
(***************************************************************************)
BfvKeySwitchWord(level, role, i, m) ==
  CASE role = "half" -> Q(PId) \div 2
    [] role = "p_inverse" -> InverseMod(Q(PId), m)
    [] role = "modup_inverse" -> HatInverse(KeyDigits(level)[i + 1], m)
    [] role = "modup_factor" -> HatMod(KeyDigits(level)[i + 1], i, m)
    [] role = "moddown_inverse" -> HatInverse(<<PId>>, m)
    [] role = "moddown_factor" -> HatMod(<<PId>>, i, m)

MultiplyWord(level, role, i, m) ==
  CASE role = "q_to_bsk_inverse" -> HatInverse(QIds(level), m)
    [] role = "q_to_bsk_factor" -> HatMod(QIds(level), i, m)
    [] role = "t" -> PlainModulus
    [] role = "q_inverse" -> InverseMod(ProductMod(QIds(level), m), m)
    [] role = "b_to_q_inverse" -> HatInverse(BIds(level), m)
    [] role \in {"b_to_q_factor", "b_to_msk_factor"} -> HatMod(BIds(level), i, m)
    [] role = "b_inverse" -> InverseMod(ProductMod(BIds(level), m), m)
    [] role = "msk_to_q_inverse" -> HatInverse(<<MskId(level)>>, m)
    [] role = "msk_to_q_factor" -> HatMod(<<MskId(level)>>, i, m)
    [] role = "negative_b" -> Q(m) - ProductMod(BIds(level), m)

ModSwitchWord(level, role, i, m) ==
  CASE role = "half" -> Q(Dropped(level)) \div 2
    [] role = "last_inverse" -> InverseMod(Q(Dropped(level)), m)
    [] role \in {"drop_inverse", "drop_factor"} -> 1

ConstantRoles(limbs) == {l \in limbs : l[1] \notin Scratch}
\* <<kind, level, role, index, mod>> -> the polynomial
BfvConstants ==
  [x \in UNION {{<<"keyswitch", level>> \o l : l \in ConstantRoles(BfvKeySwitchLimbs(level))} : level \in Levels}
    |-> Const(x[5], BfvKeySwitchWord(x[2], x[3], x[4], x[5]))]
  @@ [x \in UNION {{<<"multiply", level>> \o l : l \in ConstantRoles(MultiplyLimbs(level))} : level \in Levels}
       |-> Const(x[5], MultiplyWord(x[2], x[3], x[4], x[5]))]
  @@ [x \in UNION {{<<"mod_switch", level>> \o l : l \in ConstantRoles(ModSwitchLimbs(level, 2))} : level \in Levels \ {0}}
       |-> Const(x[5], ModSwitchWord(x[2], x[3], x[4], x[5]))]
=============================================================================
