------------------------------ MODULE SealPlan ------------------------------
(***************************************************************************)
(* The operation plans: what an appended operation needs, and what it is   *)
(* checked for before it is committed.  The image so far is `objects`, a   *)
(* function from an object to its capacity and to what was imported into   *)
(* it.  An operand is what a plan knows of a value: its object, level,     *)
(* number of components and scale.                                         *)
(***************************************************************************)
EXTENDS SealContents

Stored(capacity, data) == [capacity |-> capacity, data |-> data]
Holds(object, level, comps, scale) == [object |-> object, level |-> level, comps |-> comps, scale |-> scale]

KeyKind(kind) == IF kind = "relinearize" THEN "relin_key" ELSE "galois_key"
Switches(kind) == kind \in {"relinearize", "rotate"}
WithPlain(kind) == kind \in {"add_plain", "sub_plain", "multiply_plain"}
\* BFV has two forms of a plaintext: scaled coefficients, or transformed.
Variant(kind) == IF scheme = "bfv" /\ kind = "multiply_plain" THEN 1 ELSE 0

(***************************************************************************)
(* The objects of an operation.                                            *)
(***************************************************************************)
OutputObject(n, level) == Object("output", n, 0, level)
Identity(p) == CHOOSE i \in DOMAIN plains : plains[i] = plains[p] /\ \A j \in 1 .. i - 1 : plains[j] # plains[p]
PlainObject(value, level) == Object("plain", Identity(value.plain), Variant(value.kind), level)
KeyObject(value, level) == Object(KeyKind(value.kind), value.key, value.element, level)
ConstantsObject(kind, level) ==
  Object(CASE Switches(kind) -> "keyswitch" [] kind \in {"multiply", "square"} -> "multiply" [] OTHER -> kind, 0, 0, level)
FusedObject(element, level) == Object("fused", 0, element, level)
\* The coefficients of a CKKS relinearization or rescale belong to the step,
\* the images of a rotation to the node.
WorkspaceObject(n, value, level, step) ==
  CASE value.kind = "rotate" -> Object("workspace", n, value.element, level)
    [] scheme = "ckks" /\ value.kind \in {"relinearize", "rescale"} -> Object("workspace", step, 0, level)
    [] OTHER -> NoObject

(***************************************************************************)
(* Resources are made at their first use and found again at the next.      *)
(***************************************************************************)
Cached(objects, object, capacity, data) ==
  [o \in DOMAIN objects \cup {object} |-> IF o \in DOMAIN objects THEN objects[o] ELSE Stored(capacity, data)]
CachedIf(objects, condition, object, capacity, data) ==
  IF condition THEN Cached(objects, object, capacity, data) ELSE objects

WithOperandData(objects, value, level) ==
  CachedIf(CachedIf(objects, WithPlain(value.kind), PlainObject(value, level), 1, IF WithPlain(value.kind) THEN plains[value.plain] ELSE "none"),
           Switches(value.kind), KeyObject(value, level), 0, value.data)
\* Mutant: the first rescale of the level decides.
CapacityOfFirstRescale(level) ==
  LET first == CHOOSE i \in DOMAIN nodes : /\ nodes[i].kind = "rescale" /\ NextLevel(level) = nodes[i].level
                                          /\ \A j \in 1 .. i - 1 : nodes[j].kind # "rescale" \/ nodes[j].level # nodes[i].level
  IN  nodes[first].comps

\* One resource of a level serves every rescale there, of two components or three.
RescaleCapacity(level) ==
  IF \E i \in DOMAIN nodes : nodes[i].kind = "rescale" /\ nodes[i].comps = 3 /\ NextLevel(level) = nodes[i].level THEN 3 ELSE 2
CkksResources(objects, value, level) ==
  LET withConstants ==
        CachedIf(WithOperandData(objects, value, level), Switches(value.kind) \/ value.kind = "rescale", ConstantsObject(value.kind, level),
                 IF value.kind = "rescale" THEN RescaleCapacity(level) ELSE 2, "none")
  IN  CachedIf(withConstants, value.kind = "rotate", FusedObject(value.element, level), 0, "none")

BfvResources(objects, value, level) ==
  LET withConstants ==
        CachedIf(WithOperandData(objects, value, level), Switches(value.kind) \/ value.kind \in {"mod_switch", "multiply", "square"},
                 ConstantsObject(value.kind, level), 2, "none")
  IN  CachedIf(withConstants, value.kind = "rotate", FusedObject(value.element, level), 0, "none")

(***************************************************************************)
(* What an operation is checked for.                                       *)
(***************************************************************************)
Allocated(objects, limb) ==
  limb[1] \in DOMAIN objects /\ <<limb[2], limb[3], limb[4]>> \in LimbsOf(limb[1][1], limb[1][4], objects[limb[1]].capacity)

HasValue(objects, operand, comps) ==
  /\ operand.comps = comps
  /\ \A cm \in Limbs(comps, QIds(operand.level)) : Allocated(objects, Limb(operand.object, "c", cm[1], cm[2]))
HasKey(objects, key, level) ==
  \A im \in Limbs(2 * Len(KeyDigits(level)), FullIds(level)) : Allocated(objects, Limb(key, "key", im[1], im[2]))
HasConstants(objects, constants, level) == constants \in DOMAIN objects /\ constants[4] = level
HasFused(objects, fused, level) ==
  /\ \A m \in Mods(QIds(level)) : Allocated(objects, Limb(fused, "intt", 0, m))
  /\ AllPack("fused", fused[3], Grid("intt", {0}, Mods(QIds(level))))

\* value is what is planned, a and b its operands, n its node.
CkksSum(objects, a, b) == HasValue(objects, a, 2) /\ HasValue(objects, b, 2) /\ b.level = a.level /\ ScalesCompatible(a.scale, b.scale)
CkksProduct(objects, a, b) == HasValue(objects, a, 2) /\ HasValue(objects, b, 2) /\ b.level = a.level
CkksPlainProduct(objects, a, b) == HasValue(objects, a, 2) /\ HasValue(objects, b, 1) /\ b.level = a.level
CkksPlainSum(objects, a, b) == CkksPlainProduct(objects, a, b) /\ ScalesCompatible(a.scale, b.scale)
CkksSquare(objects, a) == HasValue(objects, a, 2)
CkksNegation(objects, a) == HasValue(objects, a, 2)
CkksRelinearization(objects, value, a) ==
  /\ HasValue(objects, a, 3)
  /\ HasKey(objects, KeyObject(value, a.level), a.level) /\ HasConstants(objects, ConstantsObject("relinearize", a.level), a.level)
CkksRescaling(objects, a) ==
  /\ HasValue(objects, a, a.comps) /\ HasNextLevel(a.level)
  /\ HasConstants(objects, ConstantsObject("rescale", a.level), a.level)
  /\ objects[ConstantsObject("rescale", a.level)].capacity >= a.comps
CkksGalois(objects, value, a) ==
  /\ HasValue(objects, a, 2) /\ value.element % 2 = 1 /\ value.element < Order
  /\ HasKey(objects, KeyObject(value, a.level), a.level) /\ HasConstants(objects, ConstantsObject("rotate", a.level), a.level)
  /\ HasFused(objects, FusedObject(value.element, a.level), a.level)

CkksAppends(objects, value, a, b) ==
  CASE value.kind \in {"add", "sub"} -> CkksSum(objects, a, b)
    [] value.kind = "multiply" -> CkksProduct(objects, a, b)
    [] value.kind = "square" -> CkksSquare(objects, a)
    [] value.kind = "negate" -> CkksNegation(objects, a)
    [] value.kind \in {"add_plain", "sub_plain"} -> CkksPlainSum(objects, a, b)
    [] value.kind = "multiply_plain" -> CkksPlainProduct(objects, a, b)
    [] value.kind = "relinearize" -> CkksRelinearization(objects, value, a)
    [] value.kind = "rescale" -> CkksRescaling(objects, a)
    [] value.kind = "rotate" -> CkksGalois(objects, value, a)

HasTables(objects, mods) == \A m \in mods, direction \in {"ntt", "intt"} : Allocated(objects, Limb(Canonical, direction, 0, m))
BfvTablesOf(level) == Mods(QIds(level))
BfvMultiplyTablesOf(level) == Mods(FullIds(level)) \cup Mods(BskIds(level))

BfvSum(objects, a, b) == HasValue(objects, a, 2) /\ HasValue(objects, b, 2) /\ b.level = a.level
BfvPlainSum(objects, a, b) == HasValue(objects, a, 2) /\ HasValue(objects, b, 1) /\ b.level = a.level /\ b.object[3] = 0
BfvPlainMultiplication(objects, a, b) ==
  HasValue(objects, a, 2) /\ HasValue(objects, b, 1) /\ b.level = a.level /\ b.object[3] = 1 /\ HasTables(objects, BfvTablesOf(a.level))
BfvTensor(objects, a, b) ==
  /\ HasValue(objects, a, 2) /\ HasValue(objects, b, 2) /\ b.level = a.level
  /\ HasTables(objects, BfvMultiplyTablesOf(a.level)) /\ HasConstants(objects, ConstantsObject("multiply", a.level), a.level)
  /\ Len(QIds(a.level)) >= 2 /\ Len(BIds(a.level)) >= Len(QIds(a.level))
BfvNegation(objects, a) == HasValue(objects, a, 2)
BfvRelinearization(objects, value, a) ==
  /\ HasValue(objects, a, 3) /\ HasTables(objects, BfvTablesOf(a.level))
  /\ HasKey(objects, KeyObject(value, a.level), a.level) /\ HasConstants(objects, ConstantsObject("relinearize", a.level), a.level)
BfvModSwitching(objects, a) ==
  /\ HasValue(objects, a, 2) /\ HasNextLevel(a.level)
  /\ HasConstants(objects, ConstantsObject("mod_switch", a.level), a.level)
  /\ objects[ConstantsObject("mod_switch", a.level)].capacity >= a.comps
BfvGalois(objects, value, a) ==
  /\ HasValue(objects, a, 2) /\ value.element % 2 = 1 /\ value.element < Order /\ HasTables(objects, BfvTablesOf(a.level))
  /\ HasKey(objects, KeyObject(value, a.level), a.level) /\ HasConstants(objects, ConstantsObject("rotate", a.level), a.level)
  /\ HasFused(objects, FusedObject(value.element, a.level), a.level)

BfvAppends(objects, value, a, b) ==
  CASE value.kind \in {"add", "sub"} -> BfvSum(objects, a, b)
    [] value.kind \in {"multiply", "square"} -> BfvTensor(objects, a, b)
    [] value.kind = "negate" -> BfvNegation(objects, a)
    [] value.kind \in {"add_plain", "sub_plain"} -> BfvPlainSum(objects, a, b)
    [] value.kind = "multiply_plain" -> BfvPlainMultiplication(objects, a, b)
    [] value.kind = "relinearize" -> BfvRelinearization(objects, value, a)
    [] value.kind = "mod_switch" -> BfvModSwitching(objects, a)
    [] value.kind = "rotate" -> BfvGalois(objects, value, a)

(***************************************************************************)
(* What the plan says of the result.                                       *)
(***************************************************************************)
PlannedScale(value, a, b) ==
  CASE scheme = "bfv" -> NoScale
    [] value.kind \in {"multiply", "multiply_plain"} -> TimesScale(a.scale, b.scale)
    [] value.kind = "square" -> TimesScale(a.scale, a.scale)
    [] value.kind = "rescale" -> DividedScale(a.scale, a.level)
    [] OTHER -> a.scale
PlannedLevel(value, a) == IF value.kind \in {"rescale", "mod_switch"} THEN NextLevel(a.level) ELSE a.level
PlannedComponents(value, a) ==
  CASE value.kind \in {"multiply", "square"} -> 3
    [] value.kind = "relinearize" -> 2
    [] OTHER -> a.comps
=============================================================================
