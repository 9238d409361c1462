---------------------------- MODULE SealIntegers ----------------------------
(***************************************************************************)
(* What the operations of an application mean: the residues of a value     *)
(* stand for polynomials with integer coefficients, and a secret key turns *)
(* a ciphertext into the polynomial that it hides.  Nothing here follows   *)
(* the way in which programs or the software executor compute.             *)
(***************************************************************************)
EXTENDS SealApplication

CONSTANT Secret   \* the secret key: coefficients in -1 .. 1

ASSUME SecretAssumption == Secret \in [Index -> -1 .. 1]

\* The integer below the product of the moduli with these residues.
Lifted(residues, mods) ==
  LET size[k \in 0 .. Len(mods)] == IF k = 0 THEN 1 ELSE size[k - 1] * Q(mods[k])
      upTo[k \in 1 .. Len(mods)] ==
        IF k = 1 THEN residues[mods[1]]
        ELSE LET m == mods[k]
                 missing == (residues[m] - upTo[k - 1]) % Q(m)
             IN  upTo[k - 1] + size[k - 1] * ((missing * InverseMod(size[k - 1], m)) % Q(m))
  IN  upTo[Len(mods)]

\* Residues of the coefficients of a component, from what the HPU has in memory.
Coefficients(object, c, level) ==
  [m \in Mods(QIds(level)) |->
    ToSeal(m, Load(memory, Limb(object, "c", c, m)))] @@ << >>
IntegersOf(object, c, level) ==
  Only({[i \in Index |-> Lifted([m \in Mods(QIds(level)) |-> residues[m][i]], QIds(level))] \o << >> :
        residues \in {Coefficients(object, c, level)}})

\* X^Degree = -1.
Term(a, b, i, k) == IF i <= k THEN a[i] * b[k + 1 - i] ELSE -(a[i] * b[Degree + k + 1 - i])
Negacyclic(a, b) ==
  [k \in Index |-> LET upTo[i \in 0 .. Degree] == IF i = 0 THEN 0 ELSE upTo[i - 1] + Term(a, b, i, k) IN upTo[Degree]] \o << >>
PlusPoly(a, b) == [i \in Index |-> a[i] + b[i]] \o << >>
\* X -> X^g: the coefficient of X^e moves to X^(e * g).
Automorphism(a, g) ==
  [k \in Index |->
    LET e == CHOOSE e \in 0 .. Degree - 1 : (e * g) % Degree = k - 1
    IN  IF (e * g) % Order < Degree THEN a[e + 1] ELSE -a[e + 1]] \o << >>

Decrypted(object, comps, level) ==
  LET secretPower[c \in 0 .. 2] == IF c = 0 THEN [i \in Index |-> IF i = 1 THEN 1 ELSE 0] ELSE Negacyclic(secretPower[c - 1], Secret)
      upTo[c \in 0 .. comps] ==
        IF c = 0 THEN [i \in Index |-> 0]
        ELSE PlusPoly(upTo[c - 1], Negacyclic(IntegersOf(object, c - 1, level), secretPower[c - 1]))
  IN  upTo[comps]

Near(one, other, bound, level) == \E error \in -bound .. bound : (one - other - error) % Modulus(level) = 0
Weight == Cardinality({i \in Index : Secret[i] # 0})
\* The operation that the HPU has just finished, if it is of these kinds.
JustDone(kinds) ==
  {k \in DOMAIN steps : phase \in {"hardware", "done"} /\ running = <<k + 1, 1>> /\ steps[k].kind \in kinds}

\* Dropping the last modulus divides the integers by it and rounds to the
\* nearest one: the half that is added and subtracted in residues, and the
\* corrections in between, leave no other trace.
RoundsExactly ==
  \A k \in JustDone({"rescale", "mod_switch"}) :
    LET step == steps[k]
        last == Q(Dropped(step.level))
    IN  \A c \in 0 .. step.comps - 1 :
          \E before \in {IntegersOf(step.at.left, c, step.level)}, after \in {IntegersOf(step.at.out, c, step.outLevel)} :
            \A i \in Index : after[i] = ((before[i] + (last \div 2)) \div last) % Modulus(step.outLevel)

\* A relinearized ciphertext hides what the one of three components did, and a
\* rotated one its image under the automorphism, up to what dividing two
\* components by P can round: digits, keys, accumulators and the second output
\* that is merged or left in place all meet.
KeySwitchKeepsMessage ==
  \A k \in JustDone({"relinearize", "rotate"}) :
    LET step == steps[k]
    IN  \E before \in {Decrypted(step.at.left, step.comps, step.level)}, after \in {Decrypted(step.at.out, 2, step.level)} :
          \E wanted \in {IF step.kind = "rotate" THEN Automorphism(before, step.element) ELSE before} :
            \A i \in Index : Near(after[i], wanted[i], (1 + Weight) \div 2, step.level)

\* An operand of a product of BFV as the integers that stand for it in the
\* larger base: they exceed those below Q by less than one Q per modulus.
Extended(object, c, level) ==
  LET q == QIds(level)
      others(j) == LET rest == Others(q, q[j])
                       product[k \in 0 .. Len(rest)] == IF k = 0 THEN 1 ELSE product[k - 1] * Q(rest[k])
                   IN  product[Len(rest)]
      integers(residues) ==
        [i \in Index |->
          LET upTo[j \in 0 .. Len(q)] ==
                IF j = 0 THEN 0
                ELSE upTo[j - 1] + ((residues[q[j]][i] * InverseMod(others(j), q[j])) % Q(q[j])) * others(j)
          IN  upTo[Len(q)]] \o << >>
  IN  Only({integers(residues) : residues \in {Coefficients(object, c, level)}})

\* A product of BFV is the product of the integer polynomials, times t, divided
\* by Q and rounded down, or one below (the conversion of the remainder to the
\* larger base may exceed it by Q): neither the larger base nor the recovery of
\* alpha without comparisons loses anything.  Stated at the level of two moduli.
ProductScaled ==
  \A k \in {k \in JustDone({"multiply", "square"}) : scheme = "bfv" /\ steps[k].level = 1} :
    LET step == steps[k]
        operand(i) == Extended(IF i < 2 THEN step.at.left ELSE step.at.right, i % 2, 1)
    IN  \E a0 \in {operand(0)}, a1 \in {operand(1)}, b0 \in {operand(2)}, b1 \in {operand(3)} :
          \E tensor \in {<<Negacyclic(a0, b0), PlusPoly(Negacyclic(a0, b1), Negacyclic(a1, b0)), Negacyclic(a1, b1)>>} :
            \A c \in 0 .. 2 : \E product \in {IntegersOf(step.at.out, c, 1)} :
              \A i \in Index : \E missing \in 0 .. 1 :
                product[i] = (((PlainModulus * tensor[c + 1][i]) \div Modulus(1)) - missing) % Modulus(1)
=============================================================================
