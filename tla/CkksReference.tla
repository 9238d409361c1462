--------------------------- MODULE CkksReference ---------------------------
(***************************************************************************)
(* The CKKS operations as the software executor computes them, on whole    *)
(* objects: a function from <<component, modulus>> to a polynomial, in the *)
(* physical order of the transform.  Its algorithms are not those of the   *)
(* programs: it stays in the transformed domain wherever it can.           *)
(* Only(S) names the single element of a set of computed values, so that   *)
(* TLC computes each of them once.                                         *)
(***************************************************************************)
EXTENDS SealImage

Only(S) == CHOOSE value \in S : TRUE

RefBinary(op, x, y, level) ==
  [cm \in Limbs(2, QIds(level)) |-> IF op = "add" THEN Add(cm[2], x[cm], y[cm]) ELSE Sub(cm[2], x[cm], y[cm])] @@ << >>
RefPlainBinary(op, x, y, level) ==
  [cm \in Limbs(2, QIds(level)) |->
    CASE op = "multiply_plain" -> Mul(cm[2], x[cm], y[<<0, cm[2]>>])
      [] op = "add_plain" /\ cm[1] = 0 -> Add(cm[2], x[cm], y[cm])
      [] op = "sub_plain" /\ cm[1] = 0 -> Sub(cm[2], x[cm], y[cm])
      [] OTHER -> x[cm]] @@ << >>
RefNegate(x, level) == [cm \in Limbs(2, QIds(level)) |-> Sub(cm[2], Zero, x[cm])] @@ << >>
RefMultiply(x, y, level) ==
  [cm \in Limbs(3, QIds(level)) |->
    LET m == cm[2]
    IN  CASE cm[1] = 0 -> Mul(m, x[<<0, m>>], y[<<0, m>>])
          [] cm[1] = 1 -> Add(m, Mul(m, x[<<0, m>>], y[<<1, m>>]), Mul(m, x[<<1, m>>], y[<<0, m>>]))
          [] cm[1] = 2 -> Mul(m, x[<<1, m>>], y[<<1, m>>])] @@ << >>

(***************************************************************************)
(* Key switching: one digit per active modulus is reduced under every      *)
(* modulus of Q and P and multiplied by its part of the key; the sums are  *)
(* divided by P, rounding, and added to the base.                          *)
(***************************************************************************)
DigitForms(digits, level) ==
  [dm \in (1 .. Len(KeyDigits(level))) \X Mods(FullIds(level)) |-> Ntt(Reduced(dm[2], digits[dm[1] - 1]), ForwardTable(dm[2]))] @@ << >>

KeyProducts(forms, keyData, level) ==
  LET sum[d \in 0 .. Len(KeyDigits(level)), c \in {0, 1}, m \in Mods(FullIds(level))] ==
        IF d = 0 THEN Zero ELSE Add(m, sum[d - 1, c, m], Mul(m, forms[<<d, m>>], keyData[<<2 * (d - 1) + c, m>>]))
  IN  [cm \in {0, 1} \X Mods(FullIds(level)) |-> sum[Len(KeyDigits(level)), cm[1], cm[2]]] @@ << >>

\* The multiples of p that rounding takes away, transformed.
Centered(coefficients, p, m) ==
  Ntt(Sub(m, Reduced(m, coefficients), Const(m, Q(p) \div 2)), ForwardTable(m))

Rounded(x, p) == Add(p, Intt(x, InverseTable(p, 1)), Const(p, Q(p) \div 2))

DividedBy(p, x, coefficients, m) ==
  Mul(m, Sub(m, x, Centered(coefficients, p, m)), Const(m, InverseMod(Q(p), m)))

RefKeySwitch(base, digits, keyData, level) ==
  LET sums == {KeyProducts(forms, keyData, level) : forms \in {DigitForms(digits, level)}}
      divided(sum) ==
        Only({[cm \in Limbs(2, QIds(level)) |-> Add(cm[2], base[cm], DividedBy(PId, sum[cm], remainder[cm[1] + 1], cm[2]))] @@ << >> :
              remainder \in {<<Rounded(sum[<<0, PId>>], PId), Rounded(sum[<<1, PId>>], PId)>>}})
  IN  Only({divided(sum) : sum \in sums})

RefRelinearize(x, keyData, level) ==
  Only({RefKeySwitch(x, digits, keyData, level) :
        digits \in {[m \in Mods(QIds(level)) |-> Intt(x[<<2, m>>], InverseTable(m, 1))] @@ << >>}})

\* Conjugations and rotations: X -> X^element on the coefficients, then the
\* image of the second component is switched back to the canonical key.
RefRotate(x, element, keyData, level) ==
  LET images == {[cm \in Limbs(2, QIds(level)) |-> Intt(x[cm], InverseTable(cm[2], FusedExponent[element]))] @@ << >>}
      switched(coefficients) ==
        Only({RefKeySwitch(base, digits, keyData, level) :
              base \in {[cm \in Limbs(2, QIds(level)) |-> IF cm[1] = 0 THEN Ntt(coefficients[cm], ForwardTable(cm[2])) ELSE Zero] @@ << >>},
              digits \in {[m \in Mods(QIds(level)) |-> coefficients[<<1, m>>]] @@ << >>}})
  IN  Only({switched(coefficients) : coefficients \in images})

RefRescale(x, level, comps) ==
  Only({[cm \in Limbs(comps, QIds(NextLevel(level))) |-> DividedBy(Dropped(level), x[cm], last[cm[1] + 1], cm[2])] @@ << >> :
        last \in {[c \in 1 .. comps |-> Rounded(x[<<c - 1, Dropped(level)>>], Dropped(level))] \o << >>}})

CkksResult(kind, level, comps, element, x, y, keyData) ==
  CASE kind \in {"add", "sub"} -> RefBinary(kind, x, y, level)
    [] kind \in {"multiply", "square"} -> RefMultiply(x, IF kind = "square" THEN x ELSE y, level)
    [] kind = "negate" -> RefNegate(x, level)
    [] kind \in {"add_plain", "sub_plain", "multiply_plain"} -> RefPlainBinary(kind, x, y, level)
    [] kind = "relinearize" -> RefRelinearize(x, keyData, level)
    [] kind = "rescale" -> RefRescale(x, level, comps)
    [] kind = "rotate" -> RefRotate(x, element, keyData, level)
=============================================================================
