---------------------------- MODULE BfvReference ----------------------------
(***************************************************************************)
(* The BFV operations as the software executor computes them, on whole     *)
(* objects: a function from <<component, modulus>> to the coefficients of  *)
(* a polynomial.                                                           *)
(***************************************************************************)
EXTENDS CkksReference

BfvBinary(op, x, y, level) ==
  [cm \in Limbs(2, QIds(level)) |-> IF op = "add" THEN Add(cm[2], x[cm], y[cm]) ELSE Sub(cm[2], x[cm], y[cm])] @@ << >>
BfvPlainBinary(op, x, y, level) ==
  [cm \in Limbs(2, QIds(level)) |->
    CASE cm[1] = 1 -> x[cm]
      [] op = "add_plain" -> Add(cm[2], x[cm], y[cm])
      [] op = "sub_plain" -> Sub(cm[2], x[cm], y[cm])] @@ << >>
BfvPlainProduct(x, y, level) ==
  [cm \in Limbs(2, QIds(level)) |->
    LET m == cm[2]
    IN  Intt(Mul(m, Ntt(x[cm], ForwardTable(m)), y[<<0, m>>]), InverseTable(m, 1))] @@ << >>
BfvNegate(x, level) == [cm \in Limbs(2, QIds(level)) |-> Sub(cm[2], Zero, x[cm])] @@ << >>

(***************************************************************************)
(* Division by the last modulus or by P, rounding.                         *)
(***************************************************************************)
RoundedQuotient(value, remainder, p, m) ==
  LET half == Q(p) \div 2
      correction == Sub(m, Reduced(m, Add(p, remainder, Const(p, half))), Const(m, half))
  IN  Mul(m, Sub(m, value, correction), Const(m, InverseMod(Q(p), m)))

BfvModSwitched(x, level) ==
  [cm \in Limbs(2, QIds(NextLevel(level))) |-> RoundedQuotient(x[cm], x[<<cm[1], Dropped(level)>>], Dropped(level), cm[2])] @@ << >>

\* Coefficients of the sums over the digits of (digit * key).
BfvKeySums(digits, keyData, level) ==
  LET transformed == {KeyProducts(forms, keyData, level) : forms \in {DigitForms(digits, level)}}
  IN  Only({[cm \in {0, 1} \X Mods(FullIds(level)) |-> Intt(sum[cm], InverseTable(cm[2], 1))] @@ << >> : sum \in transformed})

BfvKeySwitch(base, digits, keyData, level) ==
  Only({[cm \in Limbs(2, QIds(level)) |-> Add(cm[2], base[cm], RoundedQuotient(sum[cm], sum[<<cm[1], PId>>], PId, cm[2]))] @@ << >> :
        sum \in {BfvKeySums(digits, keyData, level)}})

BfvRelinearized(x, keyData, level) ==
  BfvKeySwitch(x, [m \in Mods(QIds(level)) |-> x[<<2, m>>]] @@ << >>, keyData, level)

BfvRotated(x, element, keyData, level) ==
  Only({BfvKeySwitch([cm \in Limbs(2, QIds(level)) |-> IF cm[1] = 0 THEN images[cm] ELSE Zero] @@ << >>,
                     [m \in Mods(QIds(level)) |-> images[<<1, m>>]] @@ << >>, keyData, level) :
        images \in {[cm \in Limbs(2, QIds(level)) |->
                      Intt(Ntt(x[cm], ForwardTable(cm[2])), InverseTable(cm[2], FusedExponent[element]))] @@ << >>}})

(***************************************************************************)
(* Multiplication.                                                         *)
(***************************************************************************)
Converted(x, sources, m) ==
  LET normalized(j) == Mul(j, x[j], Const(j, HatInverse(sources, j)))
      sum[k \in 0 .. Len(sources)] ==
        IF k = 0 THEN Zero ELSE Add(m, sum[k - 1], Mul(m, normalized(sources[k]), Const(m, HatMod(sources, sources[k], m))))
  IN  sum[Len(sources)]

\* All four operands under Q and Bsk, transformed.
BehzOperand(x, level) ==
  [m \in Mods(QIds(level) \o BskIds(level)) |->
    Ntt(IF m \in DOMAIN x THEN x[m] ELSE Converted(x, QIds(level), m), ForwardTable(m))] @@ << >>
BehzTensor(o, level) ==
  [cm \in (0 .. 2) \X Mods(QIds(level) \o BskIds(level)) |->
    LET m == cm[2]
        product == CASE cm[1] = 0 -> Mul(m, o[1][m], o[3][m])
                     [] cm[1] = 1 -> Add(m, Mul(m, o[1][m], o[4][m]), Mul(m, o[2][m], o[3][m]))
                     [] cm[1] = 2 -> Mul(m, o[2][m], o[4][m])
    IN  Mul(m, Intt(product, InverseTable(m, 1)), Const(m, PlainModulus))] @@ << >>

BehzFloor(part, level) ==
  [m \in Mods(BskIds(level)) |->
    Mul(m, Sub(m, part[m], Converted(part, QIds(level), m)), Const(m, InverseMod(ProductMod(QIds(level), m), m)))] @@ << >>
BehzBackToQ(part, level) ==
  LET b == BIds(level)
      msk == MskId(level)
      excess == {Mul(msk, Sub(msk, Converted(part, b, msk), part[msk]), Const(msk, InverseMod(ProductMod(b, msk), msk)))}
  IN  Only({[m \in Mods(QIds(level)) |->
              Add(m, Converted(part, b, m), Mul(m, Reduced(m, alpha), Const(m, Q(m) - ProductMod(b, m))))] @@ << >> : alpha \in excess})

BfvProduct(x, y, level) ==
  LET q == QIds(level)
      component(v, c) == [m \in Mods(q) |-> v[<<c, m>>]] @@ << >>
      operands == {<<BehzOperand(component(x, 0), level), BehzOperand(component(x, 1), level),
                     BehzOperand(component(y, 0), level), BehzOperand(component(y, 1), level)>>}
      scaled(tensor, c) ==
        Only({BehzBackToQ(part, level) : part \in {BehzFloor([m \in Mods(q \o BskIds(level)) |-> tensor[<<c, m>>]] @@ << >>, level)}})
      tensors == {BehzTensor(o, level) : o \in operands}
  IN  Only({[cm \in Limbs(3, q) |-> parts[cm[1] + 1][cm[2]]] @@ << >> :
            parts \in {<<scaled(tensor, 0), scaled(tensor, 1), scaled(tensor, 2)>> : tensor \in tensors}})

BfvResult(kind, level, element, x, y, keyData) ==
  CASE kind \in {"add", "sub"} -> BfvBinary(kind, x, y, level)
    [] kind \in {"multiply", "square"} -> BfvProduct(x, IF kind = "square" THEN x ELSE y, level)
    [] kind = "negate" -> BfvNegate(x, level)
    [] kind \in {"add_plain", "sub_plain"} -> BfvPlainBinary(kind, x, y, level)
    [] kind = "multiply_plain" -> BfvPlainProduct(x, y, level)
    [] kind = "relinearize" -> BfvRelinearized(x, keyData, level)
    [] kind = "mod_switch" -> BfvModSwitched(x, level)
    [] kind = "rotate" -> BfvRotated(x, element, keyData, level)
=============================================================================
