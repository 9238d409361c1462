---------------------------- MODULE SealPrograms ----------------------------
(***************************************************************************)
(* The CKKS and BFV operations: their programs, and the recipes that       *)
(* relocate them onto the objects of a step.  BFV keeps its ciphertexts as *)
(* coefficients; its multiplication goes from Q to Bsk = B and m_sk without*)
(* reducing, multiplies under all these moduli, scales by t / Q, and comes *)
(* back to Q through m_sk without comparing.                               *)
(***************************************************************************)
EXTENDS Relocation

-----------------------------------------------------------------------------
(* CKKS.                                                                   *)

(* Programs.                                                               *)
RelinearizeProgram(level) ==
  Transforms("inverse_in", "intt", 3, QIds(level)) \o Relinearization(level)
  \o Transforms("forward", "ntt", 2, QIds(level))

RescaleProgram(level, comps) ==
  Transforms("inverse_in", "intt", comps, QIds(level))
  \o RoundedDropLast(comps, level + 1)
  \o Transforms("forward", "ntt", comps, QIds(NextLevel(level)))

\* The inverse transform of the input also applies the automorphism.
GaloisProgram(level) ==
  Transforms("inverse_in", "intt", 2, QIds(level)) \o KeySwitch(level)
  \o Transforms("forward", "ntt", 2, QIds(level))

CkksProgram(kind, level, comps) ==
  CASE kind \in {"add", "sub"} -> ComponentWise(kind, QIds(level))
    [] kind \in {"multiply", "square"} -> TensorProduct("tensor", QIds(level))
    [] kind = "negate" -> Negate(QIds(level))
    [] kind = "add_plain" -> PlainWise("add", QIds(level))
    [] kind = "sub_plain" -> PlainWise("sub", QIds(level))
    [] kind = "multiply_plain" -> MultiplyPlain(QIds(level))
    [] kind = "relinearize" -> RelinearizeProgram(level)
    [] kind = "rescale" -> RescaleProgram(level, comps)
    [] kind = "rotate" -> GaloisProgram(level)

(* Recipes.                                                                *)
BindSquare(level) ==
  UNION {{<< <<"tensor", "left", c, 0, m>>, Left(c, m) >>, << <<"tensor", "right", c, 0, m>>, Left(c, m) >>} : c \in {0, 1}, m \in Mods(QIds(level))}
  \cup {<< <<"tensor", "output", c, 0, m>>, Out(c, m) >> : c \in 0 .. 2, m \in Mods(QIds(level))}
\* Mutant: a product is bound as a square is.
BindAsSquare(level) == BindSquare(level)
BindMultiply(level) ==
  UNION {{<< <<"tensor", "left", c, 0, m>>, Left(c, m) >>, << <<"tensor", "right", c, 0, m>>, Right(c, m) >>} : c \in {0, 1}, m \in Mods(QIds(level))}
  \cup {<< <<"tensor", "output", c, 0, m>>, Out(c, m) >> : c \in 0 .. 2, m \in Mods(QIds(level))}
BindNegate(level) ==
  UNION {{<< <<"pointwise", "left", c, 0, m>>, Left(c, m) >>, << <<"pointwise", "output", c, 0, m>>, Out(c, m) >>} :
         c \in {0, 1}, m \in Mods(QIds(level))}
BindCiphertextBinary(level) ==
  BindNegate(level) \cup {<< <<"pointwise", "right", c, 0, m>>, Right(c, m) >> : c \in {0, 1}, m \in Mods(QIds(level))}
BindPlain(level) ==
  BindNegate(level) \cup {<< <<"pointwise", "plaintext", 0, 0, m>>, Right(0, m) >> : m \in Mods(QIds(level))}

BindRelinearize(level) ==
  TransformRecipe("inverse_in", "intt", "canonical", 3, QIds(level), Left, Work)
  \cup KeySwitchRecipe(level, <<"work", 2>>, <<"work", 0>>, FALSE) \cup MergeRecipe(level, "work")
  \cup TransformRecipe("forward", "ntt", "canonical", 2, QIds(level), Out, Out)

BindGalois(level) ==
  TransformRecipe("inverse_in", "intt", "fused", 2, QIds(level), Left, Work)
  \cup KeySwitchRecipe(level, <<"work", 1>>, <<"work", 0>>, TRUE)
  \cup TransformRecipe("forward", "ntt", "canonical", 2, QIds(level), Out, Out)

BindRescale(level, comps) ==
  TransformRecipe("inverse_in", "intt", "canonical", comps, QIds(level), Left, Work)
  \cup UNION {RoundedRecipe("drop", c, QIds(NextLevel(level)), Dropped(level), "half", LAMBDA m : Work(c, m),
                LAMBDA m : Held("rounded", c, m), LAMBDA m : Out(c, m), "drop_inverse", "drop_factor", "last_inverse") :
              c \in 0 .. comps - 1}
  \cup TransformRecipe("forward", "ntt", "canonical", comps, QIds(NextLevel(level)), Out, Out)

CkksRecipe(kind, level, comps) ==
  CASE kind \in {"add", "sub"} -> BindCiphertextBinary(level)
    [] kind = "multiply" -> BindMultiply(level)
    [] kind = "square" -> BindSquare(level)
    [] kind = "negate" -> BindNegate(level)
    [] kind \in {"add_plain", "sub_plain", "multiply_plain"} -> BindPlain(level)
    [] kind = "relinearize" -> BindRelinearize(level)
    [] kind = "rescale" -> BindRescale(level, comps)
    [] kind = "rotate" -> BindGalois(level)

-----------------------------------------------------------------------------
(* BFV.                                                                    *)

(* Programs.                                                               *)
QBskIds(level) == QIds(level) \o BskIds(level)

TimesPlainModulus(count, contexts) ==
  ForEach(Components(count), LAMBDA c : ForEach(contexts, LAMBDA m : <<Task(m, "mul",
            << <<"scalar", "input", c, 0, m>>, <<"scalar", "scalar", c, 0, m>> >>, << <<"scalar", "output", c, 0, m>> >>)>>))

\* (z - FastConv(z, Q -> Bsk)) / Q, under the moduli of Bsk.
FastFloor(count, q, bsk) ==
  ForEach(Components(count), LAMBDA c :
    BConv("fast_floor", c, q, bsk)
    \o ForEach(bsk, LAMBDA m : <<Task(m, "scale_difference",
            << <<"floor", "input", c, 0, m>>, <<"floor", "converted", c, 0, m>>, <<"floor", "inverse", c, 0, m>> >>,
            << <<"floor", "output", c, 0, m>> >>)>>))
\* Mutant: what the smaller base and m_sk hold is subtracted in the other order.
OppositeAlpha(count, q, b, msk) ==
  ForEach(Components(count), LAMBDA c :
    BConv("to_q", c, b, q) \o BConv("to_msk", c, b, <<msk>>)
    \o <<Task(msk, "scale_difference",
            << <<"alpha", "coefficient", c, 0, msk>>, <<"alpha", "input", c, 0, msk>>, <<"alpha", "inverse", c, 0, msk>> >>,
            << <<"alpha", "output", c, 0, msk>> >>)>>
    \o BConv("broadcast", c, <<msk>>, q)
    \o ForEach(q, LAMBDA m : <<Task(m, "multiply_add",
            << <<"sk", "alpha", c, 0, m>>, <<"sk", "factor", c, 0, m>>, <<"sk", "base", c, 0, m>> >>,
            << <<"sk", "output", c, 0, m>> >>)>>))

\* FastConv(z, B -> Q) is too large by alpha * B; m_sk tells alpha.
BranchlessSk(count, q, b, msk) ==
  ForEach(Components(count), LAMBDA c :
    BConv("to_q", c, b, q) \o BConv("to_msk", c, b, <<msk>>)
    \o <<Task(msk, "scale_difference",
            << <<"alpha", "input", c, 0, msk>>, <<"alpha", "coefficient", c, 0, msk>>, <<"alpha", "inverse", c, 0, msk>> >>,
            << <<"alpha", "output", c, 0, msk>> >>)>>
    \o BConv("broadcast", c, <<msk>>, q)
    \o ForEach(q, LAMBDA m : <<Task(m, "multiply_add",
            << <<"sk", "alpha", c, 0, m>>, <<"sk", "factor", c, 0, m>>, <<"sk", "base", c, 0, m>> >>,
            << <<"sk", "output", c, 0, m>> >>)>>))

MultiplyTensor(level) ==
  LET q == QIds(level)
      bsk == BskIds(level)
  IN  ForEach(Components(4), LAMBDA i : BConv("input", i, q, bsk))
      \o Transforms("input_q", "ntt", 4, q) \o Transforms("input_bsk", "ntt", 4, bsk)
      \o TensorProduct("tensor", q) \o TensorProduct("tensor", bsk)
      \o Transforms("inverse_q", "intt", 3, q) \o Transforms("inverse_bsk", "intt", 3, bsk)
      \o TimesPlainModulus(3, QBskIds(level))
      \o FastFloor(3, q, bsk)
      \o BranchlessSk(3, q, BIds(level), MskId(level))

\* Each limb is transformed, multiplied and transformed back within a task.
BfvMultiplyPlain(contexts) ==
  ForEach(Components(2), LAMBDA c : ForEach(contexts, LAMBDA m : <<Task(m, "transformed_product",
            << <<"pointwise", "left", c, 0, m>>, <<"pointwise", "forward", c, 0, m>>,
               <<"pointwise", "plaintext", c, 0, m>>, <<"pointwise", "inverse", c, 0, m>> >>,
            << <<"pointwise", "output", c, 0, m>> >>)>>))

BfvAutomorphism(count, contexts) ==
  ForEach(Components(count), LAMBDA c : ForEach(contexts, LAMBDA m : <<Task(m, "automorphism",
            << <<"galois", "input", c, 0, m>>, <<"galois", "forward", c, 0, m>>, <<"galois", "inverse", c, 0, m>> >>,
            << <<"galois", "output", c, 0, m>> >>)>>))

BfvGaloisProgram(level) == BfvAutomorphism(2, QIds(level)) \o KeySwitch(level)

BfvModSwitch(level, count) == RoundedDropLast(count, level + 1)

BfvProgram(kind, level) ==
  CASE kind \in {"add", "sub"} -> ComponentWise(kind, QIds(level))
    [] kind \in {"multiply", "square"} -> MultiplyTensor(level)
    [] kind = "negate" -> Negate(QIds(level))
    [] kind = "add_plain" -> PlainWise("add", QIds(level))
    [] kind = "sub_plain" -> PlainWise("sub", QIds(level))
    [] kind = "multiply_plain" -> BfvMultiplyPlain(QIds(level))
    [] kind = "relinearize" -> Relinearization(level)
    [] kind = "mod_switch" -> BfvModSwitch(level, 2)
    [] kind = "rotate" -> BfvGaloisProgram(level)

(* Recipes.                                                                *)
BfvBindNegate(level) ==
  UNION {{<< <<"pointwise", "left", c, 0, m>>, Left(c, m) >>, << <<"pointwise", "output", c, 0, m>>, Out(c, m) >>} :
         c \in {0, 1}, m \in Mods(QIds(level))}
BfvBindBinary(level) ==
  BfvBindNegate(level) \cup {<< <<"pointwise", "right", c, 0, m>>, Right(c, m) >> : c \in {0, 1}, m \in Mods(QIds(level))}
BfvBindPlain(level) ==
  BfvBindNegate(level) \cup {<< <<"pointwise", "plaintext", 0, 0, m>>, Right(0, m) >> : m \in Mods(QIds(level))}
BfvBindMultiplyPlain(level) ==
  BfvBindNegate(level)
  \cup UNION {{<< <<"pointwise", "forward", c, 0, m>>, <<"canonical", "ntt", 0, m>> >>, << <<"pointwise", "plaintext", c, 0, m>>, Right(0, m) >>,
               << <<"pointwise", "inverse", c, 0, m>>, <<"canonical", "intt", 0, m>> >>} : c \in {0, 1}, m \in Mods(QIds(level))}

BfvKeySwitchRecipe(level, switching, base, directSecondOutput) == KeySwitchRecipe(level, switching, base, directSecondOutput)

BfvBindRelinearize(level) ==
  BfvKeySwitchRecipe(level, <<"left", 2>>, <<"left", 0>>, FALSE) \cup MergeRecipe(level, "left")

BfvBindGalois(level) ==
  UNION {{<< <<"galois", "input", c, 0, m>>, Left(c, m) >>, << <<"galois", "forward", c, 0, m>>, <<"canonical", "ntt", 0, m>> >>,
          << <<"galois", "inverse", c, 0, m>>, <<"fused", "intt", 0, m>> >>, << <<"galois", "output", c, 0, m>>, Work(c, m) >>} :
         c \in {0, 1}, m \in Mods(QIds(level))}
  \cup BfvKeySwitchRecipe(level, <<"work", 1>>, <<"work", 0>>, TRUE)

BfvBindModSwitch(level) ==
  UNION {RoundedRecipe("drop", c, QIds(NextLevel(level)), Dropped(level), "half", LAMBDA m : Left(c, m),
           LAMBDA m : Held("rounded", c, m), LAMBDA m : Out(c, m), "drop_inverse", "drop_factor", "last_inverse") : c \in {0, 1}}

\* The four components that are multiplied, in the order left, right.
Operand(i, m) == IF i < 2 THEN Left(i, m) ELSE Right(i - 2, m)

BindBehzInputs(level) ==
  LET q == QIds(level)
      bsk == BskIds(level)
      extended(i, m) == Held("input", i, m)
  IN  UNION {BconvRecipe("input", i, q, bsk, LAMBDA m : Operand(i, m), LAMBDA m : extended(i, m), "q_to_bsk_inverse", "q_to_bsk_factor", 0) :
             i \in 0 .. 3}
      \cup TransformRecipe("input_q", "ntt", "canonical", 4, q, Operand, extended)
      \cup TransformRecipe("input_bsk", "ntt", "canonical", 4, bsk, extended, extended)

BindBehzTensor(level) ==
  LET contexts == QBskIds(level)
      tensor(c, m) == Held("tensor", c, m)
  IN  UNION {{<< <<"tensor", "left", c, 0, m>>, Held("input", c, m) >>, << <<"tensor", "right", c, 0, m>>, Held("input", 2 + c, m) >>} :
             c \in {0, 1}, m \in Mods(contexts)}
      \cup {<< <<"tensor", "output", c, 0, m>>, tensor(c, m) >> : c \in 0 .. 2, m \in Mods(contexts)}
      \cup TransformRecipe("inverse_q", "intt", "canonical", 3, QIds(level), tensor, tensor)
      \cup TransformRecipe("inverse_bsk", "intt", "canonical", 3, BskIds(level), tensor, tensor)
      \cup UNION {{<< <<"scalar", "input", c, 0, m>>, tensor(c, m) >>, << <<"scalar", "scalar", c, 0, m>>, Held("t", 0, m) >>,
                   << <<"scalar", "output", c, 0, m>>, tensor(c, m) >>} : c \in 0 .. 2, m \in Mods(contexts)}

BindFastFloor(level, c) ==
  LET bsk == BskIds(level)
      tensor(m) == Held("tensor", c, m)
      converted(m) == Held("converted", c, m)
  IN  BconvRecipe("fast_floor", c, QIds(level), bsk, tensor, converted, "q_to_bsk_inverse", "q_to_bsk_factor", 0)
      \cup UNION {{<< <<"floor", "input", c, 0, m>>, tensor(m) >>, << <<"floor", "converted", c, 0, m>>, converted(m) >>,
                   << <<"floor", "inverse", c, 0, m>>, Held("q_inverse", 0, m) >>, << <<"floor", "output", c, 0, m>>, tensor(m) >>} : m \in Mods(bsk)}

BindBranchlessSk(level, c) ==
  LET q == QIds(level)
      b == BIds(level)
      msk == MskId(level)
      tensor(m) == Held("tensor", c, m)
      y(m) == Held("y", c, m)
      alpha(m) == Held("alpha", c, m)
  IN  BconvRecipe("to_q", c, b, q, tensor, y, "b_to_q_inverse", "b_to_q_factor", 0)
      \cup BconvRecipe("to_msk", c, b, <<msk>>, tensor, alpha, "b_to_q_inverse", "b_to_msk_factor", 0)
      \cup {<< <<"alpha", "input", c, 0, msk>>, alpha(msk) >>, << <<"alpha", "coefficient", c, 0, msk>>, tensor(msk) >>,
            << <<"alpha", "inverse", c, 0, msk>>, Held("b_inverse", 0, msk) >>, << <<"alpha", "output", c, 0, msk>>, alpha(msk) >>}
      \cup BconvRecipe("broadcast", c, <<msk>>, q, alpha, alpha, "msk_to_q_inverse", "msk_to_q_factor", 0)
      \cup UNION {{<< <<"sk", "base", c, 0, m>>, y(m) >>, << <<"sk", "alpha", c, 0, m>>, alpha(m) >>,
                   << <<"sk", "factor", c, 0, m>>, Held("negative_b", 0, m) >>, << <<"sk", "output", c, 0, m>>, Out(c, m) >>} : m \in Mods(q)}

BfvBindMultiply(level) ==
  BindBehzInputs(level) \cup BindBehzTensor(level)
  \cup UNION {BindFastFloor(level, c) \cup BindBranchlessSk(level, c) : c \in 0 .. 2}

BfvRecipe(kind, level) ==
  CASE kind \in {"add", "sub"} -> BfvBindBinary(level)
    [] kind \in {"multiply", "square"} -> BfvBindMultiply(level)
    [] kind = "negate" -> BfvBindNegate(level)
    [] kind \in {"add_plain", "sub_plain"} -> BfvBindPlain(level)
    [] kind = "multiply_plain" -> BfvBindMultiplyPlain(level)
    [] kind = "relinearize" -> BfvBindRelinearize(level)
    [] kind = "mod_switch" -> BfvBindModSwitch(level)
    [] kind = "rotate" -> BfvBindGalois(level)
=============================================================================
