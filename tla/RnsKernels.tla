----------------------------- MODULE RnsKernels -----------------------------
(***************************************************************************)
(* The kernels that the schemes share, as the sequences of tasks that they *)
(* emit.  A task selects one modulus, reads its operands from ports and    *)
(* writes its results to ports; what a port stands for in memory is        *)
(* decided later, by relocation.  A port is <<prefix, role, k, j, mod>>:   *)
(* the part of the program, what the operand is there, and the digit or    *)
(* component, the source context and the modulus that it belongs to.       *)
(***************************************************************************)
EXTENDS HardwareNtt

Task(m, op, in, out) == [mod |-> m, op |-> op, in |-> in, out |-> out]

\* The tasks that body emits for each element of a sequence, in order.
ForEach(list, body(_)) == FlattenSeq([k \in DOMAIN list |-> body(list[k])])
Components(count) == [k \in 1 .. count |-> k - 1]
SeqWithout(list, elems) == SelectSeq(list, LAMBDA m : m \notin ToSet(elems))

(***************************************************************************)
(* What the instructions of a task compute: its results, from its operands.*)
(***************************************************************************)
Accumulated(m, args) ==
  [i \in Index |->
    LET upTo[k \in 0 .. Len(args) \div 2] ==
          IF k = 0 THEN 0 ELSE (upTo[k - 1] + ((args[2 * k - 1][i] % Q(m)) * args[2 * k][i])) % Q(m)
    IN  upTo[Len(args) \div 2]] \o << >>

Results(m, op, args) ==
  CASE op = "copy" -> <<args[1]>>
    [] op = "add" -> <<Add(m, args[1], args[2])>>
    [] op = "sub" -> <<Sub(m, args[1], args[2])>>
    [] op = "mul" -> <<Mul(m, args[1], args[2])>>
    \* (c - c) - c
    [] op = "negate" -> <<Sub(m, Sub(m, args[1], args[1]), args[1])>>
    \* products summed up on chip; a third operand is what was there before
    [] op = "dot" -> <<Accumulated(m, args)>>
    [] op = "mac" -> <<Add(m, args[3], Mul(m, args[1], args[2]))>>
    [] op = "scale_difference" -> <<Mul(m, Sub(m, args[1], args[2]), args[3])>>
    [] op = "ntt" -> <<NttBody(m, args[1], args[2])>>
    [] op = "intt" -> <<InttBody(m, args[1], args[2])>>
    [] op = "tensor" -> <<Mul(m, args[1], args[2]),
                          Accumulated(m, <<args[1], args[4], args[3], args[2]>>),
                          Mul(m, args[3], args[4])>>
    \* Two components by one plaintext that stays on chip.
    [] op = "multiply_plain" -> <<Mul(m, args[1], args[2]), Mul(m, args[3], args[2])>>
    \* BFV keeps ciphertexts as coefficients: there and back within a task.
    [] op = "transformed_product" -> <<InttBody(m, Mul(m, NttBody(m, args[1], args[2]), args[3]), args[4])>>
    [] op = "automorphism" -> <<InttBody(m, NttBody(m, args[1], args[2]), args[3])>>
    \* alpha * (-B) + y
    [] op = "multiply_add" -> <<Add(m, args[3], Mul(m, args[1], args[2]))>>

(***************************************************************************)
(* Base conversion: x_j = a_j * (inverse of the other sources) under each  *)
(* source modulus, then the sum of x_j * (the other sources) under each    *)
(* target modulus.                                                         *)
(***************************************************************************)
BConv(prefix, k, sources, targets) ==
  ForEach(sources, LAMBDA m : <<Task(m, "mul",
            << <<prefix, "source", k, 0, m>>, <<prefix, "inverse", k, 0, m>> >>,
            << <<prefix, "normalized", k, 0, m>> >>)>>)
  \o ForEach(targets, LAMBDA m : <<Task(m, "dot",
            ForEach(sources, LAMBDA j : << <<prefix, "accumulate", k, j, m>>, <<prefix, "factor", k, j, m>> >>),
            << <<prefix, "output", k, 0, m>> >>)>>)

ModUp(prefix, digit, sources, level) ==
  ForEach(sources, LAMBDA m : <<Task(m, "copy", << <<prefix, "copied", digit, 0, m>> >>, << <<prefix, "copy", digit, 0, m>> >>)>>)
  \o BConv(prefix, digit, sources, SeqWithout(FullIds(level), sources))

ModDown(prefix, c, qs, p) ==
  BConv(prefix, c, <<p>>, qs)
  \o ForEach(qs, LAMBDA m : <<Task(m, "scale_difference",
            << <<prefix, "value", c, 0, m>>, <<prefix, "correction", c, 0, m>>, <<prefix, "scale", c, 0, m>> >>,
            << <<prefix, "result", c, 0, m>> >>)>>)

\* round(v / p): half of p is added first, so that dropping rounds.
RoundedModDown(prefix, count, qs, p) ==
  ForEach(Components(count), LAMBDA c :
    ForEach(Append(qs, p), LAMBDA m : <<Task(m, "add",
            << <<prefix, "half_input", c, 0, m>>, <<prefix, "half", c, 0, m>> >>,
            << <<prefix, "half_output", c, 0, m>> >>)>>)
    \o ModDown(prefix, c, qs, p))

RoundedDropLast(count, numQ) == RoundedModDown("drop", count, [k \in 1 .. numQ - 1 |-> k - 1], numQ - 1)

Transforms(prefix, op, count, contexts) ==
  ForEach(Components(count), LAMBDA c : ForEach(contexts, LAMBDA m : <<Task(m, op,
            << <<prefix, "input", c, 0, m>>, <<prefix, "table", c, 0, m>> >>,
            << <<prefix, "output", c, 0, m>> >>)>>))

(***************************************************************************)
(* Key switching: (base, switching component) -> (base + ks0, ks1).        *)
(***************************************************************************)
Digit(level, d) ==
  ModUp("modup", d, KeyDigits(level)[d + 1], level)
  \o ForEach(FullIds(level), LAMBDA m : <<Task(m, "ntt",
            << <<"digit", "input", d, 0, m>>, <<"digit", "table", d, 0, m>> >>, << <<"digit", "output", d, 0, m>> >>)>>)
  \o ForEach(Components(2), LAMBDA c : ForEach(FullIds(level), LAMBDA m :
       LET factors == << <<"product", "value", d, c, m>>, <<"product", "key", d, c, m>> >>
           output == << <<"product", "output", d, c, m>> >>
       IN  IF d = 0 THEN <<Task(m, "mul", factors, output)>>
           ELSE <<Task(m, "mac", Append(factors, <<"product", "accumulator", d, c, m>>), output)>>))

KeySwitch(level) ==
  ForEach(Components(Len(KeyDigits(level))), LAMBDA d : Digit(level, d))
  \o Transforms("inverse", "intt", 2, FullIds(level))
  \o RoundedModDown("moddown", 2, QIds(level), PId)
  \o ForEach(QIds(level), LAMBDA m : <<Task(m, "add",
            << <<"base", "value", 0, 0, m>>, <<"base", "base", 0, 0, m>> >>, << <<"base", "output", 0, 0, m>> >>)>>)
\* out0 = t0 + ks0 by key switching, out1 = t1 + ks1.
Relinearization(level) ==
  KeySwitch(level)
  \o ForEach(QIds(level), LAMBDA m : <<Task(m, "add",
            << <<"merge", "tensor", 0, 0, m>>, <<"merge", "switched", 0, 0, m>> >>, << <<"merge", "output", 0, 0, m>> >>)>>)

TensorProduct(prefix, contexts) ==
  ForEach(contexts, LAMBDA m : <<Task(m, "tensor",
            << <<prefix, "left", 0, 0, m>>, <<prefix, "right", 0, 0, m>>, <<prefix, "left", 1, 0, m>>, <<prefix, "right", 1, 0, m>> >>,
            << <<prefix, "output", 0, 0, m>>, <<prefix, "output", 1, 0, m>>, <<prefix, "output", 2, 0, m>> >>)>>)

(***************************************************************************)
(* Pointwise operations, component by component.                           *)
(***************************************************************************)
ComponentWise(op, contexts) ==
  ForEach(Components(2), LAMBDA c : ForEach(contexts, LAMBDA m : <<Task(m, op,
            << <<"pointwise", "left", c, 0, m>>, <<"pointwise", "right", c, 0, m>> >>,
            << <<"pointwise", "output", c, 0, m>> >>)>>))

\* A plaintext changes the first component; the second one is copied.
PlainWise(op, contexts) ==
  ForEach(contexts, LAMBDA m :
    <<Task(m, op, << <<"pointwise", "left", 0, 0, m>>, <<"pointwise", "plaintext", 0, 0, m>> >>, << <<"pointwise", "output", 0, 0, m>> >>),
      Task(m, "copy", << <<"pointwise", "left", 1, 0, m>> >>, << <<"pointwise", "output", 1, 0, m>> >>)>>)

\* Both components by a plaintext that is loaded once.
MultiplyPlain(contexts) ==
  ForEach(contexts, LAMBDA m : <<Task(m, "multiply_plain",
            << <<"pointwise", "left", 0, 0, m>>, <<"pointwise", "plaintext", 0, 0, m>>, <<"pointwise", "left", 1, 0, m>> >>,
            << <<"pointwise", "output", 0, 0, m>>, <<"pointwise", "output", 1, 0, m>> >>)>>)

Negate(contexts) ==
  ForEach(Components(2), LAMBDA c : ForEach(contexts, LAMBDA m : <<Task(m, "negate",
            << <<"pointwise", "left", c, 0, m>> >>, << <<"pointwise", "output", c, 0, m>> >>)>>))
=============================================================================
