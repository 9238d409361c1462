----------------------------- MODULE Relocation -----------------------------
(***************************************************************************)
(* Relocation: which limb each port of a program stands for.  A recipe     *)
(* binds ports to slots; a slot is <<place, role, index, mod>>, a limb of  *)
(* the object that the operation has at this place.  The recipes here are  *)
(* the parts that the operations of both schemes are made of.              *)
(***************************************************************************)
EXTENDS RnsKernels, SealImage

(***************************************************************************)
(* Binding a program: the recipe must bind every port that the program     *)
(* declares, once, and no other.                                           *)
(***************************************************************************)
Declared(program) == UNION {Mods(program[k].in) \cup Mods(program[k].out) : k \in DOMAIN program}
BindsExactly(recipe, program) ==
  /\ {binding[1] : binding \in recipe} = Declared(program)
  /\ \A one, other \in recipe : one[1] = other[1] => one[2] = other[2]
Relocated(recipe, program) ==
  LET slot == [port \in Declared(program) |-> (CHOOSE binding \in recipe : binding[1] = port)[2]] @@ << >>
      bound(ports) == [i \in DOMAIN ports |-> slot[ports[i]]] \o << >>
  IN  [k \in DOMAIN program |-> [program[k] EXCEPT !.in = bound(@), !.out = bound(@)]] \o << >>

(***************************************************************************)
(* Recipes: sets of <<port, slot>>.                                        *)
(***************************************************************************)
C(place, c, m) == <<place, "c", c, m>>
Held(role, i, m) == <<"constants", role, i, m>>

TransformRecipe(prefix, direction, tables, count, mods, from(_, _), to(_, _)) ==
  UNION {{<< <<prefix, "input", c, 0, m>>, from(c, m) >>,
          << <<prefix, "table", c, 0, m>>, <<tables, direction, 0, m>> >>,
          << <<prefix, "output", c, 0, m>>, to(c, m) >>} : c \in 0 .. count - 1, m \in Mods(mods)}

\* held names the constants of this conversion; k is its digit or component.
BconvRecipe(prefix, k, sources, targets, from(_), to(_), inverse, factor, held) ==
  UNION {{<< <<prefix, "source", k, 0, sources[i]>>, from(sources[i]) >>,
          << <<prefix, "inverse", k, 0, sources[i]>>, Held(inverse, held, sources[i]) >>,
          << <<prefix, "normalized", k, 0, sources[i]>>, Held("normalized", i - 1, 0) >>} : i \in DOMAIN sources}
  \cup UNION {{<< <<prefix, "accumulate", k, sources[i], m>>, Held("normalized", i - 1, 0) >>,
               << <<prefix, "factor", k, sources[i], m>>, Held(factor, sources[i], m) >>} :
              i \in DOMAIN sources, m \in Mods(targets)}
  \cup {<< <<prefix, "output", k, 0, m>>, to(m) >> : m \in Mods(targets)}

RoundedRecipe(prefix, c, qs, p, half, from(_), rounded(_), to(_), inverse, factor, scale) ==
  UNION {{<< <<prefix, "half_input", c, 0, m>>, from(m) >>, << <<prefix, "half", c, 0, m>>, Held(half, 0, m) >>,
          << <<prefix, "half_output", c, 0, m>>, rounded(m) >>} : m \in Mods(Append(qs, p))}
  \cup BconvRecipe(prefix, c, <<p>>, qs, rounded, LAMBDA m : Held("correction", 0, m), inverse, factor, 0)
  \cup UNION {{<< <<prefix, "value", c, 0, m>>, rounded(m) >>, << <<prefix, "correction", c, 0, m>>, Held("correction", 0, m) >>,
               << <<prefix, "scale", c, 0, m>>, Held(scale, 0, m) >>, << <<prefix, "result", c, 0, m>>, to(m) >>} : m \in Mods(qs)}

\* switching and base are <<place, component>>.  A direct second output is
\* left in the result, otherwise in the accumulator for a later merge.
KeySwitchRecipe(level, switching, base, directSecondOutput) ==
  LET digits == KeyDigits(level)
      full == FullIds(level)
      modup(m) == Held("modup", 0, m)
      digit(d) ==
        {<< <<"modup", "copied", d, 0, m>>, C(switching[1], switching[2], m) >> : m \in Mods(digits[d + 1])}
        \cup {<< <<"modup", "copy", d, 0, m>>, modup(m) >> : m \in Mods(digits[d + 1])}
        \cup BconvRecipe("modup", d, digits[d + 1], SeqWithout(full, digits[d + 1]),
                         LAMBDA m : C(switching[1], switching[2], m), modup, "modup_inverse", "modup_factor", d)
        \cup UNION {{<< <<"digit", "input", d, 0, m>>, modup(m) >>, << <<"digit", "table", d, 0, m>>, <<"canonical", "ntt", 0, m>> >>,
                     << <<"digit", "output", d, 0, m>>, modup(m) >>} : m \in Mods(full)}
        \cup UNION {{<< <<"product", "value", d, c, m>>, modup(m) >>,
                     << <<"product", "key", d, c, m>>, <<"key", "key", 2 * d + c, m>> >>,
                     << <<"product", "output", d, c, m>>, Held("accumulator", c, m) >>}
                    \cup {<< <<"product", "accumulator", d, c, m>>, Held("accumulator", c, m) >> : e \in {d} \ {0}} :
                    c \in {0, 1}, m \in Mods(full)}
      accumulator(c, m) == Held("accumulator", c, m)
  IN  UNION {digit(d - 1) : d \in DOMAIN digits}
      \cup TransformRecipe("inverse", "intt", "canonical", 2, full, accumulator, accumulator)
      \cup UNION {RoundedRecipe("moddown", c, QIds(level), PId, "half", LAMBDA m : accumulator(c, m), LAMBDA m : accumulator(c, m),
                    LAMBDA m : IF directSecondOutput /\ c = 1 THEN C("out", 1, m) ELSE accumulator(c, m),
                    "moddown_inverse", "moddown_factor", "p_inverse") : c \in {0, 1}}
      \cup UNION {{<< <<"base", "value", 0, 0, m>>, accumulator(0, m) >>, << <<"base", "base", 0, 0, m>>, C(base[1], base[2], m) >>,
                   << <<"base", "output", 0, 0, m>>, C("out", 0, m) >>} : m \in Mods(QIds(level))}

MergeRecipe(level, tensor) ==
  UNION {{<< <<"merge", "tensor", 0, 0, m>>, C(tensor, 1, m) >>, << <<"merge", "switched", 0, 0, m>>, Held("accumulator", 1, m) >>,
          << <<"merge", "output", 0, 0, m>>, C("out", 1, m) >>} : m \in Mods(QIds(level))}

Out(c, m) == C("out", c, m)
Left(c, m) == C("left", c, m)
Right(c, m) == C("right", c, m)
Work(c, m) == C("work", c, m)
=============================================================================
