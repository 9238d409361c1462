---------------------------- MODULE SealFrontend ----------------------------
(***************************************************************************)
(* An application builder and its evaluator: SEAL-like calls that record a *)
(* graph of values.  A value has what SEAL would give it (level,           *)
(* components, scale); nothing is computed yet.  Imported data and keys    *)
(* are captured once, however often the same content is given again.       *)
(* A call that the builder refuses leaves the graph as it was.             *)
(*                                                                         *)
(* Scales are exact: <<n, d1, .., dTop>> is Delta^n divided dL times by    *)
(* the modulus dropped at level L.                                         *)
(***************************************************************************)
EXTENDS SealImage

CONSTANTS Ciphertexts,     \* data -> [level, comps]: what can be imported, per scheme
          Plaintexts,      \* data -> level
          RelinKeySets,    \* data of relinearization keys
          GaloisKeySets,   \* data -> the Galois elements that it has keys for
          Rotations,       \* step counts given to rotations
          ScaleBits,       \* log2(Delta)
          ModulusBits,     \* entry l + 1: the bits of data modulus l
          Scripts          \* bound: the calls of an application, in order

\* What import_ciphertext() takes: a ciphertext of the context, of two
\* components or three.
ASSUME CiphertextAssumption ==
  \A d \in DOMAIN Ciphertexts : Ciphertexts[d].level \in Levels /\ Ciphertexts[d].comps \in {2, 3}

VARIABLES scheme, script, nodes, plains, relinRegistry, galoisRegistry, marked, phase

frontend == <<scheme, nodes, plains, relinRegistry, galoisRegistry, marked>>

ScaleIndex == 1 .. TopLevel + 1
NoScale == [i \in ScaleIndex |-> 0] \o << >>
Delta == [i \in ScaleIndex |-> IF i = 1 THEN 1 ELSE 0] \o << >>
TimesScale(x, y) == [i \in ScaleIndex |-> x[i] + y[i]] \o << >>
DividedScale(x, level) == [x EXCEPT ![level + 1] = @ + 1]
ScalesCompatible(x, y) == x = y
BitsOf(scale) ==
  LET drops[l \in 0 .. TopLevel] == IF l = 0 THEN 0 ELSE drops[l - 1] + scale[l + 1] * ModulusBits[l + 1]
  IN  scale[1] * ScaleBits - drops[TopLevel]
TotalBits(level) ==
  LET upTo[l \in 0 .. TopLevel] == ModulusBits[l + 1] + (IF l = 0 THEN 0 ELSE upTo[l - 1])
  IN  upTo[level]
ValidScale(level, scale) == BitsOf(scale) < TotalBits(level)

Computations == {"add", "sub", "multiply", "square", "negate", "add_plain", "sub_plain",
                 "multiply_plain", "relinearize", "rescale", "mod_switch", "rotate"}
Views == {"scale_view"}

FrontendInit ==
  /\ scheme \in {"ckks", "bfv"} /\ script \in Scripts[scheme]
  /\ nodes = << >> /\ plains = << >> /\ relinRegistry = << >> /\ galoisRegistry = << >> /\ marked = << >>

\* The next call of the script.  Which values it takes is left open, and
\* which data unless the script says so.
Called(call) ==
  /\ phase = "build" /\ script # << >> /\ Head(script)[1] = call
  /\ script' = Tail(script)
Given(all) == {d \in all : Head(script)[2] \in {"any", d}}

Value(kind, inputs, level, comps, scale) ==
  [kind |-> kind, inputs |-> inputs, level |-> level, comps |-> comps, scale |-> scale,
   data |-> "none", plain |-> 0, element |-> 0, key |-> 0]
Commit(value) == nodes' = Append(nodes, value)
Interned(registry, x) == IF x \in ToSet(registry) THEN registry ELSE Append(registry, x)
PositionOf(registry, x) == CHOOSE i \in DOMAIN registry : registry[i] = x

\* The physical value behind a chain of views.
PhysicalOrigin(n) ==
  LET back[i \in DOMAIN nodes] == IF nodes[i].kind \in Views THEN back[nodes[i].inputs[1]] ELSE i
  IN  back[n]

ImportCiphertext ==
  /\ Called("import")
  /\ \E d \in Given(DOMAIN Ciphertexts) :
       Commit([Value("input", << >>, Ciphertexts[d].level, Ciphertexts[d].comps,
                     IF scheme = "ckks" THEN Delta ELSE NoScale) EXCEPT !.data = d])
  /\ UNCHANGED <<scheme, plains, relinRegistry, galoisRegistry, marked, phase>>

\* A BFV plaintext has no level.
ImportPlaintext ==
  /\ Called("import_plain")
  /\ \E d \in Given(DOMAIN Plaintexts) : plains' = Append(plains, d)
  /\ UNCHANGED <<scheme, nodes, relinRegistry, galoisRegistry, marked, phase>>

Binary(kind) ==
  /\ Called(kind)
  /\ \E i, j \in DOMAIN nodes :
       LET left == nodes[i]
           right == nodes[j]
           scale == IF kind = "multiply" THEN TimesScale(left.scale, right.scale) ELSE left.scale
       IN  /\ left.comps = 2 /\ right.comps = 2 /\ left.level = right.level
           /\ scheme = "ckks" => /\ kind # "multiply" => ScalesCompatible(left.scale, right.scale)
                                 /\ ValidScale(left.level, scale)
           \* BEHZ needs two active data moduli.
           /\ (scheme = "bfv" /\ kind = "multiply") => left.level >= 1
           /\ Commit(Value(kind, <<i, j>>, left.level, IF kind = "multiply" THEN 3 ELSE 2, scale))
  /\ UNCHANGED <<scheme, plains, relinRegistry, galoisRegistry, marked, phase>>

Square ==
  /\ Called("square")
  /\ \E i \in DOMAIN nodes :
       LET scale == TimesScale(nodes[i].scale, nodes[i].scale)
       IN  /\ nodes[i].comps = 2
           /\ scheme = "ckks" => ValidScale(nodes[i].level, scale)
           /\ scheme = "bfv" => nodes[i].level >= 1
           /\ Commit(Value("square", <<i>>, nodes[i].level, 3, scale))
  /\ UNCHANGED <<scheme, plains, relinRegistry, galoisRegistry, marked, phase>>

NegateValue ==
  /\ Called("negate")
  /\ \E i \in DOMAIN nodes :
       /\ nodes[i].comps = 2
       /\ Commit(Value("negate", <<i>>, nodes[i].level, 2, nodes[i].scale))
  /\ UNCHANGED <<scheme, plains, relinRegistry, galoisRegistry, marked, phase>>

RescaleToNext ==
  /\ Called("rescale") /\ scheme = "ckks"
  /\ \E i \in DOMAIN nodes :
       /\ HasNextLevel(nodes[i].level)
       /\ Commit(Value("rescale", <<i>>, NextLevel(nodes[i].level), nodes[i].comps, DividedScale(nodes[i].scale, nodes[i].level)))
  /\ UNCHANGED <<scheme, plains, relinRegistry, galoisRegistry, marked, phase>>

ModSwitchToNext ==
  /\ Called("mod_switch") /\ scheme = "bfv"
  /\ \E i \in DOMAIN nodes :
       /\ nodes[i].comps = 2 /\ HasNextLevel(nodes[i].level)
       /\ Commit(Value("mod_switch", <<i>>, NextLevel(nodes[i].level), 2, nodes[i].scale))
  /\ UNCHANGED <<scheme, plains, relinRegistry, galoisRegistry, marked, phase>>

Plain(kind) ==
  /\ Called(kind)
  /\ \E i \in DOMAIN nodes, p \in DOMAIN plains :
       LET scale == IF kind = "multiply_plain" THEN TimesScale(nodes[i].scale, Delta) ELSE nodes[i].scale
       IN  /\ nodes[i].comps = 2
           /\ scheme = "ckks" => /\ Plaintexts[plains[p]] = nodes[i].level
                                 /\ kind # "multiply_plain" => ScalesCompatible(nodes[i].scale, Delta)
                                 /\ ValidScale(nodes[i].level, scale)
           /\ Commit([Value(kind, <<i>>, nodes[i].level, 2, IF scheme = "ckks" THEN scale ELSE nodes[i].scale) EXCEPT !.plain = p])
  /\ UNCHANGED <<scheme, plains, relinRegistry, galoisRegistry, marked, phase>>

Relinearize ==
  /\ Called("relinearize")
  /\ \E i \in DOMAIN nodes, k \in Given(RelinKeySets) :
       /\ nodes[i].comps = 3
       /\ relinRegistry' = Interned(relinRegistry, k)
       /\ Commit([Value("relinearize", <<i>>, nodes[i].level, 2, nodes[i].scale) EXCEPT !.data = k, !.key = PositionOf(relinRegistry', k)])
  /\ UNCHANGED <<scheme, plains, galoisRegistry, marked, phase>>

Elements == {RotationElement(step) : step \in Rotations} \cup {ConjugationElement}

\* rotate_vector, complex_conjugate, rotate_rows, rotate_columns.
Rotation ==
  /\ Called("rotate")
  /\ \E i \in DOMAIN nodes, k \in Given(DOMAIN GaloisKeySets), element \in Elements :
       /\ nodes[i].comps = 2 /\ element \in GaloisKeySets[k]
       /\ galoisRegistry' = Interned(galoisRegistry, k)
       /\ Commit([Value("rotate", <<i>>, nodes[i].level, 2, nodes[i].scale)
                   EXCEPT !.data = k, !.key = PositionOf(galoisRegistry', k), !.element = element])
  /\ UNCHANGED <<scheme, plains, relinRegistry, marked, phase>>

\* Another scale for the same physical value.
SetScale ==
  /\ Called("set_scale") /\ scheme = "ckks"
  /\ \E i \in DOMAIN nodes :
       /\ ValidScale(nodes[i].level, Delta)
       /\ Commit(Value("scale_view", <<i>>, nodes[i].level, nodes[i].comps, Delta))
  /\ UNCHANGED <<scheme, plains, relinRegistry, galoisRegistry, marked, phase>>

MarkOutput ==
  /\ Called("mark")
  /\ \E i \in DOMAIN nodes :
       /\ nodes[PhysicalOrigin(i)].kind # "input"
       /\ marked' = Append(marked, i)
  /\ UNCHANGED <<scheme, nodes, plains, relinRegistry, galoisRegistry, phase>>

FrontendNext ==
  \/ ImportCiphertext \/ ImportPlaintext
  \/ \E kind \in {"add", "sub", "multiply"} : Binary(kind)
  \/ Square \/ NegateValue \/ RescaleToNext \/ ModSwitchToNext
  \/ \E kind \in {"add_plain", "sub_plain", "multiply_plain"} : Plain(kind)
  \/ Relinearize \/ Rotation \/ SetScale \/ MarkOutput

(***************************************************************************)
(* What an application exports.                                            *)
(***************************************************************************)
LastComputation == CHOOSE i \in DOMAIN nodes : nodes[i].kind \in Computations /\ \A j \in i + 1 .. Len(nodes) : nodes[j].kind \notin Computations
\* Mutant: the computation itself, whatever scale was set on it later.
ScaleViewsForgotten == IF marked # << >> THEN marked ELSE <<LastComputation>>

\* Without marks, the latest view of the last computation.
OutputIndices ==
  IF marked # << >> THEN marked
  ELSE <<CHOOSE i \in DOMAIN nodes : PhysicalOrigin(i) = LastComputation /\ \A j \in i + 1 .. Len(nodes) : PhysicalOrigin(j) # LastComputation>>
=============================================================================
