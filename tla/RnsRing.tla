------------------------------ MODULE RnsRing ------------------------------
(***************************************************************************)
(* Polynomials of Z_q[X] / (X^Degree + 1) under each modulus of the table, *)
(* the arithmetic of the HPU on them, and what its transforms mean.  A     *)
(* polynomial is the sequence of its words: coefficients are bit-reversed, *)
(* transformed words are in the order that the array leaves them in.  (The *)
(* trailing \o << >> and @@ << >> change nothing: with them TLC keeps the  *)
(* words instead of recomputing them.)                                     *)
(***************************************************************************)
EXTENDS SealLevels, NttSchedule

CONSTANT Root    \* for a modulus, a primitive root of unity of order 2 * Degree

ASSUME RingAssumption == \A k \in DOMAIN ModulusTable : ModulusTable[k] \in 2 .. 32767

\* Multiplicative inverse: the moduli are primes.
InverseMod(v, m) == CHOOSE y \in 1 .. Q(m) - 1 : ((v % Q(m)) * y) % Q(m) = 1

(***************************************************************************)
(* Pointwise instructions under one modulus.                               *)
(***************************************************************************)
Zero == [i \in Index |-> 0] \o << >>
Const(m, v) == [i \in Index |-> v % Q(m)] \o << >>
Reduced(m, a) == [i \in Index |-> a[i] % Q(m)] \o << >>
Add(m, a, b) == [i \in Index |-> (a[i] + b[i]) % Q(m)] \o << >>
Sub(m, a, b) == [i \in Index |-> ((a[i] % Q(m)) + Q(m) - (b[i] % Q(m))) % Q(m)] \o << >>
Mul(m, a, b) == [i \in Index |-> ((a[i] % Q(m)) * (b[i] % Q(m))) % Q(m)] \o << >>

(***************************************************************************)
(* The transform evaluates a polynomial at the odd powers of the root.  An *)
(* inverse transform is given by the power of the root that its twiddles   *)
(* are made from: the root itself or, when it also applies the             *)
(* automorphism X -> X^g, the power whose exponent inverts g.              *)
(***************************************************************************)
\* Nothing is transformed under the last modulus, t.
Transformed == 1 .. Len(ModulusTable) - 1
Power[k \in Transformed, e \in 0 .. Order - 1] ==
  IF e = 0 THEN 1 ELSE (Power[k, e - 1] * Root[ModulusTable[k]]) % ModulusTable[k]
Powers == [k \in Transformed |-> [e \in 1 .. Order |-> Power[k, e - 1]] \o << >>] \o << >>
RootPower(k, e) == Powers[k][(e % Order) + 1]

\* Exponent of the root that joins a transformed word with a coefficient.
Exponent(i, j) == (2 * TransformedOrder[i] + 1) * BitReverse[j - 1]
ForwardWeights ==
  [k \in Transformed |-> [i \in Index |-> [j \in Index |-> RootPower(k, Exponent(i, j))] \o << >>] \o << >>] \o << >>
InverseWeights ==
  [k \in Transformed |-> [e \in 1 .. Order |-> [j \in Index |-> [i \in Index |->
      (InverseMod(Degree, k - 1) * RootPower(k, Order * Order * Order - e * Exponent(i, j))) % ModulusTable[k]]
    \o << >>] \o << >>] \o << >>] \o << >>

Dot(m, a, weights) ==
  LET partial[i \in 0 .. Degree] ==
        IF i = 0 THEN 0 ELSE (partial[i - 1] + (a[i] % Q(m)) * weights[i]) % Q(m)
  IN  partial[Degree]

\* A table of twiddles is <<modulus, exponent of the root>>.
ForwardTable(m) == <<m, 0>>
InverseTable(m, e) == <<m, e>>
Ntt(a, table) == [i \in Index |-> Dot(table[1], a, ForwardWeights[table[1] + 1][i])] \o << >>
Intt(a, table) == [j \in Index |-> Dot(table[1], a, InverseWeights[table[1] + 1][table[2]][j])] \o << >>

(***************************************************************************)
(* Galois elements of rotations and of the conjugation.                    *)
(***************************************************************************)
ConjugationElement == Order - 1
RotationElement(step) ==
  LET power[k \in 0 .. Degree] == IF k = 0 THEN 1 ELSE (power[k - 1] * 3) % Order
  IN  power[IF step < 0 THEN (Degree \div 2) + step ELSE step]
ElementInverse(g) == CHOOSE e \in 1 .. Order : (e * g) % Order = 1
\* Mutant: the automorphism is undone.
ExponentOfElement == [g \in {e \in 1 .. Order : e % 2 = 1} |-> g]
\* What a table holds that is made for the inverse transform with X -> X^g.
FusedExponent == [g \in {e \in 1 .. Order : e % 2 = 1} |-> ElementInverse(g)]
=============================================================================
