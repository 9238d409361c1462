------------------------- MODULE MCSealApplication -------------------------
(***************************************************************************)
(* An instance of SealApplication with three data moduli.                  *)
(***************************************************************************)
EXTENDS SealIntegers

MCDataModuli == <<17, 97, 113>>
MCAuxiliaryBases == << <<1009, 1153>>, <<1009, 1153>>, <<1009, 1153, 1201>> >>
MCSwitchModuli == <<1217, 1217, 1249>>
MCModulusTable == <<17, 97, 113, 193, 1009, 1153, 1201, 1249, 1217, 5>>
\* Roots of unity of order 16.
MCRoot == [q \in {17, 97, 113, 193, 1009, 1153, 1201, 1217, 1249} |->
            CHOOSE r \in 2 .. q - 1 : LET r2 == (r * r) % q
                                                   r4 == (r2 * r2) % q
                                               IN  (r4 * r4) % q = q - 1]
MCTransformedOrder == <<0, 4, 2, 6, 1, 5, 3, 7>>

MCCiphertexts == [x |-> [level |-> 2, comps |-> 2], y |-> [level |-> 2, comps |-> 2], z |-> [level |-> 1, comps |-> 3]]
\* w is zero: SEAL refuses to multiply by it.
MCPlaintexts == [u |-> 2, v |-> 1, w |-> 2]
MCGaloisKeySets == [g |-> {3, 15}, h |-> {11}]

\* Pseudo-random data; keys are those of a secret key, without noise.
MCSecret == <<1, -1, 0, 1, 0, 0, -1, 0>>
Seed(kind) == CASE kind = "input" -> 3 [] kind = "plain" -> 5 [] kind = "relin_key" -> 7 [] kind = "galois_key" -> 11
DataSeed(d) == CASE d = "x" -> 1 [] d = "y" -> 2 [] d = "z" -> 3 [] d = "u" -> 4 [] d = "v" -> 5 [] d = "r" -> 6 [] d = "s" -> 7 [] d = "g" -> 8 [] d = "h" -> 9
Noise(kind, data, e, i, m) ==
  [k \in Index |-> (((Seed(kind) * 31 + DataSeed(data) * 17 + e * 7 + i * 5 + m * 3 + k) * 7919) % 10007) % Q(m)] \o << >>
SwitchedSecret(kind, e) == IF kind = "relin_key" THEN Negacyclic(MCSecret, MCSecret) ELSE Automorphism(MCSecret, e)
\* Digit i \div 2 of the key of s': (-a * s + P * s' under its modulus, a).
KeyWord(kind, data, e, i, m) ==
  LET a == Noise(kind, data, e, 2 * (i \div 2) + 1, m)
      hidden == IF m = i \div 2 THEN Mul(m, Const(m, Q(PId)), SwitchedSecret(kind, e)) ELSE Zero
  IN  IF i % 2 = 1 THEN a ELSE Sub(m, hidden, Negacyclic(a, MCSecret))
MCSealData(kind, data, e, i, m) ==
  IF kind \in {"relin_key", "galois_key"} THEN KeyWord(kind, data, e, i, m)
  ELSE IF data = "w" THEN Zero ELSE Noise(kind, data, e, i, m)

MCRotations == {1, -1}
MCModulusBits == <<3, 2, 2>>

\* What the theorems about every graph take of a context.
ASSUME ContextAssumption == ContextComplete /\ ProgramsContained

Import(d) == <<"import", d>>
Call(call) == <<call, "any">>

MCScripts ==
  [ckks |-> {<<Import("x"), Call("square"), Call("set_scale"), Import("y")>>,
             <<Import("x"), Call("square"), Call("rescale"), Call("rescale"), Call("relinearize")>>,
             <<Import("x"), Call("square"), Call("relinearize"), Call("rescale"), Call("set_scale"), Call("mark")>>,
             <<Import("x"), Call("rotate"), Call("rotate"), Call("sub")>>,
             <<Import("x"), Import("y"), Call("multiply"), Call("relinearize"), Call("relinearize")>>,
             <<Import("z"), Import("x"), Call("relinearize"), Call("rescale"), Call("rescale")>>,
             <<Import("x"), <<"import_plain", "u">>, Call("import_plain"), Call("multiply_plain"), Call("add_plain"), Call("sub_plain")>>,
             <<Import("x"), Call("negate"), Import("x"), Call("mark"), Call("add"), Call("mark")>>},
   bfv |-> {<<Import("x"), Call("mod_switch"), Call("square")>>,
            <<Import("x"), Import("y"), Call("multiply"), Call("relinearize"), Call("mod_switch")>>,
            <<Import("x"), Import("y"), Call("mod_switch"), Call("mod_switch"), Call("multiply"), Call("relinearize")>>,
            <<Import("x"), Call("square"), Call("mod_switch"), Call("square")>>,
            <<Import("x"), Call("rotate"), Call("rotate"), Call("sub")>>,
            <<Import("z"), Import("x"), Call("square"), Call("relinearize"), Call("relinearize")>>,
            <<Import("x"), <<"import_plain", "u">>, Call("import_plain"), Call("multiply_plain"), Call("add_plain"), Call("sub_plain")>>,
            <<Import("x"), Call("negate"), Import("x"), Call("mark"), Call("add"), Call("mark")>>}]
=============================================================================
