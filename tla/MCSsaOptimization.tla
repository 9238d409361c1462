-------------------------- MODULE MCSsaOptimization --------------------------
(***************************************************************************)
(* Operator programs over a constant, the modulus table, mutable memory,   *)
(* two words of scratch memory and two outputs.  Operation k defines value *)
(* k.                                                                      *)
(***************************************************************************)
EXTENDS SsaOptimization

MCValues == 1 .. 9

Constant == <<1>>
Moduli   == <<2>>
Mutable  == <<3>>
Whole    == <<4, 5>>
Half     == <<4>>
Output   == <<6>>
Second   == <<7>>

MCCells     == 1 .. 7
MCReadOnly  == {1, 2}
MCWorkspace == {4, 5}
MCRequired  == {{}, {4, 5}}

Data  == [type |-> 0, mask |-> {}]
InOne == [type |-> 0, mask |-> {1}]
Mod   == [type |-> 1, mask |-> {5}]

Bound(op, operands, output, tied, range, kind, layout, mod) ==
    [op |-> op, inputs |-> operands, output |-> output, reuse |-> None, tied |-> tied,
     range |-> range, kind |-> kind, layout |-> layout, mod |-> mod]

SLoad(k, range, kind)    == Bound("load", << >>, k, None, range, kind, "coefficient", None)
SLoadNtt(k, range)       == Bound("load", << >>, k, None, range, Data, "ntt", None)
SStore(v, range)         == Bound("store", <<v>>, None, None, range, Data, "coefficient", None)
SArith(k, v, w, mod)     == Bound("arith", <<v, w>>, k, None, << >>, Data, None, mod)
SStage(k, v, w)          == Bound("stage", <<v, w>>, k, 1, << >>, Data, None, None)
SMac(k, v, w)            == Bound("mac", <<v, w>>, k, 2, << >>, Data, None, None)
SFree(v)                 == Bound("free", <<v>>, None, None, << >>, Data, None, None)
SSelect(mod)             == Bound("modld", << >>, None, None, << >>, Data, None, mod)
SSync                    == Bound("sync", << >>, None, None, << >>, Data, None, None)

\* The last operation that defines a value, and how long a value is.
Latest(p) == Max({k \in DOMAIN p : p[k].output # None})
RECURSIVE LengthOf(_, _)
LengthOf(p, v) ==
    IF p[v].op = "load" THEN Len(p[v].range) ELSE LengthOf(p, p[v].inputs[1])

\* The last operation has operands that exist, and stores what fits.
Possible(p) ==
    LET i == p[Len(p)]
    IN  /\ \A v \in Range(i.inputs) : v < Len(p) /\ p[v].output = v
        /\ i.op = "store" => LengthOf(p, i.inputs[1]) = Len(i.range)

-----------------------------------------------------------------------------
(* Loads and stores.                                                       *)

Traffic(p) ==
    LET k == Len(p) + 1
        v == Latest(p)
    IN  {SLoad(k, Half, Data), SLoad(k, Half, InOne), SLoadNtt(k, Half), SLoad(k, Whole, Data)}
        \cup {SStore(1, Half), SStore(v, Half), SStore(v, Whole), SStore(v, Mutable)}
        \cup {SArith(k, 1, v, None), SStage(k, v, 2), SSync}

Extended(programs, Operations(_)) ==
    {p \in UNION {{Append(p, i) : i \in Operations(p)} : p \in programs} : Possible(p)}

Traffic2 == { <<SLoad(1, Mutable, Data), SLoad(2, Half, Data)>>, <<SLoad(1, Half, InOne), SLoad(2, Whole, Data)>> }
Traffic3 == Extended(Traffic2, Traffic)
Traffic4 == Extended(Traffic3, Traffic)
Traffic5 == Extended(Traffic4, Traffic)

\* The load asks for memory of the same kind as the first one.
Traffic6 == {Append(p, SLoad(6, Half, p[1].kind)) : p \in Traffic5}

TrafficPrograms == {p \o <<SArith(7, 6, Latest([k \in 1 .. 5 |-> p[k]]), None), SStore(7, Output)>> : p \in Traffic6}

-----------------------------------------------------------------------------
(* Modulus contexts.                                                       *)

Contexts(p) ==
    LET k == Len(p) + 1
        v == Latest(p)
    IN  {SLoad(k, Moduli, Mod), SSelect(0), SSelect(1), SStore(v, Mutable), SFree(1)}
        \cup {SArith(k, 2, v, None), SArith(k, 2, v, 0), SMac(k, 2, 2), SLoad(k, Mutable, Data)}

Context3 == { <<SLoad(1, Moduli, Mod), SLoad(2, Constant, Data), SSelect(0)>> }
Context4 == Extended(Context3, Contexts)
Context5 == Extended(Context4, Contexts)
Context6 == Extended(Context5, Contexts)

ContextPrograms ==
    {p \o <<SArith(7, 2, Latest(p), None), SStore(7, Output)>> : p \in Context6}

\* Independent computations that overwrite each other's memory.
Independent ==
    {p \in {<<SLoad(1, Mutable, Data), SLoad(2, Half, Data)>>
                \o <<SArith(3, 1, 1, None), SArith(4, 2, 2, None), i, SStore(3, s), SStore(4, r), j>> :
                i \in {SSync, SStore(3, Mutable), SArith(5, 1, 2, None)},
                s \in {Half, Output}, r \in {Half, Mutable, Output},
                j \in {SSync, SStore(2, Output), SStore(5, Mutable), SStore(5, Second)}} : Possible(p)}

Refused ==
    { <<SStore(1, Output)>>,
      <<SLoad(1, Mutable, Data), SLoad(1, Half, Data)>>,
      <<SLoad(1, << >>, Data)>>,
      <<SLoad(1, Mutable, Data), SStore(1, Constant)>>,
      <<SLoad(1, Mutable, Mod)>>,
      <<SLoad(1, Moduli, Mod), SLoad(2, Constant, Mod)>> }

MCPrograms == Refused \cup TrafficPrograms \cup ContextPrograms \cup Independent

================================================================================
