---------------------------- MODULE MCOperatorImport ----------------------------
(***************************************************************************)
(* Operator programs over a read-only input, a mutable input, two words of *)
(* scratch memory, a third one that the caller asked to see, and an output.*)
(* Operation k defines value k.                                            *)
(***************************************************************************)
EXTENDS OperatorImport

MCValues == 1 .. 8

Constant == <<1>>
Wide     == <<2, 3>>
Mutable  == <<4>>
Whole    == <<5, 6>>
Half     == <<5>>
Output   == <<7>>
Watched  == <<8>>

MCCells     == 1 .. 8
MCReadOnly  == {1, 2, 3}
MCWorkspace == {5, 6, 8}
MCRequired  == {8}

Data  == [type |-> 0, mask |-> {}]
InOne == [type |-> 0, mask |-> {1}]

OLoad(k, range, kind)   == Operation("load", << >>, k, None, None, range, kind)
OStore(v, range)        == Operation("store", <<v>>, None, None, None, range, Data)
Arith(k, v, w, reuse)   == Operation("arith", <<v, w>>, k, reuse, None, << >>, Data)
Stage(k, v, w)          == Operation("stage", <<v, w>>, k, None, 1, << >>, Data)
Mac(k, v, w)            == Operation("mac", <<v, w>>, k, None, 2, << >>, Data)
Free(v)                 == Operation("free", <<v>>, None, None, None, << >>, Data)
OSync                   == Operation("sync", << >>, None, None, None, << >>, Data)

Starts == { <<OLoad(1, Constant, Data), OLoad(2, Mutable, Data)>>,
            <<OLoad(1, Mutable, Data), OLoad(2, Wide, Data)>>,
            <<OLoad(1, Mutable, InOne), OLoad(2, Mutable, Data)>> }

\* Operation k, on value v and one of the first two.
OperationsOn(k, v) ==
    {OStore(1, Half), OStore(v, Half), OStore(2, Whole), OStore(v, Watched), OStore(1, Mutable),
     OStore(v, Output)}
    \cup {OLoad(k, Half, Data), OLoad(k, Half, InOne), OLoad(k, Whole, Data), OLoad(k, Watched, Data),
          OLoad(k, Output, Data)}
    \cup {Arith(k, 1, v, None), Arith(k, 1, v, 1), Arith(k, 1, v, v), Arith(k, v, v, 1)}
    \cup {Stage(k, v, 2), Mac(k, v, 1), Mac(k, v, 2)}
Operations(k) == UNION {OperationsOn(k, v) : v \in 2 .. k - 1}

\* Programs whose last operation takes no values but the latest and the first two.
Latest(p, k) == Max({2} \cup ({p[n].output : n \in 3 .. k} \ {None}))
Follows(p)   ==
    LET i == p[Len(p)]
    IN  Range(i.inputs) \cup {i.reuse} \subseteq {1, 2, None, Latest(p, Len(p) - 1)}

Programs3 == {p \in {Append(q, i) : q \in Starts, i \in Operations(3)} : Follows(p)}
Programs4 == {p \in {Append(q, i) : q \in Programs3, i \in Operations(4)} : Follows(p)}
Programs5 == {p \in {Append(q, i) : q \in Programs4, i \in Operations(5)} : Follows(p)}

\* The last value is used with the first one and both are stored.
Complete ==
    {p \o <<Arith(6, Latest(p, 5), 1, None), OStore(Latest(p, 5), Output), Free(1), OSync>> : p \in Programs5}

Refused ==
    { << >>,
      <<OStore(1, Output)>>,
      <<OLoad(1, Constant, Data), OStore(1, Constant)>>,
      <<OLoad(1, Constant, Data), OLoad(1, Mutable, Data)>>,
      <<OLoad(1, Constant, Data), Arith(2, 1, 1, 3)>>,
      <<OLoad(1, Constant, Data), OLoad(2, Wide, Data), Mac(3, 1, 2)>>,
      <<OLoad(1, Constant, Data), OStore(1, Whole)>> }

MCPrograms == Refused \cup Complete

================================================================================
