---------------------------- MODULE MCEncodedImport ----------------------------
(***************************************************************************)
(* Encoded programs around two words of scratch memory: stores to it, to   *)
(* half of it and to an output, loads of it and of an input, with other    *)
(* kinds and lengths, transforms and arithmetic between them.              *)
(***************************************************************************)
EXTENDS EncodedImport

MCSlots == {0, 1, 4}

Input  == <<1>>
Pair   == <<2, 3>>
Whole  == <<4, 5>>
Half   == <<4>>
Output == <<6>>
Table  == <<7>>
MCWorkspace == {4, 5}
MCCells == 1 .. 7

Data  == [type |-> 0, mask |-> {}]
InOne == [type |-> 0, mask |-> {1}]
Mod   == [type |-> 1, mask |-> {5}]

DLoad(s, range, kind)     == Encoded("load", << >>, s, range, FALSE, kind)
DStore(s, range, release)  == Encoded("store", <<s>>, None, range, release, Data)
Ntt(s, t)              == Encoded("stage", <<t>>, s, << >>, FALSE, Data)
PAdd(d, s)              == Encoded("arith", <<s>>, d, << >>, FALSE, Data)
PMac(d, s)                == Encoded("mac", <<s>>, d, << >>, FALSE, Data)
PFree(s)                 == Encoded("free", <<s>>, None, << >>, FALSE, Data)
PSync                    == Encoded("sync", << >>, None, << >>, FALSE, Data)
LoadMod                  == Encoded("modld", << >>, None, << >>, FALSE, Data)

Data0 == 0 .. 1

Instructions ==
    {DLoad(s, Half, Data) : s \in Data0} \cup {DLoad(0, Half, InOne), DLoad(1, Whole, Data)}
    \cup {DStore(0, r, FALSE) : r \in {Half, Output}} \cup {DStore(s, Half, TRUE) : s \in Data0}
    \cup {DStore(1, Whole, TRUE), DStore(0, Output, TRUE)}
    \cup {Ntt(0, 1), PAdd(0, 1), PAdd(1, 0), PMac(0, 1), PMac(1, 1), PFree(1), PSync}

Starts ==
    {<<DLoad(0, Input, Data), DLoad(1, second, Data)>> : second \in {Input, Pair}}

\* No step of the program makes it impossible.
Possible(p) == FoldLeft(Lives, [ok |-> TRUE, live |-> {}, table |-> None], p).ok

Programs3 == {p \in {Append(q, i) : q \in Starts, i \in Instructions} : Possible(p)}
Programs4 == {p \in {Append(q, i) : q \in Programs3, i \in Instructions} : Possible(p)}
Programs5 == {p \in {Append(q, i) : q \in Programs4, i \in Instructions} : Possible(p)}

\* The last but two reads scratch memory or the output back.
Programs6 ==
    {p \in {Append(q, i) : q \in Programs5,
              i \in {DLoad(0, Half, Data), DLoad(0, Half, InOne), DLoad(1, Whole, Data), DLoad(1, Output, Data)}} : Possible(p)}
Programs8 == {p \o <<DStore(s, Output, TRUE), PSync>> : p \in Programs6, s \in Data0}

\* The modulus table, and programs that are refused.
Others ==
    { <<DLoad(4, Table, Mod), LoadMod, DLoad(0, Input, Data), DStore(0, Half, TRUE),
        DLoad(0, Half, Data), PFree(4), DStore(0, Output, TRUE), PSync>>,
      <<LoadMod, PSync>>,
      <<DLoad(4, Table, Mod), DLoad(1, Table, Mod), PSync>>,
      <<DLoad(4, Table, Mod), DLoad(4, Input, Data), LoadMod, PSync>>,
      <<DLoad(0, Input, Data)>>,
      <<Ntt(0, 1), PSync>> }

DisciplinedPrograms == Others \cup {p \in Programs8 : Disciplined(p)}

\* Shorter ones without that discipline.
AllPrograms == {p \o <<DLoad(1, Half, Data), DStore(1, Output, TRUE), PSync>> : p \in Programs4}

================================================================================
