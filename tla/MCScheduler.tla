----------------------------- MODULE MCScheduler -----------------------------
(***************************************************************************)
(* Programs for Scheduler.  Cells: a read-only input, three of mutable     *)
(* buffers, read-only twiddles and two modulus tables.  Data, encoded and  *)
(* interval programs run in one machine of two banks and three slots, each *)
(* with objects of its own; kernel programs in one of three banks.         *)
(***************************************************************************)
EXTENDS Scheduler, SequencesExt

Input   == << <<1, 1>> >>
First   == << <<2, 1>> >>
Second  == << <<2, 2>> >>
Third   == << <<2, 3>> >>
Both    == First \o Second
Twiddle == << <<3, 1>> >>
TableA  == << <<3, 2>> >>
TableB  == << <<3, 3>> >>

MCReadOnly == {<<1, 1>>, <<3, 1>>, <<3, 2>>, <<3, 3>>}
MCCells    == MCReadOnly \cup {<<2, 1>>, <<2, 2>>, <<2, 3>>}

\* Objects that fill a bank; small parameters; a modulus table.
Data       == [lines |-> 1024, type |-> 0, mask |-> {}, width |-> 1]
InBank0    == [Data EXCEPT !.mask = {0}]
Parameters == [lines |-> 2, type |-> 0, mask |-> {SmallBank}, width |-> 1]
ATable     == [lines |-> 3, type |-> 1, mask |-> {}, width |-> 1]
BadTable   == [ATable EXCEPT !.mask = {0}]

Load(o, range)       == Instr("load", << >>, o, range)
Save(o, range)       == Instr("store", <<o>>, None, range)
Arith(o, sources)    == Instr("arith", sources, o, << >>)
Mac(o, sources)      == Instr("mac", sources, o, << >>)
Stage(o, twiddle)    == Instr("stage", <<o, twiddle>>, o, << >>)
Online(o, a, b)      == Instr("online", <<a, b>>, o, << >>)
LoadMod              == Instr("modld", << >>, None, << >>)
PFree(o)             == Instr("free", <<o>>, None, << >>)
PSync                == Instr("sync", << >>, None, << >>)
Defer(o, range)      == [Instr("store", <<o>>, None, range) EXCEPT !.required = FALSE]
Giving(o, range)     == [Instr("store", <<o>>, None, range) EXCEPT !.release = TRUE]
Retain(o, range)     == [Instr("load", << >>, o, range) EXCEPT !.retained = TRUE]

Suite(codes, mode) == [codes |-> codes, automatic |-> mode]

Defined(p) == {p[k].def : k \in DOMAIN p} \ {None}

\* The last instruction uses what the others define, and new objects are
\* numbered in the order of their definition.
Sensible(p) ==
    LET i    == Last(p)
        past == Defined(Front(p))
    IN  /\ Uses(i) \subseteq past
        /\ i.def \in past \cup {None, Cardinality(past) + 1}

-----------------------------------------------------------------------------
(* Data programs: loads of mutable and immutable memory, stores over it,   *)
(* copies, sums in place and into new objects.  At most two of the four    *)
(* objects are on chip.                                                    *)

DataSlots == {0, 1, 4}
DataObjects == 1 .. 4

DataInstructions ==
    {Load(o, First) : o \in 3 .. 4}
    \cup {Save(o, r) : o \in DataObjects, r \in {First, Second}}
    \cup {Arith(o, <<a>>) : o \in 3 .. 4, a \in 1 .. 3}
    \cup {Arith(o, <<1, 2>>) : o \in DataObjects}

Data2 == {<<Load(1, First), Load(2, Input)>>}
Data3 == {p \in {Append(q, i) : q \in Data2, i \in DataInstructions} : Sensible(p)}
Data4 == {p \in {Append(q, i) : q \in Data3, i \in DataInstructions} : Sensible(p)}
Data5 == {p \in {Append(q, i) : q \in Data4, i \in DataInstructions} : Sensible(p)}
Data6 == {p \in {Append(q, Save(o, Second)) : q \in Data5, o \in DataObjects} : Sensible(p)}


-----------------------------------------------------------------------------
(* Kernel programs: transforms, PMAC, online multiplication and changes of *)
(* the modulus table around three banks and four slots, deferred stores    *)
(* and explicit frees; and programs for the rarer branches and errors.       *)

KernelSlots == {0, 1, 2, 4}
KernelObjects == 1 .. 8
KernelShape == <<Data, Data, Parameters, ATable, ATable, InBank0, Data, BadTable>>

LoadsOnce(p, o) == Cardinality({k \in DOMAIN p : p[k].op = "load" /\ p[k].def = o}) <= 1

KernelLoads == <<Load(4, TableA), Load(3, Twiddle), Load(1, First), Load(2, Input)>>

KernelFragments ==
    {<<i>> : i \in
        {Stage(1, 3), Stage(2, 3), Mac(1, <<2>>), Online(7, 1, 3),
         Online(1, 2, 3), LoadMod, Arith(7, <<1, 2>>), Save(2, First)}}
    \cup {<<Load(5, TableB), LoadMod, PSync>>,
          <<Load(6, First), Arith(2, <<6, 2>>)>>,
          <<Defer(1, Second), Stage(2, 3), Retain(1, Second)>>,
          <<PFree(2), Save(2, Second), Retain(2, Second)>>}

Kernel2 == {KernelLoads \o f \o g : f, g \in KernelFragments}
Kernel3 == {p \in {q \o g : q \in Kernel2, g \in KernelFragments} : LoadsOnce(p, 5)}

Scenarios ==
    { <<Load(3, Twiddle), Load(1, First), Arith(7, <<1, 3>>)>>,
      <<Load(8, TableA), LoadMod>>,
      <<Load(1, First), Load(6, Input), Arith(2, <<1, 6>>), Save(2, First)>>,
      KernelLoads \o <<LoadMod, Stage(2, 3), Load(6, First), Arith(2, <<6, 2>>),
                       Stage(1, 3), Stage(2, 3), Save(1, First), Save(2, Second)>>,
      <<Load(1, First), Arith(7, <<1, 2>>)>>,
      <<Load(1, First), Load(2, Input), Arith(7, <<1, 2>>),
        Mac(7, <<1, 2>>), Arith(6, <<1, 2>>), Save(1, First), Save(2, First), Save(7, First)>>,
      <<Load(6, First), Load(1, Second), Load(2, Input), Arith(7, <<1, 2>>),
        Save(7, First), Arith(1, <<6>>), Mac(1, <<2, 6>>), Save(1, Second)>> }

Kernel4 == Scenarios \cup {Append(p, Save(1, Second)) : p \in Kernel3}
\* (TLC re-evaluates the body of a definition that the cfg assigns.)
KernelSuites == {Suite(Kernel4, TRUE)}
KernelPrograms == KernelSuites

-----------------------------------------------------------------------------
(* Interval programs: objects of half a bank and of a whole one, so that   *)
(* one load clears several objects and one store overwrites part of the    *)
(* memory that an object comes from.                                       *)

Half == [Data EXCEPT !.lines = 512]
Wide == [Data EXCEPT !.width = 2]
MemoryObjects == 1 .. 9
MemoryShape == <<Data, Data, Data, Data, Half, Half, Half, Wide, Wide>>

IntervalInstructions ==
    {Load(7, Input), Load(8, Both), Save(6, First), Save(5, Second), Save(7, Second),
     Save(8, Both), Arith(9, <<8>>), Arith(6, <<5, 6>>), Arith(7, <<5, 6>>),
     Arith(5, <<6, 7>>)}
IntervalLast == {Save(5, First), Save(7, Second), Save(8, Both)}

\* What the importers guarantee: operands are defined, and each load defines an
\* object of its own.
Imported(p) ==
    LET i    == Last(p)
        past == Defined(Front(p))
    IN  /\ Uses(i) \subseteq past
        /\ i.op = "load" /\ ~ i.retained => i.def \notin past

Interval2 == {<<Load(5, First), Load(6, Second)>>}
Interval3 == {p \in {Append(q, i) : q \in Interval2, i \in IntervalInstructions} : Imported(p)}
Interval4 == {p \in {Append(q, i) : q \in Interval3, i \in IntervalInstructions} : Imported(p)}
Interval5 == {p \in {Append(q, i) : q \in Interval4, i \in IntervalInstructions} : Imported(p)}
Interval6 == {p \in {Append(q, i) : q \in Interval5, i \in IntervalInstructions} : Imported(p)}
Interval7 == {p \in {Append(q, i) : q \in Interval6, i \in IntervalLast} : Imported(p)}

-----------------------------------------------------------------------------
(* Encoded programs: as import_resolved_program() makes them from encoded  *)
(* instructions, with their own frees, and whose stores leave alone the    *)
(* memory that other objects come from.  An object that was freed or       *)
(* stored with release is not used again.                                  *)

EncodedInstructions ==
    {Load(3, Input), Save(1, Third), Save(3, Third), Giving(1, Third), PFree(1), PFree(2),
     Arith(4, <<1, 2>>), Arith(3, <<2>>), Arith(1, <<2, 1>>), Mac(2, <<1>>), Mac(3, <<2>>),
     Defer(3, Third), Retain(3, Third)}

Stores(p, range) == {k \in DOMAIN p : p[k].op = "store" /\ p[k].range = range}
Surrendered(p) ==
    {p[k].sources[1] : k \in {n \in DOMAIN p : p[n].op = "free" \/ p[n].release}}

Encodable(p) ==
    LET i    == Last(p)
        past == Front(p)
    IN  /\ Imported(p)
        /\ (Uses(i) \cup {i.def}) \cap Surrendered(past) = {}
        /\ Cardinality(Stores(p, Third)) <= 1
        /\ i.retained = ~ Last(past).required

Encoded2 == {<<Load(1, First), Load(2, Input)>>}
Encoded3 == {p \in {Append(q, i) : q \in Encoded2, i \in EncodedInstructions} : Encodable(p)}
Encoded4 == {p \in {Append(q, i) : q \in Encoded3, i \in EncodedInstructions} : Encodable(p)}
Encoded5 == {p \in {Append(q, i) : q \in Encoded4, i \in EncodedInstructions} : Encodable(p)}
Encoded6 == {p \in {Append(q, i) : q \in Encoded5, i \in EncodedInstructions} : Encodable(p)}
Encoded7 == {p \in {Append(q, Save(o, Second)) : q \in Encoded6, o \in DataObjects} : Encodable(p)}

MemorySuites == {Suite(Data6, TRUE), Suite(Interval7, TRUE), Suite(Encoded7, FALSE)}
MemoryPrograms == MemorySuites

\* The theorems apply to the programs of both passing runs.
ASSUME PassingGuarded == Guarded(KernelSuites \cup MemorySuites)

OverwriteSuites == {Suite(Data6, FALSE)}
OverwritePrograms == OverwriteSuites

=============================================================================
