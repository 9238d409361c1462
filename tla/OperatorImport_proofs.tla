------------------------ MODULE OperatorImport_proofs ------------------------
(***************************************************************************)
(* Proofs about OperatorImport, for any programs, values and memory.       *)
(***************************************************************************)
EXTENDS OperatorImport, SequenceTheorems, WellFoundedInduction, TLAPS

-----------------------------------------------------------------------------
(* Numbers and sequences.                                                  *)

\* A set of natural numbers has a least element.
LEMMA MinIn ==
    ASSUME NEW T, T \subseteq Nat, T # {}
    PROVE  Min(T) \in T /\ \A n \in T : Min(T) <= n
  <1> DEFINE R == OpToRel(<, Nat)
  <1>0. IsWellFoundedOn(R, Nat)
    BY NatLessThanWellFounded
  <1>1. \E m \in T : \A n \in T : ~ (<<n, m>> \in R)
    <2> HIDE DEF R
    <2> QED
      BY <1>0, WFMin
  <1>2. \A n, m \in Nat : n < m => <<n, m>> \in R
    BY DEF OpToRel
  <1>3. \E m \in T : \A n \in T : m <= n
    <2>1. PICK m \in T : \A n \in T : ~ (<<n, m>> \in R)
      BY <1>1
    <2>2. \A n \in T : ~ (n < m)
      BY <1>2, <2>1, Zenon
    <2> QED
      BY <2>2
  <1> QED
    BY <1>3 DEF Min

\* A bounded one has a greatest element.
LEMMA GreatestIn ==
    ASSUME NEW T, NEW bound \in Nat, T \subseteq 0 .. bound, T # {}
    PROVE  \E m \in T : \A n \in T : n <= m
  <1> DEFINE mirror == {bound - n : n \in T}
  <1>1. mirror \subseteq Nat /\ mirror # {}
    <2>1. \A n \in T : bound - n \in Nat
      OBVIOUS
    <2> QED
      BY <2>1
  <1>2. Min(mirror) \in mirror /\ \A n \in mirror : Min(mirror) <= n
    BY <1>1, MinIn
  <1>3. PICK m \in T : Min(mirror) = bound - m
    BY <1>2
  <1>4. \A n \in T : bound - n \in mirror
    OBVIOUS
  <1>5. \A n \in T : n <= m
    <2> HIDE DEF mirror
    <2> QED
      BY <1>2, <1>3, <1>4
  <1> QED
    BY <1>5

\* A sequence of which nothing is said but its length.
IsTuple(s) == Len(s) \in Nat /\ s = [k \in 1 .. Len(s) |-> s[k]]

LEMMA TupleSeq ==
    ASSUME NEW s, IsTuple(s)
    PROVE  s \in Seq(Range(s)) /\ DOMAIN s = 1 .. Len(s)
  <1> DEFINE n == Len(s)
             S == Range(s)
  <1>1. n \in Nat /\ s = [k \in 1 .. n |-> s[k]]
    BY DEF IsTuple
  <1>2. DOMAIN s = 1 .. n
    BY <1>1
  <1>3. \A k \in 1 .. n : s[k] \in S
    BY <1>2 DEF Range
  <1>4. s \in [1 .. n -> S]
    <2> HIDE DEF S, n
    <2> QED
      BY <1>1, <1>3
  <1>5. s \in Seq(S)
    <2> HIDE DEF S, n
    <2> QED
      BY <1>1, <1>4
  <1> QED
    BY <1>2, <1>5

LEMMA SeqTuple ==
    ASSUME NEW S, NEW s \in Seq(S)
    PROVE  IsTuple(s)
  <1>1. s \in [1 .. Len(s) -> S] /\ Len(s) \in Nat
    OBVIOUS
  <1> QED
    BY <1>1 DEF IsTuple

\* A function on 1 .. n is a sequence of length n.
LEMMA TupleOf ==
    ASSUME NEW n \in Nat, NEW f, f = [k \in 1 .. n |-> f[k]]
    PROVE  IsTuple(f) /\ Len(f) = n
  <1> DEFINE S == Range(f)
  <1>1. DOMAIN f = 1 .. n
    OBVIOUS
  <1>2. \A k \in 1 .. n : f[k] \in S
    BY <1>1 DEF Range
  <1>3. f \in [1 .. n -> S]
    <2> HIDE DEF S
    <2> QED
      BY <1>2
  <1>4. f \in Seq(S) /\ Len(f) = n
    <2> HIDE DEF S
    <2> QED
      BY <1>3
  <1> QED
    BY <1>4 DEF IsTuple

LEMMA TupleAppend ==
    ASSUME NEW s, IsTuple(s), NEW x
    PROVE  /\ IsTuple(Append(s, x)) /\ Len(Append(s, x)) = Len(s) + 1
           /\ \A k \in 1 .. Len(s) : Append(s, x)[k] = s[k]
           /\ Append(s, x)[Len(s) + 1] = x
  <1> DEFINE S == Range(s) \cup {x}
             t == Append(s, x)
  <1>1. s \in Seq(Range(s))
    BY TupleSeq
  <1>2. s \in Seq(S)
    <2>1. Range(s) \subseteq S
      OBVIOUS
    <2> HIDE DEF S
    <2> QED
      BY <1>1, <2>1
  <1>3. x \in S
    OBVIOUS
  <1> HIDE DEF S
  <1>4. t \in Seq(S) /\ Len(t) = Len(s) + 1 /\ (\A k \in 1 .. Len(s) : t[k] = s[k]) /\ t[Len(s) + 1] = x
    BY <1>2, <1>3, AppendProperties
  <1>5. IsTuple(t)
    BY <1>4, SeqTuple
  <1> QED
    BY <1>4, <1>5

-----------------------------------------------------------------------------
(* Programs.                                                               *)

\* The last use of a value is not before any of its uses.
LEMMA LastUseBounds ==
    ASSUME NEW list \in Seq(SsaOperations), NEW v
    PROVE  /\ LastUse(list, v) \in 0 .. Len(list)
           /\ \A k \in DOMAIN list :
                 list[k].op # "free" /\ v \in Range(list[k].inputs) => k <= LastUse(list, v)
  <1> DEFINE uses == {k \in DOMAIN list : list[k].op # "free" /\ v \in Range(list[k].inputs)}
             last == CHOOSE k \in uses : \A n \in uses : n <= k
  <1>1. uses \subseteq 0 .. Len(list) /\ Len(list) \in Nat
    OBVIOUS
  <1>2. LastUse(list, v) = IF uses = {} THEN 0 ELSE last
    BY DEF LastUse
  <1>3. CASE uses = {}
    BY <1>1, <1>2, <1>3
  <1>4. CASE uses # {}
    <2>1. \E k \in uses : \A n \in uses : n <= k
      <3> HIDE DEF uses
      <3> QED
        BY <1>1, <1>4, GreatestIn
    <2>2. last \in uses /\ \A n \in uses : n <= last
      <3> HIDE DEF uses
      <3> QED
        BY <2>1
    <2> QED
      BY <1>1, <1>2, <1>4, <2>2
  <1> QED
    BY <1>3, <1>4

\* NextTouching is the first DMA from a position on that overlaps some cells.
LEMMA FirstTouching ==
    ASSUME NEW list \in Seq(SsaOperations), NEW cells, NEW first \in Nat \ {0}
    PROVE  LET next == NextTouching(list, cells, first)
           IN  /\ next # 0 => next \in first .. Len(list) /\ IsDma(list[next]) /\ Cells(list[next]) \cap cells # {}
               /\ \A n \in first .. Len(list) :
                     IsDma(list[n]) /\ Cells(list[n]) \cap cells # {} => next # 0 /\ next <= n
  <1> DEFINE touching == {n \in first .. Len(list) : IsDma(list[n]) /\ Cells(list[n]) \cap cells # {}}
             next == NextTouching(list, cells, first)
  <1>1. touching \subseteq Nat /\ Len(list) \in Nat
    OBVIOUS
  <1>2. next = IF touching = {} THEN 0 ELSE Min(touching)
    BY DEF NextTouching
  <1>3. CASE touching = {}
    BY <1>2, <1>3
  <1>4. CASE touching # {}
    <2>1. Min(touching) \in touching /\ \A n \in touching : Min(touching) <= n
      <3> HIDE DEF touching
      <3> QED
        BY <1>1, <1>4, MinIn
    <2>2. next \in touching /\ next # 0 /\ \A n \in touching : next <= n
      <3>1. next \in touching /\ \A n \in touching : next <= n
        <4> HIDE DEF touching, next
        <4> QED
          BY <1>2, <1>4, <2>1
      <3>2. 0 \notin touching
        OBVIOUS
      <3> QED
        BY <3>1, <3>2
    <2> QED
      BY <2>2
  <1> QED
    BY <1>3, <1>4

\* Between a store and its consumer nothing touches the cells, and after it no
\* load does before a store to all of them.
LEMMA ConsumerReads ==
    ASSUME NEW list \in Seq(SsaOperations), NEW store \in DOMAIN list, Consumer(list, store) # 0
    PROVE  LET load  == Consumer(list, store)
               cells == Cells(list[store])
           IN  /\ load \in store + 1 .. Len(list) /\ list[load].op = "load"
               /\ list[load].range = list[store].range /\ cells \subseteq Workspace
               /\ \A n \in store + 1 .. load - 1 : IsDma(list[n]) => Cells(list[n]) \cap cells = {}
               /\ \A n \in load + 1 .. Len(list) :
                     list[n].op = "load" /\ Cells(list[n]) \cap cells # {} =>
                        \E m \in load + 1 .. n - 1 : list[m].op = "store" /\ cells \subseteq Cells(list[m])
  <1> DEFINE load  == NextTouching(list, Cells(list[store]), store + 1)
             cells == Cells(list[store])
             next  == NextTouching(list, cells, load + 1)
  <1>1. /\ Consumer(list, store) = load /\ load # 0 /\ cells \subseteq Workspace
        /\ list[load].op = "load" /\ list[load].range = list[store].range
        /\ next # 0 => list[next].op = "store" /\ cells \subseteq Cells(list[next])
    BY DEF Consumer, NotReadAgain
  <1>2. store \in Nat \ {0} /\ Len(list) \in Nat
    OBVIOUS
  <1>3. /\ load \in store + 1 .. Len(list)
        /\ \A n \in store + 1 .. Len(list) : IsDma(list[n]) /\ Cells(list[n]) \cap cells # {} => load <= n
    <2>1. store + 1 \in Nat \ {0}
      BY <1>2
    <2> QED
      BY <1>1, <2>1, FirstTouching
  <1> HIDE DEF load
  <1>4. \A n \in store + 1 .. load - 1 : IsDma(list[n]) => Cells(list[n]) \cap cells = {}
    <2> HIDE DEF cells
    <2> QED
      BY <1>2, <1>3
  <1>5. ASSUME NEW n \in load + 1 .. Len(list), list[n].op = "load", Cells(list[n]) \cap cells # {}
        PROVE  \E m \in load + 1 .. n - 1 : list[m].op = "store" /\ cells \subseteq Cells(list[m])
    <2>1. load + 1 \in Nat \ {0}
      BY <1>2, <1>3
    <2>2. next # 0 /\ next <= n /\ next \in load + 1 .. Len(list)
      <3>1. IsDma(list[n])
        BY <1>5 DEF IsDma
      <3> HIDE DEF cells
      <3> QED
        BY <1>5, <2>1, <3>1, FirstTouching
    <2>3. list[next].op = "store" /\ cells \subseteq Cells(list[next])
      BY <1>1, <2>2
    <2>4. next # n
      BY <1>5, <2>3
    <2> HIDE DEF next, cells
    <2> QED
      BY <1>2, <1>3, <2>2, <2>3, <2>4
  <1> QED
    BY <1>1, <1>3, <1>4, <1>5

-----------------------------------------------------------------------------
(* The inductive invariant.                                                *)

Shapes == [lines : Nat, kind : Kinds]

Types ==
    /\ code \in Programs /\ optimized \in BOOLEAN /\ pos \in Nat \ {0}
    /\ status \in {"new", "importing", "rejected", "done"}
    /\ status \in {"importing", "done"} => WellFormed(code, ReadOnly)
    /\ shapes \in Seq(Shapes) /\ lastUse \in Seq(Nat)
    /\ IsTuple(homes) /\ IsTuple(contents)
    /\ Len(lastUse) = Len(shapes) /\ Len(homes) = Len(shapes) /\ Len(contents) = Len(shapes)
    /\ objectOf \in [Values -> (1 .. Len(shapes)) \cup {None}]
    /\ values = [v \in Values |-> values[v]]
    /\ memory = [cell \in ImageCells |-> memory[cell]]
    /\ ddr = [cell \in ImageCells |-> ddr[cell]]

\* What values and objects hold is as long as the object.
Lengths ==
    /\ \A o \in 1 .. Len(shapes) : IsTuple(contents[o]) /\ Len(contents[o]) = Lines(o)
    /\ \A v \in Values :
          objectOf[v] # None => IsTuple(values[v]) /\ Len(values[v]) = Lines(objectOf[v])

Defined ==
    \A n \in DOMAIN code : n < pos /\ code[n].output # None => objectOf[code[n].output] # None

\* An object is kept for all its values.
LongEnough ==
    \A v \in Values : objectOf[v] # None => LastUse(code, v) <= lastUse[objectOf[v]]

Agree ==
    \A v \in Values :
        objectOf[v] # None /\ LastUse(code, v) >= pos => contents[objectOf[v]] = values[v]

\* An object awaiting its reload holds what the load must find in memory, and
\* stays in use until then.
Kept ==
    \A r \in pending :
        /\ r.load \in DOMAIN code /\ r.object \in 1 .. Len(shapes) /\ code[r.load].op = "load"
        /\ r.load >= pos =>
              /\ r.load <= lastUse[r.object]
              /\ contents[r.object] = Read(memory, code[r.load].range)
              /\ \A n \in pos .. r.load - 1 :
                    code[n].op = "store" => Cells(code[n]) \cap Cells(code[r.load]) = {}

HomesAgree ==
    \A o \in 1 .. Len(shapes) :
        homes[o] # None =>
            /\ homes[o] \in Views
            /\ Range(homes[o]) \subseteq ReadOnly => contents[o] = Read(ddr, homes[o])

\* Memory that no store was made to is scratch memory that no load looks at
\* before it is stored to again, but the one that the object awaits.
Stale ==
    \A cell \in ImageCells :
        ddr[cell] # memory[cell] =>
            /\ optimized /\ cell \in Workspace /\ cell \notin Required /\ cell \notin ReadOnly
            /\ \A n \in DOMAIN code :
                  n >= pos /\ code[n].op = "load" /\ cell \in Cells(code[n]) =>
                     \/ \E m \in pos .. n - 1 : code[m].op = "store" /\ cell \in Cells(code[m])
                     \/ \E r \in pending : r.load = n

IInv ==
    /\ Types /\ Lengths /\ Defined /\ LongEnough /\ Agree /\ Kept /\ HomesAgree /\ Stale

LEMMA InitIInv == Init => IInv
  <1> SUFFICES ASSUME Init
               PROVE  IInv
    OBVIOUS
  <1>1. << >> \in Seq(Shapes) /\ << >> \in Seq(Nat) /\ Len(<< >>) = 0
    OBVIOUS
  <1>2. IsTuple(<< >>)
    BY <1>1 DEF IsTuple
  <1>3. Types
    BY <1>1, <1>2 DEF Init, Types
  <1>4. Lengths
    BY <1>1 DEF Init, Lengths
  <1>5. Defined
    <2>1. \A p \in Seq(SsaOperations) : \A n \in DOMAIN p : ~ (n < 1)
      OBVIOUS
    <2> QED
      BY <2>1, ProgramsAssumption DEF Init, Defined
  <1>6. LongEnough /\ Agree /\ Kept /\ Stale
    BY DEF Init, LongEnough, Agree, Kept, Stale
  <1>7. HomesAgree
    BY <1>1 DEF Init, HomesAgree
  <1> QED
    BY <1>3, <1>4, <1>5, <1>6, <1>7 DEF IInv

\* Where the importer is, and what operation it looks at.
LEMMA CurrentOperation ==
    ASSUME IInv, Importing
    PROVE  /\ code \in Seq(SsaOperations) /\ Len(code) \in Nat /\ DOMAIN code = 1 .. Len(code)
           /\ pos \in 1 .. Len(code) /\ pos \in DOMAIN code /\ Current \in SsaOperations
           /\ WellFormed(code, ReadOnly)
           /\ \A n \in DOMAIN code : code[n] \in SsaOperations
  <1>1. code \in Seq(SsaOperations)
    BY ProgramsAssumption DEF IInv, Types
  <1>2. pos \in 1 .. Len(code) /\ WellFormed(code, ReadOnly)
    BY <1>1 DEF IInv, Types, Importing
  <1> QED
    BY <1>1, <1>2 DEF Current

\* Operands are values that have their objects.
LEMMA OperandObjects ==
    ASSUME IInv, Importing
    PROVE  /\ DOMAIN Inputs = DOMAIN Current.inputs
           /\ \A k \in DOMAIN Current.inputs :
                 /\ Current.inputs[k] \in Values
                 /\ Inputs[k] = objectOf[Current.inputs[k]] /\ Inputs[k] \in 1 .. Len(shapes)
           /\ Current.reuse # None => Current.reuse \in Values /\ objectOf[Current.reuse] \in 1 .. Len(shapes)
  <1>1. pos \in DOMAIN code /\ Current \in SsaOperations /\ DOMAIN code = 1 .. Len(code) /\ Len(code) \in Nat
    BY CurrentOperation
  <1>2. /\ Range(Current.inputs) \subseteq DefinedBefore(code, pos)
        /\ Current.reuse \in DefinedBefore(code, pos) \cup {None}
    BY <1>1, CurrentOperation DEF WellFormed, Current
  <1>3. Current.inputs \in Seq(Values)
    BY <1>1 DEF SsaOperations
  <1>4. \A v \in DefinedBefore(code, pos) : v \in Values /\ objectOf[v] \in 1 .. Len(shapes)
    <2> SUFFICES ASSUME NEW v \in DefinedBefore(code, pos)
                 PROVE  v \in Values /\ objectOf[v] \in 1 .. Len(shapes)
      OBVIOUS
    <2>1. PICK n \in 1 .. pos - 1 : code[n].output = v /\ v # None
      BY DEF DefinedBefore
    <2>2. n \in DOMAIN code /\ n < pos
      BY <1>1, <2>1
    <2>3. objectOf[v] # None
      BY <2>1, <2>2 DEF IInv, Defined
    <2>4. v \in Values
      <3>1. code[n] \in SsaOperations
        BY <2>2, CurrentOperation
      <3> QED
        BY <2>1, <3>1 DEF SsaOperations
    <2> QED
      BY <2>3, <2>4 DEF IInv, Types
  <1>5. DOMAIN Inputs = DOMAIN Current.inputs /\ \A k \in DOMAIN Current.inputs : Inputs[k] = objectOf[Current.inputs[k]]
    BY DEF Inputs
  <1>6. \A k \in DOMAIN Current.inputs : Current.inputs[k] \in DefinedBefore(code, pos)
    BY <1>2 DEF Range
  <1> QED
    BY <1>2, <1>4, <1>5, <1>6

\* An operation but PFREE finds its operands in their objects, which are kept so far.
LEMMA OperandsHeld ==
    ASSUME IInv, Importing, Current.op # "free", NEW k \in DOMAIN Current.inputs
    PROVE  /\ contents[Inputs[k]] = values[Current.inputs[k]]
           /\ IsTuple(values[Current.inputs[k]])
           /\ Len(values[Current.inputs[k]]) = Lines(Inputs[k]) /\ Lines(Inputs[k]) \in Nat
           /\ pos <= lastUse[Inputs[k]] /\ pos <= LastUse(code, Current.inputs[k])
  <1> DEFINE v == Current.inputs[k]
  <1>1. v \in Values /\ Inputs[k] = objectOf[v] /\ objectOf[v] \in 1 .. Len(shapes) /\ objectOf[v] # None
    BY OperandObjects, NoneAssumption
  <1>2. pos <= LastUse(code, v)
    <2>1. v \in Range(Current.inputs)
      BY DEF Range
    <2> HIDE DEF v
    <2> QED
      BY <2>1, CurrentOperation, LastUseBounds DEF Current
  <1>3. LastUse(code, v) \in Nat /\ pos \in Nat
    <2> HIDE DEF v
    <2> QED
      BY CurrentOperation, LastUseBounds
  <1>4. LastUse(code, v) <= lastUse[objectOf[v]] /\ contents[objectOf[v]] = values[v]
    <2> HIDE DEF v
    <2> QED
      BY <1>1, <1>2, <1>3 DEF IInv, LongEnough, Agree
  <1>5. lastUse[objectOf[v]] \in Nat /\ Lines(objectOf[v]) \in Nat
    <2>1. \A o \in 1 .. Len(shapes) : lastUse[o] \in Nat /\ shapes[o].lines \in Nat
      <3>1. shapes \in Seq(Shapes) /\ lastUse \in Seq(Nat) /\ Len(lastUse) = Len(shapes)
        BY DEF IInv, Types
      <3>2. \A o \in 1 .. Len(shapes) : shapes[o] \in Shapes /\ lastUse[o] \in Nat
        BY <3>1
      <3> QED
        BY <3>2 DEF Shapes
    <2> HIDE DEF v
    <2> QED
      BY <1>1, <2>1 DEF Lines
  <1>6. IsTuple(values[v]) /\ Len(values[v]) = Lines(objectOf[v])
    <2> HIDE DEF v
    <2> QED
      BY <1>1 DEF IInv, Lengths
  <1> HIDE DEF v
  <1>7. pos <= lastUse[objectOf[v]]
    BY <1>2, <1>3, <1>4, <1>5
  <1>8. QED
    BY <1>1, <1>2, <1>4, <1>5, <1>6, <1>7 DEF v

\* The checks give operations the operands and results that they need.
LEMMA StoreOperands ==
    ASSUME NEW i, i.op = "store", Len(i.inputs) \in Operands(i)
    PROVE  Len(i.inputs) = 1
  BY DEF Operands

LEMMA StageOperands ==
    ASSUME NEW i, i.op = "stage", Len(i.inputs) \in Operands(i), i.tied = TiedInput(i)
    PROVE  Len(i.inputs) = 2 /\ i.tied = 1
  <1>1. Len(i.inputs) = 2
    BY DEF Operands
  <1>2. i.tied = 1
    BY DEF TiedInput
  <1> QED
    BY <1>1, <1>2

LEMMA ArithOperands ==
    ASSUME NEW i, i.op = "arith", Len(i.inputs) \in Operands(i), i.tied = TiedInput(i)
    PROVE  Len(i.inputs) \in {1, 2} /\ i.tied = None
  <1>1. Len(i.inputs) \in {1, 2}
    BY DEF Operands
  <1>2. i.tied = None
    BY DEF TiedInput
  <1> QED
    BY <1>1, <1>2

LEMMA MacOperands ==
    ASSUME NEW i, i.op = "mac", Len(i.inputs) \in Operands(i), i.tied = TiedInput(i)
    PROVE  Len(i.inputs) \in {2, 3} /\ i.tied = Len(i.inputs)
  <1>1. Len(i.inputs) \in {2, 3}
    BY DEF Operands
  <1>2. i.tied = Len(i.inputs)
    BY DEF TiedInput
  <1> QED
    BY <1>1, <1>2

LEMMA Arities ==
    ASSUME NEW i, i.inputs \in Seq(Values), Len(i.inputs) \in Operands(i), i.tied = TiedInput(i)
    PROVE  /\ i.op = "store" => 1 \in DOMAIN i.inputs
           /\ Computes(i) => 1 \in DOMAIN i.inputs /\ (i.tied # None => i.tied \in DOMAIN i.inputs)
  <1>1. DOMAIN i.inputs = 1 .. Len(i.inputs) /\ Len(i.inputs) \in Nat
    OBVIOUS
  <1>2. CASE i.op = "store"
    <2>1. Len(i.inputs) = 1
      BY <1>2, StoreOperands
    <2>2. ~ Computes(i)
      BY <1>2 DEF Computes
    <2> QED
      BY <1>1, <2>1, <2>2
  <1>3. CASE i.op = "arith"
    BY <1>1, <1>3, ArithOperands
  <1>4. CASE i.op = "stage"
    BY <1>1, <1>4, StageOperands
  <1>5. CASE i.op = "mac"
    BY <1>1, <1>5, MacOperands
  <1>6. Computes(i) => i.op = "arith" \/ i.op = "stage" \/ i.op = "mac"
    BY DEF Computes
  <1>7. i.op = "store" => 1 \in DOMAIN i.inputs
    BY <1>2
  <1> QED
    BY <1>3, <1>4, <1>5, <1>6, <1>7

LEMMA Arity ==
    ASSUME IInv, Importing
    PROVE  /\ Computes(Current) \/ Current.op = "store" => 1 \in DOMAIN Current.inputs
           /\ Computes(Current) /\ Current.tied # None => Current.tied \in DOMAIN Current.inputs
           /\ Computes(Current) \/ Current.op = "load" => Current.output \in Values
           /\ ~ (Computes(Current) \/ Current.op = "load") => Current.output = None
           /\ Current.op = "store" => Cells(Current) \cap ReadOnly = {}
  <1>1. pos \in DOMAIN code /\ Current \in SsaOperations
    BY CurrentOperation
  <1>2. /\ Len(Current.inputs) \in Operands(Current) /\ Current.tied = TiedInput(Current)
        /\ (Current.output # None) = (Computes(Current) \/ Current.op = "load")
        /\ Current.op = "store" => Cells(Current) \cap ReadOnly = {}
    BY <1>1, CurrentOperation DEF WellFormed, Current, Cells
  <1>3. Current.inputs \in Seq(Values) /\ Current.output \in Values \cup {None}
    BY <1>1 DEF SsaOperations
  <1>4. /\ Current.op = "store" => 1 \in DOMAIN Current.inputs
        /\ Computes(Current) => /\ 1 \in DOMAIN Current.inputs
                                /\ Current.tied # None => Current.tied \in DOMAIN Current.inputs
    BY <1>2, <1>3, Arities
  <1> QED
    BY <1>2, <1>3, <1>4

-----------------------------------------------------------------------------
(* What the steps have in common.                                          *)

\* What the source program does in a step.
LEMMA SourceStep ==
    ASSUME IInv, Importing, Step
    PROVE  /\ code' = code /\ optimized' = optimized /\ status' = status
           /\ pos' = pos + 1 /\ pos' \in Nat \ {0}
           /\ values' = [v \in Values |-> values'[v]]
           /\ \A v \in Values : v # Current.output => values'[v] = values[v]
           /\ Current.output \in Values => values'[Current.output] = OutputContents(Current, pos, values, memory)
           /\ Current.op # "store" => memory' = memory
           /\ memory' = [cell \in ImageCells |-> memory'[cell]]
  <1>1. code' = code /\ optimized' = optimized /\ status' = status /\ pos' = pos + 1
    BY DEF Step
  <1>2. pos' \in Nat \ {0}
    BY <1>1 DEF IInv, Types
  <1>3. values = [v \in Values |-> values[v]] /\ memory = [cell \in ImageCells |-> memory[cell]]
    BY DEF IInv, Types
  <1>4. values' = ValuesAfter(Current, pos, values, memory) /\ memory' = MemoryAfter(Current, values, memory)
    BY DEF Step
  <1>5. Current.op # "store" => memory' = memory
    BY <1>4 DEF MemoryAfter
  <1>6. memory' = [cell \in ImageCells |-> memory'[cell]]
    <2>1. CASE Current.op # "store"
      BY <1>3, <1>5, <2>1
    <2>2. CASE Current.op = "store"
      <3>1. DOMAIN memory = ImageCells
        BY <1>3
      <3> QED
        BY <1>4, <2>2, <3>1 DEF MemoryAfter, Written
    <2> QED
      BY <2>1, <2>2
  <1>7. /\ values' = [v \in Values |-> values'[v]]
        /\ \A v \in Values : v # Current.output => values'[v] = values[v]
        /\ Current.output \in Values => values'[Current.output] = OutputContents(Current, pos, values, memory)
    <2>1. CASE Current.output = None
      BY <1>3, <1>4, <2>1, NoneAssumption DEF ValuesAfter
    <2>2. CASE Current.output # None
      <3> DEFINE new == OutputContents(Current, pos, values, memory)
      <3>1. values' = [values EXCEPT ![Current.output] = new]
        BY <1>4, <2>2 DEF ValuesAfter
      <3> HIDE DEF new
      <3>2. DOMAIN values = Values
        BY <1>3
      <3> QED
        BY <3>1, <3>2 DEF new
    <2> QED
      BY <2>1, <2>2
  <1> QED
    BY <1>1, <1>2, <1>5, <1>6, <1>7

\* Objects have their shapes, uses and contents.
LEMMA ObjectTypes ==
    ASSUME IInv
    PROVE  /\ Len(shapes) \in Nat /\ DOMAIN shapes = 1 .. Len(shapes) /\ DOMAIN lastUse = 1 .. Len(shapes)
           /\ DOMAIN homes = 1 .. Len(shapes) /\ DOMAIN contents = 1 .. Len(shapes)
           /\ \A o \in 1 .. Len(shapes) : shapes[o] \in Shapes /\ lastUse[o] \in Nat /\ Lines(o) \in Nat
  <1>1. /\ shapes \in Seq(Shapes) /\ lastUse \in Seq(Nat) /\ IsTuple(homes) /\ IsTuple(contents)
        /\ Len(lastUse) = Len(shapes) /\ Len(homes) = Len(shapes) /\ Len(contents) = Len(shapes)
    BY DEF IInv, Types
  <1>2. DOMAIN homes = 1 .. Len(shapes) /\ DOMAIN contents = 1 .. Len(shapes)
    BY <1>1, TupleSeq
  <1>3. /\ Len(shapes) \in Nat /\ DOMAIN shapes = 1 .. Len(shapes) /\ DOMAIN lastUse = 1 .. Len(shapes)
        /\ \A o \in 1 .. Len(shapes) : shapes[o] \in Shapes /\ lastUse[o] \in Nat
    BY <1>1
  <1>4. \A o \in 1 .. Len(shapes) : Lines(o) \in Nat
    BY <1>3 DEF Lines, Shapes
  <1> QED
    BY <1>2, <1>3, <1>4

LEMMA DefinedStep ==
    ASSUME IInv, Importing, Step,
           \A v \in Values : objectOf[v] # None => objectOf'[v] # None,
           Current.output # None => objectOf'[Current.output] # None
    PROVE  Defined'
  <1>1. code' = code /\ pos' = pos + 1
    BY SourceStep
  <1> SUFFICES ASSUME NEW n \in DOMAIN code, n < pos + 1, code[n].output # None
               PROVE  objectOf'[code[n].output] # None
    BY <1>1 DEF Defined
  <1>2. DOMAIN code = 1 .. Len(code) /\ Len(code) \in Nat /\ pos \in 1 .. Len(code) /\ code[n] \in SsaOperations
    BY CurrentOperation
  <1>3. CASE n = pos
    BY <1>3 DEF Current
  <1>4. CASE n # pos
    <2>1. n < pos
      BY <1>2, <1>4
    <2>2. objectOf[code[n].output] # None
      BY <2>1 DEF IInv, Defined
    <2>3. code[n].output \in Values
      BY <1>2 DEF SsaOperations
    <2> QED
      BY <2>2, <2>3
  <1> QED
    BY <1>3, <1>4

\* An operation that is no store leaves deferred memory as it was.
LEMMA StaleStep ==
    ASSUME IInv, Importing, Step, ddr' = ddr, pending' = pending, Current.op # "store"
    PROVE  Stale'
  <1>1. code' = code /\ optimized' = optimized /\ pos' = pos + 1 /\ memory' = memory
    BY SourceStep
  <1>2. DOMAIN code = 1 .. Len(code) /\ Len(code) \in Nat /\ pos \in 1 .. Len(code)
    BY CurrentOperation
  <1> SUFFICES ASSUME NEW cell \in ImageCells, ddr[cell] # memory[cell]
               PROVE  /\ optimized /\ cell \in Workspace /\ cell \notin Required /\ cell \notin ReadOnly
                      /\ \A n \in DOMAIN code :
                            n >= pos + 1 /\ code[n].op = "load" /\ cell \in Cells(code[n]) =>
                               \/ \E m \in pos + 1 .. n - 1 : code[m].op = "store" /\ cell \in Cells(code[m])
                               \/ \E r \in pending : r.load = n
    BY <1>1 DEF Stale
  <1>3. /\ optimized /\ cell \in Workspace /\ cell \notin Required /\ cell \notin ReadOnly
        /\ \A n \in DOMAIN code :
              n >= pos /\ code[n].op = "load" /\ cell \in Cells(code[n]) =>
                 \/ \E m \in pos .. n - 1 : code[m].op = "store" /\ cell \in Cells(code[m])
                 \/ \E r \in pending : r.load = n
    BY DEF IInv, Stale
  <1>4. ASSUME NEW n \in DOMAIN code, n >= pos + 1, code[n].op = "load", cell \in Cells(code[n])
        PROVE  \/ \E m \in pos + 1 .. n - 1 : code[m].op = "store" /\ cell \in Cells(code[m])
               \/ \E r \in pending : r.load = n
    <2>1. n >= pos
      BY <1>2, <1>4
    <2>2. CASE \E r \in pending : r.load = n
      BY <2>2
    <2>3. CASE \E m \in pos .. n - 1 : code[m].op = "store" /\ cell \in Cells(code[m])
      <3>1. PICK m \in pos .. n - 1 : code[m].op = "store" /\ cell \in Cells(code[m])
        BY <2>3
      <3>2. m # pos
        BY <3>1 DEF Current
      <3>3. m \in pos + 1 .. n - 1
        BY <1>2, <3>2
      <3> QED
        BY <3>1, <3>3
    <2> QED
      BY <1>3, <1>4, <2>1, <2>2, <2>3
  <1> QED
    BY <1>3, <1>4

LEMMA KeptStep ==
    ASSUME IInv, Importing, Step, pending' = pending, Current.op # "store",
           Len(shapes') \in Nat, Len(shapes) <= Len(shapes'),
           \A r \in pending : r.load >= pos + 1 /\ r.object \in 1 .. Len(shapes) =>
               /\ lastUse[r.object] <= lastUse'[r.object] /\ lastUse'[r.object] \in Nat
               /\ contents'[r.object] = contents[r.object]
    PROVE  Kept'
  <1>1. code' = code /\ pos' = pos + 1 /\ memory' = memory
    BY SourceStep
  <1>2. DOMAIN code = 1 .. Len(code) /\ Len(code) \in Nat /\ pos \in 1 .. Len(code)
    BY CurrentOperation
  <1> SUFFICES ASSUME NEW r \in pending
               PROVE  /\ r.load \in DOMAIN code /\ r.object \in 1 .. Len(shapes') /\ code[r.load].op = "load"
                      /\ r.load >= pos + 1 =>
                            /\ r.load <= lastUse'[r.object]
                            /\ contents'[r.object] = Read(memory, code[r.load].range)
                            /\ \A n \in pos + 1 .. r.load - 1 :
                                  code[n].op = "store" => Cells(code[n]) \cap Cells(code[r.load]) = {}
    BY <1>1 DEF Kept
  <1>3. /\ r.load \in DOMAIN code /\ r.object \in 1 .. Len(shapes) /\ code[r.load].op = "load"
        /\ r.load >= pos =>
              /\ r.load <= lastUse[r.object]
              /\ contents[r.object] = Read(memory, code[r.load].range)
              /\ \A n \in pos .. r.load - 1 :
                    code[n].op = "store" => Cells(code[n]) \cap Cells(code[r.load]) = {}
    BY DEF IInv, Kept
  <1>4. Len(shapes) \in Nat /\ r.object \in 1 .. Len(shapes') /\ lastUse[r.object] \in Nat
    BY <1>3, ObjectTypes
  <1>5. CASE r.load >= pos + 1
    <2>1. r.load >= pos /\ r.load \in Nat /\ pos + 1 .. r.load - 1 \subseteq pos .. r.load - 1
      BY <1>2, <1>3, <1>5
    <2>2. /\ lastUse[r.object] <= lastUse'[r.object] /\ lastUse'[r.object] \in Nat
          /\ contents'[r.object] = contents[r.object]
      BY <1>3, <1>5
    <2>3. r.load <= lastUse'[r.object]
      BY <1>3, <1>4, <2>1, <2>2
    <2>4. \A n \in pos + 1 .. r.load - 1 : code[n].op = "store" => Cells(code[n]) \cap Cells(code[r.load]) = {}
      BY <1>3, <2>1
    <2> QED
      BY <1>3, <1>4, <2>1, <2>2, <2>3, <2>4
  <1> QED
    BY <1>3, <1>4, <1>5

\* A new object is the last one, and the others stay.
LEMMA NewObjectIs ==
    ASSUME IInv, Importing, Step, NEW shape, NEW home, NEW read, shape \in Shapes,
           NewObject(shape, home, read), Current.output \in Values
    PROVE  /\ shapes' \in Seq(Shapes) /\ lastUse' \in Seq(Nat) /\ IsTuple(homes') /\ IsTuple(contents')
           /\ Len(shapes') = Len(shapes) + 1 /\ Len(lastUse') = Len(shapes) + 1
           /\ Len(homes') = Len(shapes) + 1 /\ Len(contents') = Len(shapes) + 1
           /\ \A o \in 1 .. Len(shapes) :
                 /\ shapes'[o] = shapes[o] /\ lastUse'[o] = lastUse[o]
                 /\ homes'[o] = homes[o] /\ contents'[o] = contents[o]
           /\ shapes'[Len(shapes) + 1] = shape /\ lastUse'[Len(shapes) + 1] = LastUse(code, Current.output)
           /\ homes'[Len(shapes) + 1] = home /\ contents'[Len(shapes) + 1] = read
           /\ objectOf' \in [Values -> (1 .. Len(shapes) + 1) \cup {None}]
           /\ objectOf'[Current.output] = Len(shapes) + 1
           /\ \A v \in Values : v # Current.output => objectOf'[v] = objectOf[v]
  <1>1. /\ shapes \in Seq(Shapes) /\ lastUse \in Seq(Nat) /\ IsTuple(homes) /\ IsTuple(contents)
        /\ Len(lastUse) = Len(shapes) /\ Len(homes) = Len(shapes) /\ Len(contents) = Len(shapes)
        /\ objectOf \in [Values -> (1 .. Len(shapes)) \cup {None}]
    BY DEF IInv, Types
  <1>2. LastUse(code, Current.output) \in Nat /\ Len(shapes) \in Nat
    <2>1. LastUse(code, Current.output) \in 0 .. Len(code) /\ Len(code) \in Nat
      BY CurrentOperation, LastUseBounds
    <2> QED
      BY <1>1, <2>1
  <1>3. /\ shapes' = Append(shapes, shape) /\ homes' = Append(homes, home) /\ contents' = Append(contents, read)
        /\ lastUse' = Append(lastUse, LastUse(code, Current.output))
        /\ objectOf' = [objectOf EXCEPT ![Current.output] = Len(shapes) + 1]
    BY DEF NewObject
  <1>4. /\ shapes' \in Seq(Shapes) /\ Len(shapes') = Len(shapes) + 1
        /\ shapes'[Len(shapes) + 1] = shape /\ \A o \in 1 .. Len(shapes) : shapes'[o] = shapes[o]
    BY <1>1, <1>3, AppendProperties
  <1>5. /\ lastUse' \in Seq(Nat) /\ Len(lastUse') = Len(shapes) + 1
        /\ lastUse'[Len(shapes) + 1] = LastUse(code, Current.output)
        /\ \A o \in 1 .. Len(shapes) : lastUse'[o] = lastUse[o]
    BY <1>1, <1>2, <1>3, AppendProperties
  <1>6. /\ IsTuple(homes') /\ Len(homes') = Len(shapes) + 1 /\ homes'[Len(shapes) + 1] = home
        /\ \A o \in 1 .. Len(shapes) : homes'[o] = homes[o]
    BY <1>1, <1>3, TupleAppend
  <1>7. /\ IsTuple(contents') /\ Len(contents') = Len(shapes) + 1 /\ contents'[Len(shapes) + 1] = read
        /\ \A o \in 1 .. Len(shapes) : contents'[o] = contents[o]
    BY <1>1, <1>3, TupleAppend
  <1>8. /\ objectOf' \in [Values -> (1 .. Len(shapes) + 1) \cup {None}]
        /\ objectOf'[Current.output] = Len(shapes) + 1
        /\ \A v \in Values : v # Current.output => objectOf'[v] = objectOf[v]
    BY <1>1, <1>2, <1>3
  <1> QED
    BY <1>4, <1>5, <1>6, <1>7, <1>8

\* A new object that holds what its value is keeps the invariant.
LEMMA NewObjectSafe ==
    ASSUME IInv, Importing, Step, NEW shape, NEW home, NEW read, shape \in Shapes,
           NewObject(shape, home, read), Current.output \in Values,
           pending' = pending, ddr' = ddr, Current.op # "store",
           IsTuple(read), Len(read) = shape.lines, values'[Current.output] = read,
           home # None => home \in Views /\ Read(ddr, home) = read
    PROVE  IInv'
  <1> DEFINE new == Len(shapes) + 1
  <1>1. /\ shapes' \in Seq(Shapes) /\ lastUse' \in Seq(Nat) /\ IsTuple(homes') /\ IsTuple(contents')
        /\ Len(shapes') = new /\ Len(lastUse') = new /\ Len(homes') = new /\ Len(contents') = new
        /\ \A o \in 1 .. Len(shapes) :
              /\ shapes'[o] = shapes[o] /\ lastUse'[o] = lastUse[o]
              /\ homes'[o] = homes[o] /\ contents'[o] = contents[o]
        /\ shapes'[new] = shape /\ lastUse'[new] = LastUse(code, Current.output)
        /\ homes'[new] = home /\ contents'[new] = read
        /\ objectOf' \in [Values -> (1 .. new) \cup {None}]
        /\ objectOf'[Current.output] = new
        /\ \A v \in Values : v # Current.output => objectOf'[v] = objectOf[v]
    BY NewObjectIs
  <1>2. /\ code' = code /\ optimized' = optimized /\ status' = status
        /\ pos' = pos + 1 /\ pos' \in Nat \ {0} /\ memory' = memory
        /\ values' = [v \in Values |-> values'[v]] /\ memory' = [cell \in ImageCells |-> memory'[cell]]
        /\ \A v \in Values : v # Current.output => values'[v] = values[v]
    BY SourceStep
  <1>3. /\ Len(shapes) \in Nat /\ new \in Nat /\ new # None /\ new \notin 1 .. Len(shapes)
        /\ \A o \in 1 .. new : o \in 1 .. Len(shapes) \/ o = new
        /\ \A o \in 1 .. Len(shapes) : o # None
    BY ObjectTypes, NoneAssumption
  <1> HIDE DEF new
  <1>4. \A v \in Values :
           /\ objectOf[v] # None => objectOf[v] \in 1 .. Len(shapes)
           /\ v # Current.output /\ objectOf'[v] # None => objectOf'[v] = objectOf[v] /\ objectOf[v] \in 1 .. Len(shapes)
    BY <1>1 DEF IInv, Types
  <1>5. Types'
    BY <1>1, <1>2 DEF IInv, Types
  <1>6. shapes'[new].lines = Len(read)
    BY <1>1
  <1>7. \A o \in 1 .. Len(shapes) : IsTuple(contents[o]) /\ Len(contents[o]) = shapes[o].lines
    BY DEF IInv, Lengths, Lines
  <1>8. Lengths'
    <2>1. \A o \in 1 .. new : IsTuple(contents'[o]) /\ Len(contents'[o]) = shapes'[o].lines
      BY <1>1, <1>3, <1>6, <1>7
    <2>2. ASSUME NEW v \in Values, objectOf'[v] # None
          PROVE  IsTuple(values'[v]) /\ Len(values'[v]) = shapes'[objectOf'[v]].lines
      <3>1. CASE v = Current.output
        BY <1>1, <1>6, <3>1
      <3>2. CASE v # Current.output
        <4>1. objectOf'[v] = objectOf[v] /\ objectOf[v] \in 1 .. Len(shapes) /\ values'[v] = values[v] /\ objectOf[v] # None
          BY <1>2, <1>4, <2>2, <3>2
        <4>2. IsTuple(values[v]) /\ Len(values[v]) = shapes[objectOf[v]].lines
          BY <4>1 DEF IInv, Lengths, Lines
        <4>3. shapes'[objectOf[v]] = shapes[objectOf[v]]
          BY <1>1, <4>1
        <4> QED
          BY <4>1, <4>2, <4>3
      <3> QED
        BY <3>1, <3>2
    <2> QED
      BY <1>1, <2>1, <2>2 DEF Lengths, Lines
  <1>9. Defined'
    <2>1. \A v \in Values : objectOf[v] # None => objectOf'[v] # None
      BY <1>1, <1>3
    <2> QED
      BY <1>1, <1>3, <2>1, DefinedStep
  <1>10. LongEnough'
    <2>1. \A v \in Values : objectOf'[v] # None => LastUse(code, v) <= lastUse'[objectOf'[v]]
      <3> SUFFICES ASSUME NEW v \in Values, objectOf'[v] # None
                   PROVE  LastUse(code, v) <= lastUse'[objectOf'[v]]
        OBVIOUS
      <3>1. LastUse(code, v) \in 0 .. Len(code) /\ Len(code) \in Nat
        BY CurrentOperation, LastUseBounds
      <3>2. CASE v = Current.output
        BY <1>1, <3>1, <3>2
      <3>3. CASE v # Current.output
        BY <1>1, <1>4, <3>3 DEF IInv, LongEnough
      <3> QED
        BY <3>2, <3>3
    <2> QED
      BY <1>2, <2>1 DEF LongEnough
  <1>11. Agree'
    <2> SUFFICES ASSUME NEW v \in Values, objectOf'[v] # None, LastUse(code, v) >= pos + 1
                 PROVE  contents'[objectOf'[v]] = values'[v]
      BY <1>2 DEF Agree
    <2>1. CASE v = Current.output
      BY <1>1, <2>1
    <2>2. CASE v # Current.output
      <3>1. LastUse(code, v) \in 0 .. Len(code) /\ Len(code) \in Nat /\ pos \in Nat
        BY CurrentOperation, LastUseBounds
      <3>2. LastUse(code, v) >= pos
        BY <3>1
      <3> QED
        BY <1>1, <1>2, <1>4, <2>2, <3>2 DEF IInv, Agree
    <2> QED
      BY <2>1, <2>2
  <1>12. Kept'
    <2>1. Len(shapes') \in Nat /\ Len(shapes) <= Len(shapes')
      BY <1>1, <1>3 DEF new
    <2>2. \A o \in 1 .. Len(shapes) :
             lastUse[o] <= lastUse'[o] /\ lastUse'[o] \in Nat /\ contents'[o] = contents[o]
      BY <1>1, ObjectTypes
    <2> QED
      BY <2>1, <2>2, KeptStep
  <1>13. HomesAgree'
    BY <1>1, <1>3 DEF IInv, HomesAgree
  <1>14. Stale'
    BY StaleStep
  <1> QED
    BY <1>5, <1>8, <1>9, <1>10, <1>11, <1>12, <1>13, <1>14 DEF IInv

-----------------------------------------------------------------------------
(* The actions.                                                            *)

LEMMA ReadTuple ==
    ASSUME NEW cells, NEW range \in Views
    PROVE  IsTuple(Read(cells, range)) /\ Len(Read(cells, range)) = Len(range)
  <1> DEFINE f == Read(cells, range)
  <1>1. Len(range) \in Nat /\ DOMAIN range = 1 .. Len(range)
    BY DEF Views
  <1>2. f = [k \in 1 .. Len(range) |-> f[k]]
    BY <1>1 DEF Read
  <1> HIDE DEF f
  <1>3. IsTuple(f) /\ Len(f) = Len(range)
    BY <1>1, <1>2, TupleOf
  <1> QED
    BY <1>3 DEF f

\* Two memories that agree on a range read the same from it.
LEMMA SameRead ==
    ASSUME NEW range, NEW a, NEW b, \A cell \in Range(range) : a[cell] = b[cell]
    PROVE  Read(a, range) = Read(b, range)
  <1>1. \A k \in DOMAIN range : a[range[k]] = b[range[k]]
    BY DEF Range
  <1> QED
    BY <1>1 DEF Read

\* A load that nothing was kept for finds in memory what the program left there.
LEMMA LoadFindsMemory ==
    ASSUME IInv, Importing, Current.op = "load", Awaited = {} \/ ~ optimized
    PROVE  Read(ddr, Current.range) = Read(memory, Current.range)
  <1>1. pos \in DOMAIN code /\ pos \in Nat /\ Current.range \in Views
    BY CurrentOperation DEF SsaOperations
  <1>2. ASSUME NEW cell \in Cells(Current)
        PROVE  ddr[cell] = memory[cell]
    <2>1. cell \in ImageCells
      <3>1. Current.range \in Seq(ImageCells)
        BY <1>1 DEF Views
      <3> QED
        BY <3>1 DEF Cells, Range
    <2>2. ~ \E m \in pos .. pos - 1 : TRUE
      BY <1>1
    <2>3. Awaited = {} => ~ \E r \in pending : r.load = pos
      BY DEF Awaited
    <2> SUFFICES ASSUME ddr[cell] # memory[cell]
                 PROVE  FALSE
      OBVIOUS
    <2>4. optimized /\ \A n \in DOMAIN code :
              n >= pos /\ code[n].op = "load" /\ cell \in Cells(code[n]) =>
                 \/ \E m \in pos .. n - 1 : code[m].op = "store" /\ cell \in Cells(code[m])
                 \/ \E r \in pending : r.load = n
      BY <2>1 DEF IInv, Stale
    <2> QED
      BY <1>1, <2>2, <2>3, <2>4 DEF Current
  <1>3. \A cell \in Range(Current.range) : ddr[cell] = memory[cell]
    BY <1>2 DEF Cells
  <1> QED
    BY <1>3, SameRead

LEMMA LoadSafe == IInv /\ Load => IInv'
  <1> SUFFICES ASSUME IInv, Load
               PROVE  IInv'
    OBVIOUS
  <1> DEFINE read == Read(ddr, Current.range)
             shape == Shape(Len(Current.range), Current.kind)
  <1>1. /\ Importing /\ Current.op = "load" /\ Awaited = {} /\ Step
        /\ NewObject(shape, Current.range, read) /\ pending' = pending /\ ddr' = ddr
    BY DEF Load
  <1>2. Current \in SsaOperations /\ Current.range \in Views /\ Current.kind \in Kinds
    BY <1>1, CurrentOperation DEF SsaOperations
  <1>3. IsTuple(read) /\ Len(read) = Len(Current.range)
    BY <1>2, ReadTuple
  <1>4. shape \in Shapes /\ shape.lines = Len(Current.range)
    <2>1. Len(Current.range) \in Nat
      BY <1>2 DEF Views
    <2> QED
      BY <1>2, <2>1 DEF Shape, Shapes
  <1>5. Current.output \in Values
    BY <1>1, Arity
  <1>6. values'[Current.output] = read
    <2>1. values'[Current.output] = OutputContents(Current, pos, values, memory)
      BY <1>1, <1>5, SourceStep
    <2> QED
      BY <1>1, <2>1, LoadFindsMemory DEF OutputContents
  <1> HIDE DEF shape, read
  <1> QED
    BY <1>1, <1>2, <1>3, <1>4, <1>5, <1>6, NewObjectSafe DEF read

\* A kernel computes from the objects what the source program does from values.
LEMMA KernelResult ==
    ASSUME IInv, Importing, Computes(Current), Step
    PROVE  /\ Current.output \in Values /\ values'[Current.output] = OnObjects
           /\ IsTuple(OnObjects) /\ Len(OnObjects) = Lines(Inputs[1])
           /\ Inputs[1] \in 1 .. Len(shapes)
           /\ Current.op # "store" /\ Current.op # "load" /\ Current.op # "free"
  <1>1. Current.op # "store" /\ Current.op # "load" /\ Current.op # "free"
    BY DEF Computes
  <1>2. Current.output \in Values /\ 1 \in DOMAIN Current.inputs
    BY Arity
  <1>3. Inputs[1] \in 1 .. Len(shapes) /\ DOMAIN Inputs = DOMAIN Current.inputs
    BY <1>2, OperandObjects
  <1>4. \A k \in DOMAIN Current.inputs : contents[Inputs[k]] = values[Current.inputs[k]]
    BY <1>1, OperandsHeld
  <1>5. Len(values[Current.inputs[1]]) = Lines(Inputs[1]) /\ Lines(Inputs[1]) \in Nat
    BY <1>1, <1>2, OperandsHeld
  <1>6. [k \in DOMAIN Inputs |-> contents[Inputs[k]]] = [k \in DOMAIN Current.inputs |-> values[Current.inputs[k]]]
    BY <1>3, <1>4
  <1>7. OutputContents(Current, pos, values, memory) = OnObjects
    BY <1>1, <1>5, <1>6 DEF OutputContents, OnObjects, Computed
  <1>8. values'[Current.output] = OnObjects
    BY <1>2, <1>7, SourceStep
  <1>9. IsTuple(OnObjects) /\ Len(OnObjects) = Lines(Inputs[1])
    <2> DEFINE n == Lines(Inputs[1])
               f == OnObjects
    <2>1. f = [k \in 1 .. n |-> f[k]]
      BY DEF OnObjects, Computed, Result
    <2>2. n \in Nat
      BY <1>5
    <2> HIDE DEF n, f
    <2>3. IsTuple(f) /\ Len(f) = n
      BY <2>1, <2>2, TupleOf
    <2> QED
      BY <2>3 DEF f, n
  <1> QED
    BY <1>1, <1>2, <1>3, <1>8, <1>9

LEMMA KernelToNewSafe == IInv /\ KernelToNew => IInv'
  <1> SUFFICES ASSUME IInv, KernelToNew
               PROVE  IInv'
    OBVIOUS
  <1> DEFINE shape == Shape(Lines(Inputs[1]), [shapes[Inputs[1]].kind EXCEPT !.mask = {}])
  <1>1. /\ Importing /\ Computes(Current) /\ Step
        /\ NewObject(shape, None, OnObjects) /\ pending' = pending /\ ddr' = ddr
    BY DEF KernelToNew
  <1>2. /\ Current.output \in Values /\ values'[Current.output] = OnObjects
        /\ IsTuple(OnObjects) /\ Len(OnObjects) = Lines(Inputs[1])
        /\ Inputs[1] \in 1 .. Len(shapes) /\ Current.op # "store"
    BY <1>1, KernelResult
  <1>3. shape \in Shapes /\ shape.lines = Lines(Inputs[1])
    <2>1. shapes[Inputs[1]] \in Shapes /\ Lines(Inputs[1]) \in Nat
      BY <1>2, ObjectTypes
    <2>2. shapes[Inputs[1]].kind \in Kinds
      BY <2>1 DEF Shapes
    <2>3. [shapes[Inputs[1]].kind EXCEPT !.mask = {}] \in Kinds
      BY <2>2 DEF Kinds
    <2> QED
      BY <2>1, <2>3 DEF Shape, Shapes
  <1> HIDE DEF shape
  <1> QED
    BY <1>1, <1>2, <1>3, NewObjectSafe

\* A copy is what the tied input holds, wherever it is read from.
LEMMA CopyHolds ==
    ASSUME IInv, Importing, Computes(Current), Current.tied # None
    PROVE  Copy = contents[Tied] /\ Tied \in 1 .. Len(shapes)
  <1>1. Tied \in 1 .. Len(shapes)
    BY Arity, OperandObjects DEF Tied
  <1>2. homes[Tied] # None /\ Range(homes[Tied]) \subseteq ReadOnly => contents[Tied] = Read(ddr, homes[Tied])
    BY <1>1 DEF IInv, HomesAgree
  <1> QED
    BY <1>1, <1>2 DEF Copy

LEMMA KernelOnCopySafe == IInv /\ KernelOnCopy => IInv'
  <1> SUFFICES ASSUME IInv, KernelOnCopy
               PROVE  IInv'
    OBVIOUS
  <1> DEFINE operands == [k \in DOMAIN Inputs |-> IF k = Current.tied THEN Copy ELSE contents[Inputs[k]]]
  <1>1. /\ Importing /\ Computes(Current) /\ Current.tied # None /\ Step
        /\ NewObject(shapes[Inputs[1]], None, Computed(operands)) /\ pending' = pending /\ ddr' = ddr
    BY DEF KernelOnCopy
  <1>2. /\ Current.output \in Values /\ values'[Current.output] = OnObjects
        /\ IsTuple(OnObjects) /\ Len(OnObjects) = Lines(Inputs[1])
        /\ Inputs[1] \in 1 .. Len(shapes) /\ Current.op # "store"
    BY <1>1, KernelResult
  <1>3. operands = [k \in DOMAIN Inputs |-> contents[Inputs[k]]]
    BY <1>1, CopyHolds DEF Tied
  <1>4. Computed(operands) = OnObjects
    BY <1>3 DEF OnObjects
  <1>5. shapes[Inputs[1]] \in Shapes /\ shapes[Inputs[1]].lines = Lines(Inputs[1])
    BY <1>2, ObjectTypes DEF Lines
  <1> HIDE DEF operands
  <1> QED
    BY <1>1, <1>2, <1>4, <1>5, NewObjectSafe

LEMMA LargerOf ==
    ASSUME NEW a \in Nat, NEW b \in Nat
    PROVE  Larger(a, b) \in Nat /\ a <= Larger(a, b) /\ b <= Larger(a, b)
  BY DEF Larger

LEMMA SeqExcept ==
    ASSUME NEW S, NEW s \in Seq(S), NEW o \in 1 .. Len(s), NEW x \in S
    PROVE  /\ [s EXCEPT ![o] = x] \in Seq(S) /\ Len([s EXCEPT ![o] = x]) = Len(s)
           /\ [s EXCEPT ![o] = x][o] = x
           /\ \A k \in 1 .. Len(s) : k # o => [s EXCEPT ![o] = x][k] = s[k]
  OBVIOUS

\* An object that takes on another value keeps the invariant if it holds that
\* value and lost nothing that is still needed.
LEMMA SharedObjectSafe ==
    ASSUME IInv, Importing, Step, Current.output \in Values, Current.op # "store",
           NEW o \in 1 .. Len(shapes), NEW home, NEW read,
           contents' = [contents EXCEPT ![o] = read],
           objectOf' = [objectOf EXCEPT ![Current.output] = o],
           lastUse' = [lastUse EXCEPT ![o] = Larger(lastUse[o], LastUse(code, Current.output))],
           homes' = [homes EXCEPT ![o] = home],
           shapes' = shapes, pending' = pending, ddr' = ddr,
           IsTuple(read), Len(read) = Lines(o), values'[Current.output] = read,
           home # None => home \in Views /\ (Range(home) \subseteq ReadOnly => Read(ddr, home) = read),
           read = contents[o] \/ lastUse[o] <= pos
    PROVE  IInv'
  <1>1. /\ shapes \in Seq(Shapes) /\ lastUse \in Seq(Nat) /\ IsTuple(homes) /\ IsTuple(contents)
        /\ Len(lastUse) = Len(shapes) /\ Len(homes) = Len(shapes) /\ Len(contents) = Len(shapes)
        /\ objectOf \in [Values -> (1 .. Len(shapes)) \cup {None}]
    BY DEF IInv, Types
  <1>2. /\ code' = code /\ optimized' = optimized /\ status' = status
        /\ pos' = pos + 1 /\ pos' \in Nat \ {0} /\ memory' = memory
        /\ values' = [v \in Values |-> values'[v]] /\ memory' = [cell \in ImageCells |-> memory'[cell]]
        /\ \A v \in Values : v # Current.output => values'[v] = values[v]
    BY SourceStep
  <1>3. /\ LastUse(code, Current.output) \in Nat /\ Len(shapes) \in Nat /\ pos \in Nat
        /\ \A k \in 1 .. Len(shapes) : lastUse[k] \in Nat /\ k # None
    <2>1. LastUse(code, Current.output) \in 0 .. Len(code) /\ Len(code) \in Nat /\ pos \in Nat
      BY CurrentOperation, LastUseBounds
    <2> QED
      BY <2>1, ObjectTypes, NoneAssumption
  <1>4. /\ IsTuple(contents') /\ Len(contents') = Len(shapes) /\ contents'[o] = read
        /\ \A k \in 1 .. Len(shapes) : k # o => contents'[k] = contents[k]
    <2>1. Len(contents) = Len(shapes) /\ DOMAIN contents = 1 .. Len(shapes) /\ contents' = [contents EXCEPT ![o] = read]
      BY <1>1, TupleSeq
    <2>2. contents' = [k \in 1 .. Len(shapes) |-> contents'[k]]
      BY <2>1
    <2>3. IsTuple(contents') /\ Len(contents') = Len(shapes)
      BY <1>3, <2>2, TupleOf
    <2> QED
      BY <2>1, <2>3
  <1>5. /\ IsTuple(homes') /\ Len(homes') = Len(shapes) /\ homes'[o] = home
        /\ \A k \in 1 .. Len(shapes) : k # o => homes'[k] = homes[k]
    <2>1. Len(homes) = Len(shapes) /\ DOMAIN homes = 1 .. Len(shapes) /\ homes' = [homes EXCEPT ![o] = home]
      BY <1>1, TupleSeq
    <2>2. homes' = [k \in 1 .. Len(shapes) |-> homes'[k]]
      BY <2>1
    <2>3. IsTuple(homes') /\ Len(homes') = Len(shapes)
      BY <1>3, <2>2, TupleOf
    <2> QED
      BY <2>1, <2>3
  <1>6. /\ lastUse' \in Seq(Nat) /\ Len(lastUse') = Len(shapes)
        /\ LastUse(code, Current.output) <= lastUse'[o]
        /\ \A k \in 1 .. Len(shapes) : lastUse[k] <= lastUse'[k] /\ lastUse'[k] \in Nat
    <2> DEFINE longer == Larger(lastUse[o], LastUse(code, Current.output))
    <2>1. longer \in Nat /\ lastUse[o] <= longer /\ LastUse(code, Current.output) <= longer
      BY <1>3, LargerOf
    <2> HIDE DEF longer
    <2>2. lastUse' = [lastUse EXCEPT ![o] = longer]
      BY DEF longer
    <2>3. o \in 1 .. Len(lastUse)
      BY <1>1
    <2>4. /\ lastUse' \in Seq(Nat) /\ Len(lastUse') = Len(shapes) /\ lastUse'[o] = longer
          /\ \A k \in 1 .. Len(shapes) : k # o => lastUse'[k] = lastUse[k]
      BY <1>1, <2>1, <2>2, <2>3, SeqExcept
    <2>5. \A k \in 1 .. Len(shapes) : lastUse[k] <= lastUse'[k] /\ lastUse'[k] \in Nat
      BY <1>3, <2>1, <2>4
    <2> QED
      BY <2>1, <2>4, <2>5
  <1>7. /\ objectOf' \in [Values -> (1 .. Len(shapes)) \cup {None}] /\ objectOf'[Current.output] = o
        /\ \A v \in Values : v # Current.output => objectOf'[v] = objectOf[v]
    BY <1>1
  <1>8. Types'
    BY <1>1, <1>2, <1>4, <1>5, <1>6, <1>7 DEF IInv, Types
  <1>9. Lengths'
    <2>1. /\ \A k \in 1 .. Len(shapes) : IsTuple(contents[k]) /\ Len(contents[k]) = shapes[k].lines
          /\ \A v \in Values : objectOf[v] # None => IsTuple(values[v]) /\ Len(values[v]) = shapes[objectOf[v]].lines
          /\ Len(read) = shapes[o].lines
      BY DEF IInv, Lengths, Lines
    <2>2. \A k \in 1 .. Len(shapes) : IsTuple(contents'[k]) /\ Len(contents'[k]) = shapes[k].lines
      BY <1>4, <2>1
    <2>3. \A v \in Values : objectOf'[v] # None => IsTuple(values'[v]) /\ Len(values'[v]) = shapes[objectOf'[v]].lines
      BY <1>2, <1>7, <2>1
    <2> QED
      BY <2>2, <2>3 DEF Lengths, Lines
  <1>10. Defined'
    <2>1. o # None
      BY <1>3
    <2>2. \A v \in Values : objectOf[v] # None => objectOf'[v] # None
      BY <1>7, <2>1
    <2> QED
      BY <1>7, <2>1, <2>2, DefinedStep
  <1>11. LongEnough'
    <2> SUFFICES ASSUME NEW v \in Values, objectOf'[v] # None
                 PROVE  LastUse(code, v) <= lastUse'[objectOf'[v]]
      BY <1>2 DEF LongEnough
    <2>1. CASE v = Current.output
      BY <1>6, <1>7, <2>1
    <2>2. CASE v # Current.output
      <3>1. objectOf'[v] = objectOf[v] /\ objectOf[v] \in 1 .. Len(shapes) /\ LastUse(code, v) <= lastUse[objectOf[v]]
        BY <1>1, <1>7, <2>2 DEF IInv, LongEnough
      <3>2. LastUse(code, v) \in 0 .. Len(code) /\ Len(code) \in Nat
        BY CurrentOperation, LastUseBounds
      <3> QED
        BY <1>3, <1>6, <3>1, <3>2
    <2> QED
      BY <2>1, <2>2
  <1>12. Agree'
    <2> SUFFICES ASSUME NEW v \in Values, objectOf'[v] # None, LastUse(code, v) >= pos + 1
                 PROVE  contents'[objectOf'[v]] = values'[v]
      BY <1>2 DEF Agree
    <2>1. CASE v = Current.output
      BY <1>4, <1>7, <2>1
    <2>2. CASE v # Current.output
      <3>1. LastUse(code, v) \in 0 .. Len(code) /\ Len(code) \in Nat
        BY CurrentOperation, LastUseBounds
      <3>2. /\ objectOf'[v] = objectOf[v] /\ objectOf[v] \in 1 .. Len(shapes) /\ objectOf[v] # None
            /\ LastUse(code, v) <= lastUse[objectOf[v]] /\ values'[v] = values[v]
        BY <1>1, <1>2, <1>7, <2>2 DEF IInv, LongEnough
      <3>3. contents[objectOf[v]] = values[v]
        <4>1. LastUse(code, v) >= pos
          BY <1>3, <3>1
        <4> QED
          BY <3>2, <4>1 DEF IInv, Agree
      <3>4. CASE objectOf[v] # o
        BY <1>4, <3>2, <3>3, <3>4
      <3>5. CASE objectOf[v] = o
        <4>1. ~ (lastUse[o] <= pos)
          BY <1>3, <3>1, <3>2, <3>5
        <4> QED
          BY <1>4, <3>2, <3>3, <3>5, <4>1
      <3> QED
        BY <3>4, <3>5
    <2> QED
      BY <2>1, <2>2
  <1>13. Kept'
    <2>1. ASSUME NEW r \in pending, r.load >= pos + 1, r.object \in 1 .. Len(shapes)
          PROVE  contents'[r.object] = contents[r.object]
      <3>1. r.load \in DOMAIN code /\ r.load \in Nat
        <4>1. r.load \in DOMAIN code
          BY DEF IInv, Kept
        <4> QED
          BY <4>1, CurrentOperation
      <3>2. r.load >= pos
        BY <1>3, <2>1, <3>1
      <3>3. r.load <= lastUse[r.object]
        BY <3>2 DEF IInv, Kept
      <3>4. CASE r.object # o
        BY <1>4, <2>1, <3>4
      <3>5. CASE r.object = o
        <4>1. ~ (lastUse[o] <= pos)
          BY <1>3, <2>1, <3>1, <3>3, <3>5
        <4> QED
          BY <1>4, <3>5, <4>1
      <3> QED
        BY <3>4, <3>5
    <2> QED
      BY <1>3, <1>6, <2>1, KeptStep
  <1>14. HomesAgree'
    <2> SUFFICES ASSUME NEW k \in 1 .. Len(shapes), homes'[k] # None
                 PROVE  /\ homes'[k] \in Views
                        /\ Range(homes'[k]) \subseteq ReadOnly => contents'[k] = Read(ddr, homes'[k])
      BY DEF HomesAgree
    <2>1. CASE k = o
      BY <1>4, <1>5, <2>1
    <2>2. CASE k # o
      BY <1>4, <1>5, <2>2 DEF IInv, HomesAgree
    <2> QED
      BY <2>1, <2>2
  <1>15. Stale'
    BY StaleStep
  <1> QED
    BY <1>8, <1>9, <1>10, <1>11, <1>12, <1>13, <1>14, <1>15 DEF IInv

\* An object that a kernel overwrites is as long as the result and not needed any more.
LEMMA DestinationFree ==
    ASSUME IInv, Importing, Computes(Current), TiedFits, Destination # None
    PROVE  /\ Destination \in 1 .. Len(shapes) /\ lastUse[Destination] <= pos
           /\ Lines(Destination) = Lines(Inputs[1])
  <1>1. CASE Current.tied # None
    <2>1. Destination = Tied /\ lastUse[Tied] <= pos
      BY <1>1 DEF Destination
    <2>2. Tied \in 1 .. Len(shapes)
      BY <1>1, CopyHolds
    <2>3. Lines(Tied) = Lines(Inputs[1])
      BY <1>1 DEF TiedFits
    <2> QED
      BY <2>1, <2>2, <2>3
  <1>2. CASE Current.tied = None
    <2>1. /\ Current.reuse # None /\ Destination = objectOf[Current.reuse]
          /\ Replaceable(objectOf[Current.reuse])
      BY <1>2 DEF Destination
    <2>2. objectOf[Current.reuse] \in 1 .. Len(shapes)
      BY <2>1, OperandObjects
    <2> QED
      BY <2>1, <2>2 DEF Replaceable
  <1> QED
    BY <1>1, <1>2

LEMMA KernelInPlaceSafe == IInv /\ KernelInPlace => IInv'
  <1> SUFFICES ASSUME IInv, KernelInPlace
               PROVE  IInv'
    OBVIOUS
  <1>1. /\ Importing /\ Computes(Current) /\ TiedFits /\ Destination # None /\ Step
        /\ contents' = [contents EXCEPT ![Destination] = OnObjects]
        /\ objectOf' = [objectOf EXCEPT ![Current.output] = Destination]
        /\ lastUse' = [lastUse EXCEPT ![Destination] = Larger(lastUse[Destination], LastUse(code, Current.output))]
        /\ homes' = [homes EXCEPT ![Destination] = None]
        /\ shapes' = shapes /\ pending' = pending /\ ddr' = ddr
    BY DEF KernelInPlace
  <1>2. /\ Current.output \in Values /\ values'[Current.output] = OnObjects
        /\ IsTuple(OnObjects) /\ Len(OnObjects) = Lines(Inputs[1]) /\ Current.op # "store"
    BY <1>1, KernelResult
  <1>3. /\ Destination \in 1 .. Len(shapes) /\ lastUse[Destination] <= pos
        /\ Len(OnObjects) = Lines(Destination)
    BY <1>1, <1>2, DestinationFree
  <1> QED
    BY <1>1, <1>2, <1>3, SharedObjectSafe

\* A reload finds in the kept object what the load would find in memory.
LEMMA ReloadHolds ==
    ASSUME IInv, Importing, Current.op = "load", NEW r \in Awaited
    PROVE  /\ r.object \in 1 .. Len(shapes)
           /\ contents[r.object] = Read(memory, Current.range)
  <1>1. r \in pending /\ r.load = pos /\ pos \in Nat
    BY CurrentOperation DEF Awaited
  <1>2. r.object \in 1 .. Len(shapes) /\ contents[r.object] = Read(memory, code[r.load].range)
    <2>1. r.load >= pos
      BY <1>1
    <2> QED
      BY <1>1, <2>1 DEF IInv, Kept
  <1> QED
    BY <1>1, <1>2 DEF Current

\* Making the load after all changes nothing.
LEMMA ReloadKeepsContents ==
    ASSUME IInv, Importing, Current.op = "load", NEW r \in Awaited
    PROVE  (IF optimized THEN contents ELSE [contents EXCEPT ![r.object] = Read(ddr, Current.range)])
              = [contents EXCEPT ![r.object] = contents[r.object]]
  <1>1. r.object \in 1 .. Len(shapes) /\ contents[r.object] = Read(memory, Current.range)
    BY ReloadHolds
  <1>2. ~ optimized => Read(ddr, Current.range) = Read(memory, Current.range)
    BY LoadFindsMemory
  <1>3. contents = [k \in 1 .. Len(contents) |-> contents[k]]
    BY DEF IInv, Types, IsTuple
  <1>4. contents = [contents EXCEPT ![r.object] = contents[r.object]]
    BY <1>3
  <1> QED
    BY <1>1, <1>2, <1>4

LEMMA ReloadSafe == IInv /\ Reload => IInv'
  <1> SUFFICES ASSUME IInv, Reload
               PROVE  IInv'
    OBVIOUS
  <1>1. /\ Importing /\ Current.op = "load" /\ Step
        /\ shapes' = shapes /\ pending' = pending /\ ddr' = ddr
    BY DEF Reload
  <1>2. PICK r \in Awaited :
          /\ objectOf' = [objectOf EXCEPT ![Current.output] = r.object]
          /\ lastUse' = [lastUse EXCEPT ![r.object] = Larger(lastUse[r.object], LastUse(code, Current.output))]
          /\ homes' = [homes EXCEPT ![r.object] = Current.range]
          /\ contents' = IF optimized THEN contents
                         ELSE [contents EXCEPT ![r.object] = Read(ddr, Current.range)]
    BY DEF Reload
  <1> DEFINE o == r.object
  <1>3. o \in 1 .. Len(shapes) /\ contents[o] = Read(memory, Current.range)
    BY <1>1, ReloadHolds
  <1>4. contents' = [contents EXCEPT ![o] = contents[o]]
    BY <1>1, <1>2, ReloadKeepsContents
  <1>5. Current.output \in Values /\ values'[Current.output] = contents[o]
    <2>1. Current.output \in Values
      BY <1>1, Arity
    <2>2. values'[Current.output] = OutputContents(Current, pos, values, memory)
      BY <1>1, <2>1, SourceStep
    <2> QED
      BY <1>1, <1>3, <2>1, <2>2 DEF OutputContents
  <1>6. IsTuple(contents[o]) /\ Len(contents[o]) = Lines(o)
    BY <1>3 DEF IInv, Lengths
  <1>7. Current.range \in Views
    BY <1>1, CurrentOperation DEF SsaOperations
  <1>8. Range(Current.range) \subseteq ReadOnly => Read(ddr, Current.range) = contents[o]
    <2>1. \A cell \in ImageCells : cell \in ReadOnly => ddr[cell] = memory[cell]
      BY DEF IInv, Stale
    <2>2. Range(Current.range) \subseteq ImageCells
      <3>1. Current.range \in Seq(ImageCells)
        BY <1>7 DEF Views
      <3> QED
        BY <3>1 DEF Range
    <2>3. ASSUME Range(Current.range) \subseteq ReadOnly
          PROVE  Read(ddr, Current.range) = Read(memory, Current.range)
      <3>1. \A cell \in Range(Current.range) : ddr[cell] = memory[cell]
        BY <2>1, <2>2, <2>3
      <3> QED
        BY <3>1, SameRead
    <2> QED
      BY <1>3, <2>3
  <1> HIDE DEF o
  <1>9. /\ objectOf' = [objectOf EXCEPT ![Current.output] = o]
        /\ lastUse' = [lastUse EXCEPT ![o] = Larger(lastUse[o], LastUse(code, Current.output))]
        /\ homes' = [homes EXCEPT ![o] = Current.range]
    BY <1>2 DEF o
  <1> QED
    BY <1>1, <1>3, <1>4, <1>5, <1>6, <1>7, <1>8, <1>9, SharedObjectSafe

\* What is written is read back, and nothing else changes.
LEMMA WrittenCells ==
    ASSUME NEW range \in Views, NEW cells, NEW value, Len(value) = Len(range), IsTuple(value),
           cells = [cell \in ImageCells |-> cells[cell]]
    PROVE  /\ Written(cells, range, value) = [cell \in ImageCells |-> Written(cells, range, value)[cell]]
           /\ \A k \in DOMAIN range : Written(cells, range, value)[range[k]] = value[k]
           /\ \A cell \in ImageCells : cell \notin Range(range) => Written(cells, range, value)[cell] = cells[cell]
           /\ Read(Written(cells, range, value), range) = value
  <1> DEFINE w == Written(cells, range, value)
  <1>1. DOMAIN cells = ImageCells
    OBVIOUS
  <1>2. /\ range \in Seq(ImageCells) /\ \A j, k \in DOMAIN range : range[j] = range[k] => j = k
    BY DEF Views
  <1>3. w = [cell \in ImageCells |->
               IF \E k \in DOMAIN range : range[k] = cell
               THEN value[CHOOSE k \in DOMAIN range : range[k] = cell]
               ELSE cells[cell]]
    BY <1>1 DEF Written
  <1> HIDE DEF w
  <1>4. w = [cell \in ImageCells |-> w[cell]]
    BY <1>3
  <1>5. ASSUME NEW k \in DOMAIN range
        PROVE  w[range[k]] = value[k]
    <2>1. range[k] \in ImageCells
      BY <1>2
    <2>2. (CHOOSE j \in DOMAIN range : range[j] = range[k]) = k
      BY <1>2
    <2> QED
      BY <1>3, <2>1, <2>2
  <1>6. ASSUME NEW cell \in ImageCells, cell \notin Range(range)
        PROVE  w[cell] = cells[cell]
    <2>1. ~ \E k \in DOMAIN range : range[k] = cell
      BY <1>6 DEF Range
    <2> QED
      BY <1>3, <2>1
  <1>7. Read(w, range) = value
    <2>1. value = [k \in 1 .. Len(range) |-> value[k]] /\ DOMAIN range = 1 .. Len(range)
      BY <1>2 DEF IsTuple
    <2>2. Read(w, range) = [k \in DOMAIN range |-> value[k]]
      BY <1>5 DEF Read
    <2> QED
      BY <2>1, <2>2
  <1> QED
    BY <1>4, <1>5, <1>6, <1>7 DEF w

\* What a store stores, to the program's memory and to that of the machine.
LEMMA StoreStep ==
    ASSUME IInv, Store
    PROVE  /\ Importing /\ Current.op = "store" /\ Step /\ pos' = pos + 1 /\ code' = code /\ optimized' = optimized
           /\ Inputs[1] \in 1 .. Len(shapes) /\ Current.range \in Views
           /\ memory' = [cell \in ImageCells |-> memory'[cell]]
           /\ ddr' = [cell \in ImageCells |-> ddr'[cell]]
           /\ Read(memory', Current.range) = contents[Inputs[1]]
           /\ \A cell \in ImageCells :
                 cell \notin Cells(Current) => memory'[cell] = memory[cell] /\ ddr'[cell] = ddr[cell]
           /\ ~ Deferred => \A cell \in Cells(Current) : ddr'[cell] = memory'[cell]
           /\ Deferred => ddr' = ddr
  <1> DEFINE o == Inputs[1]
             range == Current.range
  <1>1. /\ Importing /\ Current.op = "store" /\ Step /\ Lines(o) = Len(range)
        /\ ddr' = IF Deferred THEN ddr ELSE Written(ddr, range, contents[o])
    BY DEF Store
  <1>2. 1 \in DOMAIN Current.inputs
    BY <1>1, Arity
  <1>3. o \in 1 .. Len(shapes) /\ contents[o] = values[Current.inputs[1]] /\ IsTuple(contents[o]) /\ Len(contents[o]) = Len(range)
    BY <1>1, <1>2, OperandObjects, OperandsHeld
  <1>4. range \in Views
    BY <1>1, CurrentOperation DEF SsaOperations
  <1>5. memory' = Written(memory, range, contents[o])
    BY <1>1, <1>3 DEF Step, MemoryAfter
  <1>6. memory = [cell \in ImageCells |-> memory[cell]] /\ ddr = [cell \in ImageCells |-> ddr[cell]]
    BY DEF IInv, Types
  <1>7. Range(range) = Cells(Current)
    BY DEF Cells
  <1>8. PICK value : value = contents[o]
    OBVIOUS
  <1>9. PICK there : there = range
    OBVIOUS
  <1> HIDE DEF o, range
  <1>10. /\ memory' = [cell \in ImageCells |-> memory'[cell]]
         /\ \A k \in DOMAIN there : memory'[there[k]] = value[k]
         /\ \A cell \in ImageCells : cell \notin Range(there) => memory'[cell] = memory[cell]
         /\ Read(memory', there) = value
    BY <1>3, <1>4, <1>5, <1>6, <1>8, <1>9, WrittenCells
  <1>11. CASE Deferred
    BY <1>1, <1>3, <1>4, <1>6, <1>7, <1>8, <1>9, <1>10, <1>11, SourceStep DEF o, range
  <1>12. CASE ~ Deferred
    <2>1. ddr' = Written(ddr, there, value)
      BY <1>1, <1>8, <1>9, <1>12
    <2>2. /\ ddr' = [cell \in ImageCells |-> ddr'[cell]]
          /\ \A k \in DOMAIN there : ddr'[there[k]] = value[k]
          /\ \A cell \in ImageCells : cell \notin Range(there) => ddr'[cell] = ddr[cell]
      BY <1>3, <1>4, <1>6, <1>8, <1>9, <2>1, WrittenCells
    <2>3. \A cell \in Range(there) : ddr'[cell] = memory'[cell]
      BY <1>10, <2>2 DEF Range
    <2> QED
      BY <1>1, <1>3, <1>4, <1>7, <1>8, <1>9, <1>10, <1>12, <2>2, <2>3, SourceStep DEF o, range
  <1> QED
    BY <1>11, <1>12

\* A store that has a consumer waits for it.
LEMMA StoreAwaits ==
    ASSUME IInv, Store
    PROVE  /\ objectOf' = objectOf /\ shapes' = shapes /\ homes' = homes /\ contents' = contents
           /\ lastUse' \in Seq(Nat) /\ Len(lastUse') = Len(shapes)
           /\ \A o \in 1 .. Len(shapes) : lastUse[o] <= lastUse'[o] /\ lastUse'[o] \in Nat
           /\ Paired = 0 => pending' = pending
           /\ Paired # 0 => /\ Paired = Consumer(code, pos)
                            /\ pending' = pending \cup {[load |-> Paired, object |-> Inputs[1]]}
                            /\ Paired <= lastUse'[Inputs[1]]
  <1> DEFINE o == Inputs[1]
  <1>1. /\ objectOf' = objectOf /\ shapes' = shapes /\ homes' = homes /\ contents' = contents
        /\ IF Paired # 0 THEN AwaitReload(o) ELSE UNCHANGED <<pending, lastUse>>
    BY DEF Store
  <1>2. o \in 1 .. Len(shapes)
    BY StoreStep
  <1>3. /\ lastUse \in Seq(Nat) /\ Len(lastUse) = Len(shapes) /\ \A k \in 1 .. Len(shapes) : lastUse[k] \in Nat
    BY ObjectTypes DEF IInv, Types
  <1>4. CASE Paired = 0
    BY <1>1, <1>3, <1>4
  <1>5. CASE Paired # 0
    <2>1. Paired = Consumer(code, pos)
      BY <1>5 DEF Paired
    <2>2. Paired \in Nat
      <3>1. /\ code \in Seq(SsaOperations) /\ pos \in DOMAIN code /\ Len(code) \in Nat /\ pos \in Nat
        BY StoreStep, CurrentOperation
      <3>2. Paired \in pos + 1 .. Len(code)
        BY <1>5, <2>1, <3>1, ConsumerReads
      <3> QED
        BY <3>1, <3>2
    <2> DEFINE longer == Larger(lastUse[o], Paired)
    <2>3. longer \in Nat /\ lastUse[o] <= longer /\ Paired <= longer
      BY <1>2, <1>3, <2>2, LargerOf
    <2>4. lastUse' = [lastUse EXCEPT ![o] = longer] /\ pending' = pending \cup {[load |-> Paired, object |-> o]}
      BY <1>1, <1>5 DEF AwaitReload
    <2> HIDE DEF longer, o
    <2>5. o \in 1 .. Len(lastUse)
      BY <1>2, <1>3
    <2>6. /\ lastUse' \in Seq(Nat) /\ Len(lastUse') = Len(shapes) /\ lastUse'[o] = longer
          /\ \A k \in 1 .. Len(shapes) : k # o => lastUse'[k] = lastUse[k]
      BY <1>3, <2>3, <2>4, <2>5, SeqExcept
    <2>7. \A k \in 1 .. Len(shapes) : lastUse[k] <= lastUse'[k] /\ lastUse'[k] \in Nat
      BY <1>2, <1>3, <2>3, <2>6
    <2> QED
      BY <1>1, <1>5, <2>1, <2>3, <2>4, <2>6, <2>7 DEF o
  <1> QED
    BY <1>4, <1>5

\* Objects that await their reload still hold what memory does, the new one too.
LEMMA StoreKept == IInv /\ Store => Kept'
  <1> SUFFICES ASSUME IInv, Store
               PROVE  Kept'
    OBVIOUS
  <1>1. /\ Importing /\ Current.op = "store" /\ pos' = pos + 1 /\ code' = code
        /\ Inputs[1] \in 1 .. Len(shapes) /\ Read(memory', Current.range) = contents[Inputs[1]]
        /\ \A cell \in ImageCells : cell \notin Cells(Current) => memory'[cell] = memory[cell]
    BY StoreStep
  <1>2. /\ shapes' = shapes /\ contents' = contents
        /\ \A o \in 1 .. Len(shapes) : lastUse[o] <= lastUse'[o] /\ lastUse'[o] \in Nat
    BY StoreAwaits
  <1>3. /\ code \in Seq(SsaOperations) /\ DOMAIN code = 1 .. Len(code) /\ Len(code) \in Nat
        /\ pos \in 1 .. Len(code) /\ \A n \in DOMAIN code : code[n] \in SsaOperations
    BY <1>1, CurrentOperation
  <1> SUFFICES ASSUME NEW r \in pending'
               PROVE  /\ r.load \in DOMAIN code /\ r.object \in 1 .. Len(shapes) /\ code[r.load].op = "load"
                      /\ r.load >= pos + 1 =>
                            /\ r.load <= lastUse'[r.object]
                            /\ contents[r.object] = Read(memory', code[r.load].range)
                            /\ \A n \in pos + 1 .. r.load - 1 :
                                  code[n].op = "store" => Cells(code[n]) \cap Cells(code[r.load]) = {}
    BY <1>1, <1>2 DEF Kept
  <1>4. CASE r \in pending
    <2>1. /\ r.load \in DOMAIN code /\ r.object \in 1 .. Len(shapes) /\ code[r.load].op = "load"
          /\ r.load >= pos =>
                /\ r.load <= lastUse[r.object]
                /\ contents[r.object] = Read(memory, code[r.load].range)
                /\ \A n \in pos .. r.load - 1 :
                      code[n].op = "store" => Cells(code[n]) \cap Cells(code[r.load]) = {}
      BY <1>4 DEF IInv, Kept
    <2>2. CASE r.load >= pos + 1
      <3>1. r.load >= pos /\ pos \in pos .. r.load - 1 /\ pos + 1 .. r.load - 1 \subseteq pos .. r.load - 1
        BY <1>3, <2>1, <2>2
      <3>2. Cells(Current) \cap Cells(code[r.load]) = {}
        BY <1>1, <2>1, <3>1 DEF Current
      <3>3. \A cell \in Range(code[r.load].range) : memory'[cell] = memory[cell]
        <4>1. code[r.load].range \in Seq(ImageCells)
          BY <1>3, <2>1 DEF SsaOperations, Views
        <4>2. Cells(code[r.load]) \subseteq ImageCells
          BY <4>1 DEF Cells, Range
        <4>3. \A cell \in Cells(code[r.load]) : memory'[cell] = memory[cell]
          BY <1>1, <3>2, <4>2
        <4> QED
          BY <4>3 DEF Cells
      <3>4. Read(memory', code[r.load].range) = Read(memory, code[r.load].range)
        BY <3>3, SameRead
      <3>5. r.load <= lastUse'[r.object]
        <4>1. lastUse[r.object] \in Nat /\ lastUse[r.object] <= lastUse'[r.object] /\ lastUse'[r.object] \in Nat
          BY <1>2, <2>1, ObjectTypes
        <4> QED
          BY <1>3, <2>1, <3>1, <4>1
      <3>6. \A n \in pos + 1 .. r.load - 1 : code[n].op = "store" => Cells(code[n]) \cap Cells(code[r.load]) = {}
        BY <2>1, <3>1
      <3> QED
        BY <2>1, <3>1, <3>4, <3>5, <3>6
    <2> QED
      BY <2>1, <2>2
  <1>5. CASE r \notin pending
    <2>1. /\ Paired # 0 /\ Paired = Consumer(code, pos)
          /\ r.load = Paired /\ r.object = Inputs[1] /\ Paired <= lastUse'[Inputs[1]]
      BY <1>5, StoreAwaits
    <2>2. /\ Paired \in pos + 1 .. Len(code) /\ code[Paired].op = "load" /\ code[Paired].range = Current.range
          /\ \A n \in pos + 1 .. Paired - 1 : IsDma(code[n]) => Cells(code[n]) \cap Cells(Current) = {}
      <3>1. pos \in DOMAIN code /\ Consumer(code, pos) # 0
        BY <1>3, <2>1
      <3> DEFINE load == Consumer(code, pos)
      <3>2. /\ load \in pos + 1 .. Len(code) /\ code[load].op = "load" /\ code[load].range = code[pos].range
            /\ \A n \in pos + 1 .. load - 1 : IsDma(code[n]) => Cells(code[n]) \cap Cells(code[pos]) = {}
        BY <1>3, <3>1, ConsumerReads
      <3> QED
        BY <2>1, <3>2 DEF Current
    <2>3. \A n \in pos + 1 .. Paired - 1 : code[n].op = "store" => Cells(code[n]) \cap Cells(code[Paired]) = {}
      BY <2>2 DEF IsDma, Cells
    <2>4. Paired \in DOMAIN code
      BY <1>3, <2>2
    <2> QED
      BY <1>1, <2>1, <2>2, <2>3, <2>4
  <1> QED
    BY <1>4, <1>5

\* Memory that the machine's store leaves out is looked at by nobody else.
LEMMA StoreStale == IInv /\ Store => Stale'
  <1> SUFFICES ASSUME IInv, Store
               PROVE  Stale'
    OBVIOUS
  <1>1. /\ Importing /\ Current.op = "store" /\ pos' = pos + 1 /\ code' = code /\ optimized' = optimized
        /\ \A cell \in ImageCells :
              cell \notin Cells(Current) => memory'[cell] = memory[cell] /\ ddr'[cell] = ddr[cell]
        /\ ~ Deferred => \A cell \in Cells(Current) : ddr'[cell] = memory'[cell]
    BY StoreStep
  <1>2. /\ code \in Seq(SsaOperations) /\ DOMAIN code = 1 .. Len(code) /\ Len(code) \in Nat
        /\ pos \in 1 .. Len(code)
    BY <1>1, CurrentOperation
  <1> SUFFICES ASSUME NEW cell \in ImageCells, ddr'[cell] # memory'[cell]
               PROVE  /\ optimized /\ cell \in Workspace /\ cell \notin Required /\ cell \notin ReadOnly
                      /\ \A n \in DOMAIN code :
                            n >= pos + 1 /\ code[n].op = "load" /\ cell \in Cells(code[n]) =>
                               \/ \E m \in pos + 1 .. n - 1 : code[m].op = "store" /\ cell \in Cells(code[m])
                               \/ \E r \in pending' : r.load = n
    BY <1>1 DEF Stale
  <1>3. CASE cell \in Cells(Current)
    <2>1. Deferred
      BY <1>1, <1>3
    <2>2. Paired # 0 /\ optimized /\ cell \notin Required
      BY <1>3, <2>1 DEF Deferred
    <2>3. Paired = Consumer(code, pos) /\ \E r \in pending' : r.load = Paired
      <3>1. Paired = Consumer(code, pos) /\ pending' = pending \cup {[load |-> Paired, object |-> Inputs[1]]}
        BY <2>2, StoreAwaits
      <3>2. [load |-> Paired, object |-> Inputs[1]].load = Paired
        OBVIOUS
      <3> QED
        BY <3>1, <3>2
    <2>4. /\ Paired \in pos + 1 .. Len(code) /\ Cells(Current) \subseteq Workspace
          /\ \A n \in pos + 1 .. Paired - 1 : IsDma(code[n]) => Cells(code[n]) \cap Cells(Current) = {}
          /\ \A n \in Paired + 1 .. Len(code) :
                code[n].op = "load" /\ Cells(code[n]) \cap Cells(Current) # {} =>
                   \E m \in Paired + 1 .. n - 1 : code[m].op = "store" /\ Cells(Current) \subseteq Cells(code[m])
      BY <1>2, <2>2, <2>3, ConsumerReads DEF Current
    <2>5. cell \notin ReadOnly
      BY <1>1, <1>3, Arity
    <2>6. ASSUME NEW n \in DOMAIN code, n >= pos + 1, code[n].op = "load", cell \in Cells(code[n])
          PROVE  \/ \E m \in pos + 1 .. n - 1 : code[m].op = "store" /\ cell \in Cells(code[m])
                 \/ \E r \in pending' : r.load = n
      <3>1. Cells(code[n]) \cap Cells(Current) # {} /\ IsDma(code[n])
        BY <1>3, <2>6 DEF IsDma
      <3>2. CASE n < Paired
        <4>1. n \in pos + 1 .. Paired - 1
          BY <1>2, <2>4, <2>6, <3>2
        <4> QED
          BY <2>4, <3>1, <4>1
      <3>3. CASE n = Paired
        BY <2>3, <3>3
      <3>4. CASE n > Paired
        <4>1. n \in Paired + 1 .. Len(code)
          BY <1>2, <2>4, <3>4
        <4>2. PICK m \in Paired + 1 .. n - 1 : code[m].op = "store" /\ Cells(Current) \subseteq Cells(code[m])
          BY <2>4, <2>6, <3>1, <4>1
        <4>3. m \in pos + 1 .. n - 1
          BY <1>2, <2>4, <4>1, <4>2
        <4> QED
          BY <1>3, <4>2, <4>3
      <3> QED
        BY <1>2, <2>4, <3>2, <3>3, <3>4
    <2> QED
      BY <1>3, <2>2, <2>4, <2>5, <2>6
  <1>4. CASE cell \notin Cells(Current)
    <2>1. ddr[cell] # memory[cell]
      BY <1>1, <1>4
    <2>2. /\ optimized /\ cell \in Workspace /\ cell \notin Required /\ cell \notin ReadOnly
          /\ \A n \in DOMAIN code :
                n >= pos /\ code[n].op = "load" /\ cell \in Cells(code[n]) =>
                   \/ \E m \in pos .. n - 1 : code[m].op = "store" /\ cell \in Cells(code[m])
                   \/ \E r \in pending : r.load = n
      BY <2>1 DEF IInv, Stale
    <2>3. pending \subseteq pending'
      BY StoreAwaits
    <2>4. ASSUME NEW n \in DOMAIN code, n >= pos + 1, code[n].op = "load", cell \in Cells(code[n])
          PROVE  \/ \E m \in pos + 1 .. n - 1 : code[m].op = "store" /\ cell \in Cells(code[m])
                 \/ \E r \in pending' : r.load = n
      <3>1. n >= pos
        BY <1>2, <2>4
      <3>2. CASE \E r \in pending : r.load = n
        BY <2>3, <3>2
      <3>3. CASE \E m \in pos .. n - 1 : code[m].op = "store" /\ cell \in Cells(code[m])
        <4>1. PICK m \in pos .. n - 1 : code[m].op = "store" /\ cell \in Cells(code[m])
          BY <3>3
        <4>2. m # pos
          BY <1>4, <4>1 DEF Current
        <4>3. m \in pos + 1 .. n - 1
          BY <1>2, <4>2
        <4> QED
          BY <4>1, <4>3
      <3> QED
        BY <2>2, <2>4, <3>1, <3>2, <3>3
    <2> QED
      BY <2>2, <2>4
  <1> QED
    BY <1>3, <1>4

LEMMA StoreSafe == IInv /\ Store => IInv'
  <1> SUFFICES ASSUME IInv, Store
               PROVE  IInv'
    OBVIOUS
  <1>1. /\ Importing /\ Current.op = "store" /\ Step /\ pos' = pos + 1 /\ code' = code
        /\ memory' = [cell \in ImageCells |-> memory'[cell]] /\ ddr' = [cell \in ImageCells |-> ddr'[cell]]
        /\ \A cell \in ImageCells : cell \notin Cells(Current) => ddr'[cell] = ddr[cell]
    BY StoreStep
  <1>2. /\ objectOf' = objectOf /\ shapes' = shapes /\ homes' = homes /\ contents' = contents
        /\ lastUse' \in Seq(Nat) /\ Len(lastUse') = Len(shapes)
        /\ \A o \in 1 .. Len(shapes) : lastUse[o] <= lastUse'[o] /\ lastUse'[o] \in Nat
    BY StoreAwaits
  <1>3. Current.output = None /\ Cells(Current) \cap ReadOnly = {}
    BY <1>1, Arity DEF Computes
  <1>4. /\ optimized' = optimized /\ status' = status /\ pos' \in Nat \ {0}
        /\ values' = [v \in Values |-> values'[v]] /\ \A v \in Values : values'[v] = values[v]
    BY <1>1, <1>3, SourceStep, NoneAssumption
  <1>5. Types'
    BY <1>1, <1>2, <1>4 DEF IInv, Types
  <1>6. Lengths'
    BY <1>2, <1>4 DEF IInv, Lengths, Lines
  <1>7. Defined'
    BY <1>1, <1>2, <1>3, DefinedStep
  <1>8. \A v \in Values : LastUse(code, v) \in Nat /\ pos \in Nat
    <2>1. \A v \in Values : LastUse(code, v) \in 0 .. Len(code) /\ Len(code) \in Nat /\ pos \in Nat
      BY <1>1, CurrentOperation, LastUseBounds
    <2> QED
      BY <2>1
  <1>9. \A v \in Values : objectOf[v] # None => objectOf[v] \in 1 .. Len(shapes)
    BY DEF IInv, Types
  <1>10. LongEnough'
    <2> SUFFICES ASSUME NEW v \in Values, objectOf[v] # None
                 PROVE  LastUse(code, v) <= lastUse'[objectOf[v]]
      BY <1>1, <1>2 DEF LongEnough
    <2>1. LastUse(code, v) <= lastUse[objectOf[v]] /\ lastUse[objectOf[v]] \in Nat
      BY <1>9, ObjectTypes DEF IInv, LongEnough
    <2> QED
      BY <1>2, <1>8, <1>9, <2>1
  <1>11. Agree'
    <2> SUFFICES ASSUME NEW v \in Values, objectOf[v] # None, LastUse(code, v) >= pos + 1
                 PROVE  contents[objectOf[v]] = values[v]
      BY <1>1, <1>2, <1>4 DEF Agree
    <2>1. LastUse(code, v) >= pos
      BY <1>8
    <2> QED
      BY <2>1 DEF IInv, Agree
  <1>12. HomesAgree'
    <2> SUFFICES ASSUME NEW o \in 1 .. Len(shapes), homes[o] # None
                 PROVE  /\ homes[o] \in Views
                        /\ Range(homes[o]) \subseteq ReadOnly => contents[o] = Read(ddr', homes[o])
      BY <1>2 DEF HomesAgree
    <2>1. /\ homes[o] \in Views
          /\ Range(homes[o]) \subseteq ReadOnly => contents[o] = Read(ddr, homes[o])
      BY DEF IInv, HomesAgree
    <2>2. Range(homes[o]) \subseteq ReadOnly => Read(ddr', homes[o]) = Read(ddr, homes[o])
      <3>1. Range(homes[o]) \subseteq ImageCells
        <4>1. homes[o] \in Seq(ImageCells)
          BY <2>1 DEF Views
        <4> QED
          BY <4>1 DEF Range
      <3> SUFFICES ASSUME Range(homes[o]) \subseteq ReadOnly
                   PROVE  Read(ddr', homes[o]) = Read(ddr, homes[o])
        OBVIOUS
      <3>2. \A cell \in Range(homes[o]) : ddr'[cell] = ddr[cell]
        BY <1>1, <1>3, <3>1
      <3> QED
        BY <3>2, SameRead
    <2> QED
      BY <2>1, <2>2
  <1> QED
    BY <1>5, <1>6, <1>7, <1>10, <1>11, <1>12, StoreKept, StoreStale DEF IInv

LEMMA PassOnSafe == IInv /\ PassOn => IInv'
  <1> SUFFICES ASSUME IInv, PassOn
               PROVE  IInv'
    OBVIOUS
  <1>1. /\ Importing /\ Step /\ Current.op \in {"free", "sync"}
        /\ objectOf' = objectOf /\ shapes' = shapes /\ lastUse' = lastUse /\ homes' = homes
        /\ pending' = pending /\ contents' = contents /\ ddr' = ddr
    BY DEF PassOn
  <1>2. Current.op # "store" /\ Current.output = None
    BY <1>1, Arity DEF Computes
  <1>3. /\ code' = code /\ optimized' = optimized /\ status' = status /\ pos' = pos + 1 /\ pos' \in Nat \ {0}
        /\ values' = [v \in Values |-> values'[v]] /\ \A v \in Values : values'[v] = values[v]
        /\ memory' = memory /\ memory' = [cell \in ImageCells |-> memory'[cell]]
    BY <1>1, <1>2, SourceStep, NoneAssumption
  <1>4. Types'
    BY <1>1, <1>3 DEF IInv, Types
  <1>5. Lengths'
    BY <1>1, <1>3 DEF IInv, Lengths, Lines
  <1>6. Defined'
    BY <1>1, <1>2, DefinedStep
  <1>7. LongEnough'
    BY <1>1, <1>3 DEF IInv, LongEnough
  <1>8. Agree'
    <2> SUFFICES ASSUME NEW v \in Values, objectOf[v] # None, LastUse(code, v) >= pos + 1
                 PROVE  contents[objectOf[v]] = values[v]
      BY <1>1, <1>3 DEF Agree
    <2>1. LastUse(code, v) \in 0 .. Len(code) /\ Len(code) \in Nat /\ pos \in Nat
      BY <1>1, CurrentOperation, LastUseBounds
    <2>2. LastUse(code, v) >= pos
      BY <2>1
    <2> QED
      BY <2>2 DEF IInv, Agree
  <1>9. Kept'
    <2>1. Len(shapes') \in Nat /\ Len(shapes) <= Len(shapes')
      BY <1>1, ObjectTypes
    <2>2. \A o \in 1 .. Len(shapes) :
             lastUse[o] <= lastUse'[o] /\ lastUse'[o] \in Nat /\ contents'[o] = contents[o]
      BY <1>1, ObjectTypes
    <2> QED
      BY <1>1, <1>2, <2>1, <2>2, KeptStep
  <1>10. HomesAgree'
    BY <1>1 DEF IInv, HomesAgree
  <1>11. Stale'
    BY <1>1, <1>2, StaleStep
  <1> QED
    BY <1>4, <1>5, <1>6, <1>7, <1>8, <1>9, <1>10, <1>11 DEF IInv

\* Checks and the return change only the status.
LEMMA StatusSafe ==
    ASSUME IInv, Validate \/ Reject \/ Return \/ UNCHANGED vars
    PROVE  IInv'
  <1>1. /\ code' = code /\ optimized' = optimized /\ pos' = pos /\ objectOf' = objectOf /\ shapes' = shapes
        /\ lastUse' = lastUse /\ homes' = homes /\ pending' = pending /\ values' = values
        /\ memory' = memory /\ contents' = contents /\ ddr' = ddr
    BY DEF Validate, Reject, Return, vars
  <1>2. /\ status' \in {"new", "importing", "rejected", "done"}
        /\ status' \in {"importing", "done"} => WellFormed(code, ReadOnly)
    <2>1. CASE Validate
      BY <2>1 DEF Validate
    <2>2. CASE Reject
      BY <2>2 DEF Reject
    <2>3. CASE Return
      BY <2>3 DEF Return, IInv, Types
    <2>4. CASE UNCHANGED vars
      BY <2>4 DEF vars, IInv, Types
    <2> QED
      BY <2>1, <2>2, <2>3, <2>4
  <1>3. Types'
    BY <1>1, <1>2 DEF IInv, Types
  <1>4. Lengths' /\ Defined' /\ LongEnough' /\ Agree'
    BY <1>1 DEF IInv, Lengths, Lines, Defined, LongEnough, Agree
  <1>5. Kept' /\ HomesAgree' /\ Stale'
    BY <1>1 DEF IInv, Kept, HomesAgree, Stale
  <1> QED
    BY <1>3, <1>4, <1>5 DEF IInv

LEMMA Inductive == IInv /\ [Next]_vars => IInv'
  BY LoadSafe, ReloadSafe, StoreSafe, KernelInPlaceSafe, KernelToNewSafe, KernelOnCopySafe, PassOnSafe,
     StatusSafe DEF Next

LEMMA Import == Spec => []IInv
  <1>1. Init => IInv
    BY InitIInv
  <1>2. IInv /\ [Next]_vars => IInv'
    BY Inductive
  <1> QED
    BY <1>1, <1>2, PTL DEF Spec

-----------------------------------------------------------------------------
(* What follows.                                                           *)

LEMMA IInvTypeOK == IInv => TypeOK
  <1> SUFFICES ASSUME IInv
               PROVE  TypeOK
    OBVIOUS
  <1>1. /\ DOMAIN shapes = 1 .. Len(shapes) /\ DOMAIN lastUse = 1 .. Len(shapes)
        /\ DOMAIN homes = 1 .. Len(shapes) /\ DOMAIN contents = 1 .. Len(shapes)
    BY ObjectTypes
  <1>2. status \in {"new", "importing", "rejected", "done"}
    BY DEF IInv, Types
  <1>3. \A v \in Values : objectOf[v] # None => objectOf[v] \in 1 .. Len(shapes)
    BY DEF IInv, Types
  <1>4. /\ \A o \in 1 .. Len(shapes) : Len(contents[o]) = Lines(o)
        /\ \A v \in Values : objectOf[v] # None => Len(values[v]) = Lines(objectOf[v])
    BY DEF IInv, Lengths
  <1>5. \A r \in pending : r.load \in DOMAIN code /\ r.object \in 1 .. Len(shapes)
    BY DEF IInv, Kept
  <1> QED
    BY <1>1, <1>2, <1>3, <1>4, <1>5 DEF TypeOK

\* Every value that has an object has one of its own length, and whatever awaits
\* a reload is an object.
THEOREM Typing == Spec => []TypeOK
  <1>1. IInv => TypeOK
    BY IInvTypeOK
  <1> QED
    BY <1>1, Import, PTL

\* A value that is still needed is in its object, although kernels overwrite
\* objects, share them and leave stores and loads out.
THEOREM ValuesKept == Spec => []ValuesAgree
  <1>1. IInv => ValuesAgree
    BY IInvTypeOK DEF IInv, Agree, ValuesAgree
  <1> QED
    BY <1>1, Import, PTL

\* Memory that somebody may look at is as if every store were made.
THEOREM OutputsStored == Spec => []OutputsAgree
  <1>1. IInv => OutputsAgree
    BY DEF IInv, Stale, OutputsAgree
  <1> QED
    BY <1>1, Import, PTL

\* Nothing is written to an object between a deferred store and its reload.
THEOREM StorageHeld == Spec => StorageKept
  <1> DEFINE Held == \A r \in pending : r.load >= pos => contents'[r.object] = contents[r.object]
  <1>1. IInv /\ [Next]_vars => [Held]_vars
    <2> SUFFICES ASSUME IInv, Next, NEW r \in pending, r.load >= pos
                 PROVE  contents'[r.object] = contents[r.object]
      OBVIOUS
    <2>1. /\ r.load \in DOMAIN code /\ r.object \in 1 .. Len(shapes) /\ code[r.load].op = "load"
          /\ r.load <= lastUse[r.object]
      BY DEF IInv, Kept
    <2>2. /\ \A k \in 1 .. Len(shapes) : lastUse[k] \in Nat
          /\ IsTuple(contents) /\ DOMAIN contents = 1 .. Len(shapes) /\ Len(contents) = Len(shapes)
      BY ObjectTypes DEF IInv, Types
    <2>3. CASE Validate \/ PassOn \/ Reject \/ Return
      BY <2>3 DEF Validate, PassOn, Reject, Return
    <2>4. CASE Store
      BY <2>4, StoreAwaits
    <2>5. ASSUME NEW shape, NEW home, NEW read, NewObject(shape, home, read)
          PROVE  contents'[r.object] = contents[r.object]
      <3>1. contents' = Append(contents, read)
        BY <2>5 DEF NewObject
      <3> QED
        BY <2>1, <2>2, <3>1, TupleAppend
    <2>6. CASE Load \/ KernelToNew \/ KernelOnCopy
      BY <2>5, <2>6 DEF Load, KernelToNew, KernelOnCopy
    <2>7. CASE Reload
      <3>1. PICK s \in Awaited : contents' = IF optimized THEN contents
                                            ELSE [contents EXCEPT ![s.object] = Read(ddr, Current.range)]
        BY <2>7 DEF Reload
      <3>2. Importing /\ Current.op = "load"
        BY <2>7 DEF Reload
      <3>3. contents' = [contents EXCEPT ![s.object] = contents[s.object]]
        BY <3>1, <3>2, ReloadKeepsContents
      <3> QED
        BY <2>1, <2>2, <3>3
    <2>8. CASE KernelInPlace
      <3>1. /\ Importing /\ Computes(Current) /\ TiedFits /\ Destination # None
            /\ contents' = [contents EXCEPT ![Destination] = OnObjects]
        BY <2>8 DEF KernelInPlace
      <3>2. Destination \in 1 .. Len(shapes) /\ lastUse[Destination] <= pos
        BY <3>1, DestinationFree
      <3>3. r.load # pos
        BY <2>1, <3>1 DEF Computes, Current
      <3>4. r.object # Destination
        <4>1. r.load \in Nat /\ pos \in Nat
          BY <2>1, <3>1, CurrentOperation
        <4> QED
          BY <2>1, <2>2, <3>2, <3>3, <4>1
      <3> QED
        BY <2>1, <2>2, <3>1, <3>4
    <2> QED
      BY <2>3, <2>4, <2>6, <2>7, <2>8 DEF Next
  <1>2. Spec => [][Held]_vars
    BY <1>1, Import, PTL DEF Spec
  <1> QED
    BY <1>2 DEF StorageKept

==============================================================================
