------------------------- MODULE EncodedImport_proofs -------------------------
(***************************************************************************)
(* Proofs about EncodedImport, for any slots, memory and disciplined       *)
(* programs.  The lemmas about sequences and about deferred stores are     *)
(* those of OperatorImport_proofs, for the instructions of this importer.  *)
(***************************************************************************)
EXTENDS EncodedImport, SequenceTheorems, WellFoundedInduction, TLAPS

-----------------------------------------------------------------------------
(* Numbers and sequences.                                                  *)

\* A set of natural numbers has a least element.
LEMMA MinIn ==
    ASSUME NEW T, T \subseteq Nat, T # {}
    PROVE  Min(T) \in T /\ \A n \in T : Min(T) <= n
  <1> DEFINE R == OpToRel(<, Nat)
  <1>0. IsWellFoundedOn(R, Nat)
    BY NatLessThanWellFounded
  <1>1. \E m \in T : \A n \in T : ~ (<<n, m>> \in R)
    <2> HIDE DEF R
    <2> QED
      BY <1>0, WFMin
  <1>2. \A n, m \in Nat : n < m => <<n, m>> \in R
    BY DEF OpToRel
  <1>3. \E m \in T : \A n \in T : m <= n
    <2>1. PICK m \in T : \A n \in T : ~ (<<n, m>> \in R)
      BY <1>1
    <2>2. \A n \in T : ~ (n < m)
      BY <1>2, <2>1, Zenon
    <2> QED
      BY <2>2
  <1> QED
    BY <1>3 DEF Min

\* A sequence of which nothing is said but its length.
IsTuple(s) == Len(s) \in Nat /\ s = [k \in 1 .. Len(s) |-> s[k]]

LEMMA TupleSeq ==
    ASSUME NEW s, IsTuple(s)
    PROVE  s \in Seq(Range(s)) /\ DOMAIN s = 1 .. Len(s)
  <1> DEFINE n == Len(s)
             S == Range(s)
  <1>1. n \in Nat /\ s = [k \in 1 .. n |-> s[k]]
    BY DEF IsTuple
  <1>2. DOMAIN s = 1 .. n
    BY <1>1
  <1>3. \A k \in 1 .. n : s[k] \in S
    BY <1>2 DEF Range
  <1>4. s \in [1 .. n -> S]
    <2> HIDE DEF S, n
    <2> QED
      BY <1>1, <1>3
  <1>5. s \in Seq(S)
    <2> HIDE DEF S, n
    <2> QED
      BY <1>1, <1>4
  <1> QED
    BY <1>2, <1>5

LEMMA SeqTuple ==
    ASSUME NEW S, NEW s \in Seq(S)
    PROVE  IsTuple(s)
  <1>1. s \in [1 .. Len(s) -> S] /\ Len(s) \in Nat
    OBVIOUS
  <1> QED
    BY <1>1 DEF IsTuple

\* A function on 1 .. n is a sequence of length n.
LEMMA FunctionTuple ==
    ASSUME NEW n \in Nat, NEW f, f = [k \in 1 .. n |-> f[k]]
    PROVE  IsTuple(f) /\ Len(f) = n
  <1> DEFINE S == Range(f)
  <1>1. DOMAIN f = 1 .. n
    OBVIOUS
  <1>2. \A k \in 1 .. n : f[k] \in S
    BY <1>1 DEF Range
  <1>3. f \in [1 .. n -> S]
    <2> HIDE DEF S
    <2> QED
      BY <1>2
  <1>4. f \in Seq(S) /\ Len(f) = n
    <2> HIDE DEF S
    <2> QED
      BY <1>3
  <1> QED
    BY <1>4 DEF IsTuple

LEMMA TupleAppend ==
    ASSUME NEW s, IsTuple(s), NEW x
    PROVE  /\ IsTuple(Append(s, x)) /\ Len(Append(s, x)) = Len(s) + 1
           /\ \A k \in 1 .. Len(s) : Append(s, x)[k] = s[k]
           /\ Append(s, x)[Len(s) + 1] = x
  <1> DEFINE S == Range(s) \cup {x}
             t == Append(s, x)
  <1>1. s \in Seq(Range(s))
    BY TupleSeq
  <1>2. s \in Seq(S)
    <2>1. Range(s) \subseteq S
      OBVIOUS
    <2> HIDE DEF S
    <2> QED
      BY <1>1, <2>1
  <1>3. x \in S
    OBVIOUS
  <1> HIDE DEF S
  <1>4. t \in Seq(S) /\ Len(t) = Len(s) + 1 /\ (\A k \in 1 .. Len(s) : t[k] = s[k]) /\ t[Len(s) + 1] = x
    BY <1>2, <1>3, AppendProperties
  <1>5. IsTuple(t)
    BY <1>4, SeqTuple
  <1> QED
    BY <1>4, <1>5

-----------------------------------------------------------------------------
(* Programs and memory.                                                    *)

\* NextTouching is the first DMA from a position on that overlaps some cells.
LEMMA FirstTouching ==
    ASSUME NEW list \in Seq(Encodings), NEW cells, NEW first \in Nat \ {0}
    PROVE  LET next == NextTouching(list, cells, first)
           IN  /\ next # 0 => next \in first .. Len(list) /\ IsDma(list[next]) /\ Cells(list[next]) \cap cells # {}
               /\ \A n \in first .. Len(list) :
                     IsDma(list[n]) /\ Cells(list[n]) \cap cells # {} => next # 0 /\ next <= n
  <1> DEFINE touching == {n \in first .. Len(list) : IsDma(list[n]) /\ Cells(list[n]) \cap cells # {}}
             next == NextTouching(list, cells, first)
  <1>1. touching \subseteq Nat /\ Len(list) \in Nat
    OBVIOUS
  <1>2. next = IF touching = {} THEN 0 ELSE Min(touching)
    BY DEF NextTouching
  <1>3. CASE touching = {}
    BY <1>2, <1>3
  <1>4. CASE touching # {}
    <2>1. Min(touching) \in touching /\ \A n \in touching : Min(touching) <= n
      <3> HIDE DEF touching
      <3> QED
        BY <1>1, <1>4, MinIn
    <2>2. next \in touching /\ next # 0 /\ \A n \in touching : next <= n
      <3>1. next \in touching /\ \A n \in touching : next <= n
        <4> HIDE DEF touching, next
        <4> QED
          BY <1>2, <1>4, <2>1
      <3>2. 0 \notin touching
        OBVIOUS
      <3> QED
        BY <3>1, <3>2
    <2> QED
      BY <2>2
  <1> QED
    BY <1>3, <1>4

\* Between a store and its consumer nothing touches the cells, and after it no
\* load does before a store to all of them.
LEMMA ConsumerReads ==
    ASSUME NEW list \in Seq(Encodings), NEW store \in DOMAIN list, Consumer(list, store) # 0
    PROVE  LET load  == Consumer(list, store)
               cells == Cells(list[store])
           IN  /\ load \in store + 1 .. Len(list) /\ list[load].op = "load"
               /\ list[load].range = list[store].range /\ cells \subseteq Workspace
               /\ \A n \in store + 1 .. load - 1 : IsDma(list[n]) => Cells(list[n]) \cap cells = {}
               /\ \A n \in load + 1 .. Len(list) :
                     list[n].op = "load" /\ Cells(list[n]) \cap cells # {} =>
                        \E m \in load + 1 .. n - 1 : list[m].op = "store" /\ cells \subseteq Cells(list[m])
  <1> DEFINE load  == NextTouching(list, Cells(list[store]), store + 1)
             cells == Cells(list[store])
             next  == NextTouching(list, cells, load + 1)
  <1>1. /\ Consumer(list, store) = load /\ load # 0 /\ cells \subseteq Workspace
        /\ list[load].op = "load" /\ list[load].range = list[store].range
        /\ next # 0 => list[next].op = "store" /\ cells \subseteq Cells(list[next])
    BY DEF Consumer, NotReadAgain
  <1>2. store \in Nat \ {0} /\ Len(list) \in Nat
    OBVIOUS
  <1>3. /\ load \in store + 1 .. Len(list)
        /\ \A n \in store + 1 .. Len(list) : IsDma(list[n]) /\ Cells(list[n]) \cap cells # {} => load <= n
    <2>1. store + 1 \in Nat \ {0}
      BY <1>2
    <2> QED
      BY <1>1, <2>1, FirstTouching
  <1> HIDE DEF load
  <1>4. \A n \in store + 1 .. load - 1 : IsDma(list[n]) => Cells(list[n]) \cap cells = {}
    <2> HIDE DEF cells
    <2> QED
      BY <1>2, <1>3
  <1>5. ASSUME NEW n \in load + 1 .. Len(list), list[n].op = "load", Cells(list[n]) \cap cells # {}
        PROVE  \E m \in load + 1 .. n - 1 : list[m].op = "store" /\ cells \subseteq Cells(list[m])
    <2>1. load + 1 \in Nat \ {0}
      BY <1>2, <1>3
    <2>2. next # 0 /\ next <= n /\ next \in load + 1 .. Len(list)
      <3>1. IsDma(list[n])
        BY <1>5 DEF IsDma
      <3> HIDE DEF cells
      <3> QED
        BY <1>5, <2>1, <3>1, FirstTouching
    <2>3. list[next].op = "store" /\ cells \subseteq Cells(list[next])
      BY <1>1, <2>2
    <2>4. next # n
      BY <1>5, <2>3
    <2> HIDE DEF next, cells
    <2> QED
      BY <1>2, <1>3, <2>2, <2>3, <2>4
  <1> QED
    BY <1>1, <1>3, <1>4, <1>5

LEMMA ReadTuple ==
    ASSUME NEW cells, NEW range \in Views
    PROVE  IsTuple(Read(cells, range)) /\ Len(Read(cells, range)) = Len(range)
  <1> DEFINE f == Read(cells, range)
  <1>1. Len(range) \in Nat /\ DOMAIN range = 1 .. Len(range)
    BY DEF Views
  <1>2. f = [k \in 1 .. Len(range) |-> f[k]]
    BY <1>1 DEF Read
  <1> HIDE DEF f
  <1>3. IsTuple(f) /\ Len(f) = Len(range)
    BY <1>1, <1>2, FunctionTuple
  <1> QED
    BY <1>3 DEF f

\* Two memories that agree on a range read the same from it.
LEMMA SameRead ==
    ASSUME NEW range, NEW a, NEW b, \A cell \in Range(range) : a[cell] = b[cell]
    PROVE  Read(a, range) = Read(b, range)
  <1>1. \A k \in DOMAIN range : a[range[k]] = b[range[k]]
    BY DEF Range
  <1> QED
    BY <1>1 DEF Read

\* What is written is read back, and nothing else changes.
LEMMA WrittenCells ==
    ASSUME NEW range \in Views, NEW cells, NEW value, Len(value) = Len(range), IsTuple(value),
           cells = [cell \in ImageCells |-> cells[cell]]
    PROVE  /\ Written(cells, range, value) = [cell \in ImageCells |-> Written(cells, range, value)[cell]]
           /\ \A k \in DOMAIN range : Written(cells, range, value)[range[k]] = value[k]
           /\ \A cell \in ImageCells : cell \notin Range(range) => Written(cells, range, value)[cell] = cells[cell]
           /\ Read(Written(cells, range, value), range) = value
  <1> DEFINE w == Written(cells, range, value)
  <1>1. DOMAIN cells = ImageCells
    OBVIOUS
  <1>2. /\ range \in Seq(ImageCells) /\ \A j, k \in DOMAIN range : range[j] = range[k] => j = k
    BY DEF Views
  <1>3. w = [cell \in ImageCells |->
               IF \E k \in DOMAIN range : range[k] = cell
               THEN value[CHOOSE k \in DOMAIN range : range[k] = cell]
               ELSE cells[cell]]
    BY <1>1 DEF Written
  <1> HIDE DEF w
  <1>4. w = [cell \in ImageCells |-> w[cell]]
    BY <1>3
  <1>5. ASSUME NEW k \in DOMAIN range
        PROVE  w[range[k]] = value[k]
    <2>1. range[k] \in ImageCells
      BY <1>2
    <2>2. (CHOOSE j \in DOMAIN range : range[j] = range[k]) = k
      BY <1>2
    <2> QED
      BY <1>3, <2>1, <2>2
  <1>6. ASSUME NEW cell \in ImageCells, cell \notin Range(range)
        PROVE  w[cell] = cells[cell]
    <2>1. ~ \E k \in DOMAIN range : range[k] = cell
      BY <1>6 DEF Range
    <2> QED
      BY <1>3, <2>1
  <1>7. Read(w, range) = value
    <2>1. value = [k \in 1 .. Len(range) |-> value[k]] /\ DOMAIN range = 1 .. Len(range)
      BY <1>2 DEF IsTuple
    <2>2. Read(w, range) = [k \in DOMAIN range |-> value[k]]
      BY <1>5 DEF Read
    <2> QED
      BY <2>1, <2>2
  <1> QED
    BY <1>4, <1>5, <1>6, <1>7 DEF w

-----------------------------------------------------------------------------
(* The inductive invariant.                                                *)

Shapes == [lines : Nat, kind : Kinds]

Types ==
    /\ code \in Programs /\ pos \in Nat \ {0}
    /\ status \in {"new", "importing", "rejected", "done"}
    /\ objects \in Seq(Shapes) /\ IsTuple(values) /\ Len(values) = Len(objects)
    /\ live \in [Slots -> (1 .. Len(objects)) \cup {None}]
    /\ slots = [s \in Slots |-> slots[s]]
    /\ memory = [cell \in ImageCells |-> memory[cell]]
    /\ ddr = [cell \in ImageCells |-> ddr[cell]]

\* What objects hold is as long as the object.
Lengths ==
    \A o \in 1 .. Len(objects) : IsTuple(values[o]) /\ Len(values[o]) = Lines(o)

\* No two slots stand for one object, or a kernel on one would change both.
Injective ==
    \A s, t \in Slots : live[s] # None /\ live[s] = live[t] => s = t

Agree ==
    \A s \in Slots : live[s] # None => slots[s] = values[live[s]]

\* An object that awaits its reload is in no slot, holds what the machine left in
\* memory, and nothing is stored there until the machine reads it back.
Kept ==
    \A r \in pending :
        /\ r.load \in DOMAIN code /\ r.object \in 1 .. Len(objects) /\ code[r.load].op = "load"
        /\ r.load >= pos =>
              /\ \A s \in Slots : live[s] # r.object
              /\ values[r.object] = Read(ddr, code[r.load].range)
              /\ \A n \in pos .. r.load - 1 :
                    code[n].op = "store" => Cells(code[n]) \cap Cells(code[r.load]) = {}

\* Objects await one load each.
AwaitedOnce ==
    \A r, q \in pending : r.load >= pos /\ q.load >= pos /\ r.object = q.object => r = q

\* Memory that the virtual program's stores leave out is scratch memory that no
\* load looks at before it is stored to again, but the one that is awaited.
Stale ==
    \A cell \in ImageCells :
        memory[cell] # ddr[cell] =>
            /\ cell \in Workspace
            /\ \A n \in DOMAIN code :
                  n >= pos /\ code[n].op = "load" /\ cell \in Cells(code[n]) =>
                     \/ \E m \in pos .. n - 1 : code[m].op = "store" /\ cell \in Cells(code[m])
                     \/ \E r \in pending : r.load = n

IInv ==
    /\ Types /\ Lengths /\ Injective /\ Agree /\ Kept /\ AwaitedOnce /\ Stale

LEMMA InitIInv == Init => IInv
  <1> SUFFICES ASSUME Init
               PROVE  IInv
    OBVIOUS
  <1>1. << >> \in Seq(Shapes) /\ Len(<< >>) = 0
    OBVIOUS
  <1>2. IsTuple(<< >>)
    BY <1>1 DEF IsTuple
  <1>3. Types
    BY <1>1, <1>2 DEF Init, Types
  <1>4. Lengths
    BY <1>1 DEF Init, Lengths
  <1>5. Injective /\ Agree /\ Kept /\ AwaitedOnce /\ Stale
    BY DEF Init, Injective, Agree, Kept, AwaitedOnce, Stale
  <1> QED
    BY <1>3, <1>4, <1>5 DEF IInv

\* Where the importer is, and what instruction it looks at.
LEMMA CurrentInstruction ==
    ASSUME IInv, Importing
    PROVE  /\ code \in Seq(Encodings) /\ Len(code) \in Nat /\ DOMAIN code = 1 .. Len(code)
           /\ pos \in 1 .. Len(code) /\ Current \in Encodings
           /\ \A n \in DOMAIN code : code[n] \in Encodings
  <1>1. code \in Seq(Encodings)
    BY ProgramsAssumption DEF IInv, Types
  <1>2. pos \in 1 .. Len(code)
    BY <1>1 DEF IInv, Types, Importing
  <1> QED
    BY <1>1, <1>2 DEF Current

\* The slots, range and kind that its operation needs.
LEMMA Format ==
    ASSUME IInv, Importing
    PROVE  /\ Current.range \in Views /\ Current.kind \in Kinds /\ Current.sources \in Seq(Slots)
           /\ Current.op \in {"load", "stage", "arith", "mac"} => Current.dst \in Slots
           /\ Current.op \in {"store", "free", "stage", "arith", "mac"} =>
                 1 \in DOMAIN Current.sources /\ Current.sources[1] \in Slots
  <1>1. Current \in Encodings
    BY CurrentInstruction
  <1>2. /\ Current.range \in Views /\ Current.kind \in Kinds /\ Current.sources \in Seq(Slots)
        /\ Current.dst \in Slots \cup {None}
        /\ Current.op \in {"load", "stage", "arith", "mac"} => Current.dst # None
        /\ Current.op \in {"store", "free", "stage", "arith", "mac"} => Current.sources # << >>
    BY <1>1 DEF Encodings
  <1>3. Current.sources # << >> => 1 \in DOMAIN Current.sources /\ Current.sources[1] \in Slots
    BY <1>2
  <1> QED
    BY <1>2, <1>3

\* A slot that holds an object holds what the object does, at its length.
LEMMA LiveSlot ==
    ASSUME IInv, NEW s \in Slots, live[s] # None
    PROVE  /\ live[s] \in 1 .. Len(objects) /\ slots[s] = values[live[s]]
           /\ IsTuple(values[live[s]]) /\ Len(values[live[s]]) = Lines(live[s]) /\ Lines(live[s]) \in Nat
           /\ objects[live[s]] \in Shapes
  <1>1. live[s] \in 1 .. Len(objects) /\ objects \in Seq(Shapes)
    BY DEF IInv, Types
  <1>2. objects[live[s]] \in Shapes
    BY <1>1
  <1>3. slots[s] = values[live[s]]
    BY DEF IInv, Agree
  <1>4. IsTuple(values[live[s]]) /\ Len(values[live[s]]) = Lines(live[s])
    BY <1>1 DEF IInv, Lengths
  <1>5. Lines(live[s]) \in Nat
    BY <1>2 DEF Lines, Shapes
  <1> QED
    BY <1>1, <1>2, <1>3, <1>4, <1>5

-----------------------------------------------------------------------------
(* What the steps have in common.                                          *)

\* An instruction that is no store leaves deferred memory as it was.
LEMMA StaleStep ==
    ASSUME IInv, Importing, Step, memory' = memory, ddr' = ddr, pending' = pending, Current.op # "store"
    PROVE  Stale'
  <1>1. code' = code /\ pos' = pos + 1
    BY DEF Step
  <1>2. DOMAIN code = 1 .. Len(code) /\ Len(code) \in Nat /\ pos \in 1 .. Len(code)
    BY CurrentInstruction
  <1> SUFFICES ASSUME NEW cell \in ImageCells, memory[cell] # ddr[cell]
               PROVE  /\ cell \in Workspace
                      /\ \A n \in DOMAIN code :
                            n >= pos + 1 /\ code[n].op = "load" /\ cell \in Cells(code[n]) =>
                               \/ \E m \in pos + 1 .. n - 1 : code[m].op = "store" /\ cell \in Cells(code[m])
                               \/ \E r \in pending : r.load = n
    BY <1>1 DEF Stale
  <1>3. /\ cell \in Workspace
        /\ \A n \in DOMAIN code :
              n >= pos /\ code[n].op = "load" /\ cell \in Cells(code[n]) =>
                 \/ \E m \in pos .. n - 1 : code[m].op = "store" /\ cell \in Cells(code[m])
                 \/ \E r \in pending : r.load = n
    BY DEF IInv, Stale
  <1>4. ASSUME NEW n \in DOMAIN code, n >= pos + 1, code[n].op = "load", cell \in Cells(code[n])
        PROVE  \/ \E m \in pos + 1 .. n - 1 : code[m].op = "store" /\ cell \in Cells(code[m])
               \/ \E r \in pending : r.load = n
    <2>1. n >= pos
      BY <1>2, <1>4
    <2>2. CASE \E r \in pending : r.load = n
      BY <2>2
    <2>3. CASE \E m \in pos .. n - 1 : code[m].op = "store" /\ cell \in Cells(code[m])
      <3>1. PICK m \in pos .. n - 1 : code[m].op = "store" /\ cell \in Cells(code[m])
        BY <2>3
      <3>2. m # pos
        BY <3>1 DEF Current
      <3>3. m \in pos + 1 .. n - 1
        BY <1>2, <3>2
      <3> QED
        BY <3>1, <3>3
    <2> QED
      BY <1>3, <1>4, <2>1, <2>2, <2>3
  <1> QED
    BY <1>3, <1>4

\* Awaiting objects stay what they are if nobody takes or changes them.
LEMMA KeptStep ==
    ASSUME IInv, Importing, Step, pending' = pending, ddr' = ddr,
           Len(objects') \in Nat, Len(objects) <= Len(objects'),
           \A r \in pending : r.load >= pos + 1 /\ r.object \in 1 .. Len(objects) =>
               /\ \A s \in Slots : live'[s] # r.object
               /\ values'[r.object] = values[r.object]
    PROVE  Kept' /\ AwaitedOnce'
  <1>1. code' = code /\ pos' = pos + 1
    BY DEF Step
  <1>2. DOMAIN code = 1 .. Len(code) /\ Len(code) \in Nat /\ pos \in 1 .. Len(code) /\ Len(objects) \in Nat
    BY CurrentInstruction DEF IInv, Types
  <1>3. \A r \in pending : r.load \in Nat /\ (r.load >= pos + 1 => r.load >= pos)
    BY <1>2 DEF IInv, Kept
  <1>4. AwaitedOnce'
    BY <1>1, <1>3 DEF IInv, AwaitedOnce
  <1>5. Kept'
    <2> SUFFICES ASSUME NEW r \in pending
                 PROVE  /\ r.load \in DOMAIN code /\ r.object \in 1 .. Len(objects') /\ code[r.load].op = "load"
                        /\ r.load >= pos + 1 =>
                              /\ \A s \in Slots : live'[s] # r.object
                              /\ values'[r.object] = Read(ddr, code[r.load].range)
                              /\ \A n \in pos + 1 .. r.load - 1 :
                                    code[n].op = "store" => Cells(code[n]) \cap Cells(code[r.load]) = {}
      BY <1>1 DEF Kept
    <2>1. /\ r.load \in DOMAIN code /\ r.object \in 1 .. Len(objects) /\ code[r.load].op = "load"
          /\ r.load >= pos =>
                /\ values[r.object] = Read(ddr, code[r.load].range)
                /\ \A n \in pos .. r.load - 1 :
                      code[n].op = "store" => Cells(code[n]) \cap Cells(code[r.load]) = {}
      BY DEF IInv, Kept
    <2>2. r.object \in 1 .. Len(objects')
      BY <1>2, <2>1
    <2>3. CASE r.load >= pos + 1
      <3>1. r.load >= pos /\ pos + 1 .. r.load - 1 \subseteq pos .. r.load - 1
        BY <1>2, <1>3, <2>3
      <3>2. \A n \in pos + 1 .. r.load - 1 : code[n].op = "store" => Cells(code[n]) \cap Cells(code[r.load]) = {}
        BY <2>1, <3>1
      <3> QED
        BY <2>1, <2>2, <2>3, <3>1, <3>2
    <2> QED
      BY <2>1, <2>2, <2>3
  <1> QED
    BY <1>4, <1>5
\* A new object is the last one, and the others stay.
LEMMA NewObjectIs ==
    ASSUME IInv, NEW s \in Slots, NEW kind \in Kinds, NEW contents, IsTuple(contents),
           NewObject(s, kind, contents)
    PROVE  /\ objects' \in Seq(Shapes) /\ Len(objects) \in Nat /\ Len(objects') = Len(objects) + 1
           /\ IsTuple(values') /\ Len(values') = Len(objects) + 1
           /\ \A o \in 1 .. Len(objects) : objects'[o] = objects[o] /\ values'[o] = values[o]
           /\ objects'[Len(objects) + 1].lines = Len(contents) /\ values'[Len(objects) + 1] = contents
           /\ live' \in [Slots -> (1 .. Len(objects) + 1) \cup {None}]
           /\ live'[s] = Len(objects) + 1
           /\ \A t \in Slots : t # s => live'[t] = live[t]
  <1> DEFINE shape == [lines |-> Len(contents), kind |-> kind]
  <1>1. /\ objects \in Seq(Shapes) /\ Len(objects) \in Nat /\ IsTuple(values) /\ Len(values) = Len(objects)
        /\ live \in [Slots -> (1 .. Len(objects)) \cup {None}]
    BY DEF IInv, Types
  <1>2. shape \in Shapes /\ shape.lines = Len(contents)
    BY DEF IsTuple, Shapes
  <1>3. /\ objects' = Append(objects, shape) /\ values' = Append(values, contents)
        /\ live' = [live EXCEPT ![s] = Len(objects) + 1]
    BY DEF NewObject
  <1> HIDE DEF shape
  <1>4. /\ objects' \in Seq(Shapes) /\ Len(objects') = Len(objects) + 1
        /\ objects'[Len(objects) + 1] = shape /\ \A o \in 1 .. Len(objects) : objects'[o] = objects[o]
    BY <1>1, <1>2, <1>3, AppendProperties
  <1>5. /\ IsTuple(values') /\ Len(values') = Len(objects) + 1 /\ values'[Len(objects) + 1] = contents
        /\ \A o \in 1 .. Len(objects) : values'[o] = values[o]
    BY <1>1, <1>3, TupleAppend
  <1>6. /\ live' \in [Slots -> (1 .. Len(objects) + 1) \cup {None}] /\ live'[s] = Len(objects) + 1
        /\ \A t \in Slots : t # s => live'[t] = live[t]
    BY <1>1, <1>3
  <1> QED
    BY <1>1, <1>2, <1>4, <1>5, <1>6

\* A new object that holds what its slot does keeps the invariant.
LEMMA NewObjectSafe ==
    ASSUME IInv, Importing, Step, Current.op # "store",
           NEW s \in Slots, NEW kind \in Kinds, NEW contents, IsTuple(contents),
           NewObject(s, kind, contents), slots' = [slots EXCEPT ![s] = contents],
           pending' = pending, memory' = memory, ddr' = ddr
    PROVE  IInv'
  <1> DEFINE new == Len(objects) + 1
  <1>1. /\ objects' \in Seq(Shapes) /\ Len(objects) \in Nat /\ Len(objects') = new
        /\ IsTuple(values') /\ Len(values') = new
        /\ \A o \in 1 .. Len(objects) : objects'[o] = objects[o] /\ values'[o] = values[o]
        /\ objects'[new].lines = Len(contents) /\ values'[new] = contents
        /\ live' \in [Slots -> (1 .. new) \cup {None}] /\ live'[s] = new
        /\ \A t \in Slots : t # s => live'[t] = live[t]
    BY NewObjectIs
  <1>2. /\ new \notin 1 .. Len(objects) /\ Len(objects) <= new /\ new \in Nat
        /\ \A o \in 1 .. new : o \in 1 .. Len(objects) \/ o = new
        /\ \A o \in 1 .. new : o # None
    BY <1>1, NoneAssumption
  <1> HIDE DEF new
  <1>3. code' = code /\ status' = status /\ pos' = pos + 1 /\ pos \in Nat \ {0}
    BY DEF Step, IInv, Types
  <1>4. \A t \in Slots : live[t] # None => live[t] \in 1 .. Len(objects) /\ slots[t] = values[live[t]]
    BY LiveSlot
  <1>5. slots' = [t \in Slots |-> slots'[t]] /\ slots'[s] = contents /\ \A t \in Slots : t # s => slots'[t] = slots[t]
    BY DEF IInv, Types
  <1>6. Types'
    BY <1>1, <1>3, <1>5 DEF IInv, Types
  <1>7. Lengths'
    BY <1>1, <1>2 DEF IInv, Lengths, Lines
  <1>8. Injective'
    <2> SUFFICES ASSUME NEW t \in Slots, NEW u \in Slots, live'[t] # None, live'[t] = live'[u]
                 PROVE  t = u
      BY DEF Injective
    <2>1. CASE t = s \/ u = s
      BY <1>1, <1>2, <1>4, <2>1
    <2>2. CASE t # s /\ u # s
      BY <1>1, <2>2 DEF IInv, Injective
    <2> QED
      BY <2>1, <2>2
  <1>9. Agree'
    <2> SUFFICES ASSUME NEW t \in Slots, live'[t] # None
                 PROVE  slots'[t] = values'[live'[t]]
      BY DEF Agree
    <2>1. CASE t = s
      BY <1>1, <1>5, <2>1
    <2>2. CASE t # s
      BY <1>1, <1>4, <1>5, <2>2
    <2> QED
      BY <2>1, <2>2
  <1>10. Kept' /\ AwaitedOnce'
    <2>1. ASSUME NEW r \in pending, r.load >= pos + 1, r.object \in 1 .. Len(objects)
          PROVE  (\A t \in Slots : live'[t] # r.object) /\ values'[r.object] = values[r.object]
      <3>1. \A t \in Slots : live[t] # r.object
        <4>1. r.load \in Nat
          <5>1. r.load \in DOMAIN code
            BY DEF IInv, Kept
          <5> QED
            BY <5>1, CurrentInstruction
        <4>2. r.load >= pos
          BY <1>3, <2>1, <4>1
        <4> QED
          BY <4>2 DEF IInv, Kept
      <3> QED
        BY <1>1, <1>2, <2>1, <3>1
    <2>2. Len(objects') \in Nat /\ Len(objects) <= Len(objects')
      BY <1>1, <1>2
    <2> QED
      BY <2>1, <2>2, KeptStep
  <1>11. Stale'
    BY StaleStep
  <1> QED
    BY <1>6, <1>7, <1>8, <1>9, <1>10, <1>11 DEF IInv

-----------------------------------------------------------------------------
(* The actions.                                                            *)

\* A load that no object awaits finds the same in both memories.
LEMMA LoadFindsMemory ==
    ASSUME IInv, Importing, Current.op = "load", Awaited = {}
    PROVE  Read(memory, Current.range) = Read(ddr, Current.range)
  <1>1. pos \in DOMAIN code /\ pos \in Nat /\ Current.range \in Views
    BY CurrentInstruction, Format
  <1>2. ASSUME NEW cell \in Cells(Current)
        PROVE  memory[cell] = ddr[cell]
    <2>1. cell \in ImageCells
      <3>1. Current.range \in Seq(ImageCells)
        BY <1>1 DEF Views
      <3> QED
        BY <3>1 DEF Cells, Range
    <2>2. ~ \E m \in pos .. pos - 1 : TRUE
      BY <1>1
    <2>3. ~ \E r \in pending : r.load = pos
      BY DEF Awaited
    <2> SUFFICES ASSUME memory[cell] # ddr[cell]
                 PROVE  FALSE
      OBVIOUS
    <2>4. \A n \in DOMAIN code :
              n >= pos /\ code[n].op = "load" /\ cell \in Cells(code[n]) =>
                 \/ \E m \in pos .. n - 1 : code[m].op = "store" /\ cell \in Cells(code[m])
                 \/ \E r \in pending : r.load = n
      BY <2>1 DEF IInv, Stale
    <2> QED
      BY <1>1, <2>2, <2>3, <2>4 DEF Current
  <1>3. \A cell \in Range(Current.range) : memory[cell] = ddr[cell]
    BY <1>2 DEF Cells
  <1> QED
    BY <1>3, SameRead

LEMMA LoadSafe == IInv /\ Load => IInv'
  <1> SUFFICES ASSUME IInv, Load
               PROVE  IInv'
    OBVIOUS
  <1> DEFINE contents == Read(memory, Current.range)
  <1>1. /\ Importing /\ Current.op = "load" /\ Awaited = {} /\ Step
        /\ NewObject(Current.dst, Current.kind, contents)
        /\ slots' = [slots EXCEPT ![Current.dst] = Read(ddr, Current.range)]
        /\ pending' = pending /\ memory' = memory /\ ddr' = ddr
    BY DEF Load, Fill
  <1>2. Current.range \in Views /\ Current.kind \in Kinds /\ Current.dst \in Slots
    BY <1>1, Format
  <1>3. IsTuple(contents) /\ Read(ddr, Current.range) = contents
    BY <1>1, <1>2, ReadTuple, LoadFindsMemory
  <1> HIDE DEF contents
  <1> QED
    BY <1>1, <1>2, <1>3, NewObjectSafe

LEMMA ReloadSafe == IInv /\ Reload => IInv'
  <1> SUFFICES ASSUME IInv, Reload
               PROVE  IInv'
    OBVIOUS
  <1> DEFINE d == Current.dst
  <1>1. /\ Importing /\ Current.op = "load" /\ Step
        /\ slots' = [slots EXCEPT ![d] = Read(ddr, Current.range)]
        /\ objects' = objects /\ pending' = pending /\ values' = values /\ memory' = memory /\ ddr' = ddr
    BY DEF Reload, Fill
  <1>2. PICK r \in Awaited : live' = [live EXCEPT ![d] = r.object]
    BY DEF Reload
  <1>3. d \in Slots
    BY <1>1, Format
  <1>4. code' = code /\ status' = status /\ pos' = pos + 1 /\ pos \in Nat \ {0}
    BY <1>1 DEF Step, IInv, Types
  <1>5. r \in pending /\ r.load = pos /\ r.load >= pos
    BY <1>4 DEF Awaited
  <1>6. /\ r.object \in 1 .. Len(objects) /\ \A s \in Slots : live[s] # r.object
        /\ values[r.object] = Read(ddr, Current.range)
    BY <1>5 DEF IInv, Kept, Current
  <1> HIDE DEF d
  <1>7. /\ live \in [Slots -> (1 .. Len(objects)) \cup {None}] /\ Len(objects) \in Nat
        /\ slots = [s \in Slots |-> slots[s]]
    BY DEF IInv, Types
  <1>8. /\ live' \in [Slots -> (1 .. Len(objects)) \cup {None}] /\ live'[d] = r.object
        /\ \A s \in Slots : s # d => live'[s] = live[s]
    BY <1>2, <1>3, <1>6, <1>7
  <1>9. /\ slots' = [s \in Slots |-> slots'[s]] /\ slots'[d] = Read(ddr, Current.range)
        /\ \A s \in Slots : s # d => slots'[s] = slots[s]
    BY <1>1, <1>3, <1>7
  <1>10. Types'
    BY <1>1, <1>4, <1>8, <1>9 DEF IInv, Types
  <1>11. Lengths'
    BY <1>1 DEF IInv, Lengths, Lines
  <1>12. Injective'
    BY <1>6, <1>8 DEF IInv, Injective
  <1>13. Agree'
    BY <1>1, <1>6, <1>8, <1>9 DEF IInv, Agree
  <1>14. Kept' /\ AwaitedOnce'
    <2>1. ASSUME NEW q \in pending, q.load >= pos + 1
          PROVE  \A s \in Slots : live'[s] # q.object
      <3>1. q.load \in Nat
        <4>1. q.load \in DOMAIN code
          BY DEF IInv, Kept
        <4> QED
          BY <1>1, <4>1, CurrentInstruction
      <3>2. q.load >= pos /\ q # r
        BY <1>4, <1>5, <2>1, <3>1
      <3>3. \A s \in Slots : live[s] # q.object
        BY <3>2 DEF IInv, Kept
      <3>4. q.object # r.object
        BY <1>5, <3>2 DEF IInv, AwaitedOnce
      <3> QED
        BY <1>8, <3>3, <3>4
    <2>2. Len(objects') \in Nat /\ Len(objects) <= Len(objects')
      BY <1>1, <1>7
    <2> QED
      BY <1>1, <2>1, <2>2, KeptStep
  <1>15. Stale'
    BY <1>1, StaleStep
  <1> QED
    BY <1>10, <1>11, <1>12, <1>13, <1>14, <1>15 DEF IInv

\* A slot that is given up takes nothing from the others.
LEMMA FreeSafe == IInv /\ Free => IInv'
  <1> SUFFICES ASSUME IInv, Free
               PROVE  IInv'
    OBVIOUS
  <1> DEFINE d == Current.sources[1]
  <1>1. /\ Importing /\ Current.op = "free" /\ Step
        /\ live' = [live EXCEPT ![d] = None] /\ slots' = [slots EXCEPT ![d] = None]
        /\ objects' = objects /\ pending' = pending /\ values' = values /\ memory' = memory /\ ddr' = ddr
    BY DEF Free, Fill
  <1>2. d \in Slots
    BY <1>1, Format
  <1>3. code' = code /\ status' = status /\ pos' = pos + 1 /\ pos \in Nat \ {0}
    BY <1>1 DEF Step, IInv, Types
  <1> HIDE DEF d
  <1>4. /\ live \in [Slots -> (1 .. Len(objects)) \cup {None}] /\ Len(objects) \in Nat
        /\ slots = [s \in Slots |-> slots[s]]
    BY DEF IInv, Types
  <1>5. /\ live' \in [Slots -> (1 .. Len(objects)) \cup {None}] /\ live'[d] = None
        /\ \A s \in Slots : s # d => live'[s] = live[s]
    BY <1>1, <1>2, <1>4
  <1>6. slots' = [s \in Slots |-> slots'[s]] /\ \A s \in Slots : s # d => slots'[s] = slots[s]
    BY <1>1, <1>2, <1>4
  <1>7. Types'
    BY <1>1, <1>3, <1>5, <1>6 DEF IInv, Types
  <1>8. Lengths'
    BY <1>1 DEF IInv, Lengths, Lines
  <1>9. Injective' /\ Agree'
    BY <1>1, <1>5, <1>6 DEF IInv, Injective, Agree
  <1>10. Kept' /\ AwaitedOnce'
    <2>1. ASSUME NEW q \in pending, q.load >= pos + 1
          PROVE  \A s \in Slots : live'[s] # q.object
      <3>1. q.load \in Nat /\ q.object # None
        <4>1. q.load \in DOMAIN code /\ q.object \in 1 .. Len(objects)
          BY DEF IInv, Kept
        <4> QED
          BY <1>1, <1>4, <4>1, CurrentInstruction, NoneAssumption
      <3>2. q.load >= pos
        BY <1>3, <2>1, <3>1
      <3>3. \A s \in Slots : live[s] # q.object
        BY <3>2 DEF IInv, Kept
      <3> QED
        BY <1>5, <3>1, <3>3
    <2>2. Len(objects') \in Nat /\ Len(objects) <= Len(objects')
      BY <1>1, <1>4
    <2> QED
      BY <1>1, <2>1, <2>2, KeptStep
  <1>11. Stale'
    BY <1>1, StaleStep
  <1> QED
    BY <1>7, <1>8, <1>9, <1>10, <1>11 DEF IInv
\* The machine computes from its slots what the virtual program does from objects.
LEMMA KernelResult ==
    ASSUME IInv, Importing, Current.op \in {"stage", "arith", "mac"}, Accepted
    PROVE  /\ OnMachine = OnObjects /\ IsTuple(OnObjects)
           /\ Current.dst \in Slots /\ Current.sources[1] \in Slots /\ live[Current.sources[1]] # None
           /\ Current.op = "arith" => Len(OnObjects) = Lines(live[Current.sources[1]])
           /\ Current.op # "arith" => live[Current.dst] # None /\ Len(OnObjects) = Lines(live[Current.dst])
  <1>1. /\ Current.dst \in Slots /\ Current.sources \in Seq(Slots)
        /\ 1 \in DOMAIN Current.sources /\ Current.sources[1] \in Slots
    BY Format
  <1>2. \A k \in DOMAIN Current.sources : Current.sources[k] \in Reads(Current) /\ Current.sources[k] \in Slots
    BY <1>1 DEF Reads, Range
  <1>3. Current.op # "arith" => Current.dst \in Reads(Current)
    BY DEF Reads
  <1>4. \A s \in Reads(Current) : live[s] # None
    BY DEF Accepted
  <1>5. live[Current.sources[1]] # None /\ (Current.op # "arith" => live[Current.dst] # None)
    BY <1>1, <1>2, <1>3, <1>4
  <1>6. /\ 1 \in DOMAIN Operands /\ \A k \in DOMAIN Operands : Operands[k] \in Slots /\ live[Operands[k]] # None
        /\ Operands[1] = IF Current.op = "arith" THEN Current.sources[1] ELSE Current.dst
    <2>1. CASE Current.op = "arith"
      <3>1. Operands = Current.sources
        BY <2>1 DEF Operands
      <3> QED
        BY <1>1, <1>2, <1>4, <2>1, <3>1
    <2>2. CASE Current.op # "arith"
      <3> DEFINE first == <<Current.dst>>
                 rest == Current.sources
      <3>1. Operands = first \o rest
        BY <2>2 DEF Operands
      <3>2. first \in Seq(Slots) /\ Len(first) = 1 /\ first[1] = Current.dst
        BY <1>1
      <3>3. rest \in Seq(Slots) /\ Len(rest) \in Nat /\ DOMAIN rest = 1 .. Len(rest)
        BY <1>1
      <3>4. \A k \in DOMAIN rest : rest[k] \in Slots /\ live[rest[k]] # None
        BY <1>2, <1>4
      <3>5. live[Current.dst] # None
        BY <1>5, <2>2
      <3> HIDE DEF first, rest
      <3>6. /\ first \o rest \in Seq(Slots) /\ Len(first \o rest) = 1 + Len(rest)
            /\ \A k \in 1 .. 1 + Len(rest) :
                  (first \o rest)[k] = IF k <= 1 THEN first[k] ELSE rest[k - 1]
        <4>1. /\ first \o rest \in Seq(Slots) /\ Len(first \o rest) = Len(first) + Len(rest)
              /\ \A k \in 1 .. Len(first) + Len(rest) :
                    (first \o rest)[k] = IF k <= Len(first) THEN first[k] ELSE rest[k - Len(first)]
          BY <3>2, <3>3, ConcatProperties
        <4> QED
          BY <3>2, <4>1
      <3>7. DOMAIN (first \o rest) = 1 .. 1 + Len(rest)
        BY <3>3, <3>6
      <3>8. \A k \in 1 .. 1 + Len(rest) : k = 1 \/ k - 1 \in DOMAIN rest
        BY <3>3
      <3>9. /\ (first \o rest)[1] = Current.dst
            /\ \A k \in 1 .. 1 + Len(rest) :
                  (first \o rest)[k] \in Slots /\ live[(first \o rest)[k]] # None
        <4>1. (first \o rest)[1] = Current.dst
          BY <3>2, <3>3, <3>6
        <4>2. ASSUME NEW k \in 1 .. 1 + Len(rest), k # 1
              PROVE  (first \o rest)[k] \in Slots /\ live[(first \o rest)[k]] # None
          <5>1. (first \o rest)[k] = rest[k - 1] /\ k - 1 \in DOMAIN rest
            BY <3>3, <3>6, <3>8, <4>2
          <5> QED
            BY <3>4, <5>1
        <4> QED
          BY <1>1, <3>5, <4>1, <4>2
      <3> QED
        BY <2>2, <3>1, <3>3, <3>7, <3>9
    <2> QED
      BY <2>1, <2>2
  <1> DEFINE held == [k \in DOMAIN Operands |-> values[live[Operands[k]]]]
             width == Len(held[1])
  <1>7. \A k \in DOMAIN Operands : slots[Operands[k]] = values[live[Operands[k]]]
    BY <1>6, LiveSlot
  <1>8. [k \in DOMAIN Operands |-> slots[Operands[k]]] = held
    BY <1>7
  <1>9. OnMachine = OnObjects
    BY <1>8 DEF OnMachine, OnObjects
  <1>10. width = Lines(live[Operands[1]]) /\ width \in Nat
    <2>1. held[1] = values[live[Operands[1]]]
      BY <1>6
    <2>2. Len(values[live[Operands[1]]]) = Lines(live[Operands[1]]) /\ Lines(live[Operands[1]]) \in Nat
      BY <1>6, LiveSlot
    <2> HIDE DEF held
    <2> QED
      BY <2>1, <2>2
  <1>11. IsTuple(OnObjects) /\ Len(OnObjects) = width
    <2> DEFINE f == OnObjects
    <2>1. f = [k \in 1 .. width |-> f[k]]
      BY DEF OnObjects, Computed, Result
    <2> HIDE DEF f, held, width
    <2>2. IsTuple(f) /\ Len(f) = width
      BY <1>10, <2>1, FunctionTuple
    <2> QED
      BY <2>2 DEF f
  <1> HIDE DEF held, width
  <1> QED
    BY <1>1, <1>5, <1>6, <1>9, <1>10, <1>11

LEMMA KernelToNewSafe == IInv /\ KernelToNew => IInv'
  <1> SUFFICES ASSUME IInv, KernelToNew
               PROVE  IInv'
    OBVIOUS
  <1> DEFINE kind == [objects[live[Current.sources[1]]].kind EXCEPT !.mask = {}]
  <1>1. /\ Importing /\ Current.op = "arith" /\ Accepted /\ Step
        /\ NewObject(Current.dst, kind, OnObjects) /\ slots' = [slots EXCEPT ![Current.dst] = OnMachine]
        /\ pending' = pending /\ memory' = memory /\ ddr' = ddr
    BY DEF KernelToNew, Fill
  <1>2. /\ OnMachine = OnObjects /\ IsTuple(OnObjects) /\ Current.dst \in Slots
        /\ Current.sources[1] \in Slots /\ live[Current.sources[1]] # None
    BY <1>1, KernelResult
  <1>3. kind \in Kinds
    <2>1. objects[live[Current.sources[1]]] \in Shapes
      BY <1>2, LiveSlot
    <2>2. objects[live[Current.sources[1]]].kind \in Kinds
      BY <2>1 DEF Shapes
    <2> QED
      BY <2>2 DEF Kinds
  <1> HIDE DEF kind
  <1> QED
    BY <1>1, <1>2, <1>3, NewObjectSafe

LEMMA KernelInPlaceSafe == IInv /\ KernelInPlace => IInv'
  <1> SUFFICES ASSUME IInv, KernelInPlace
               PROVE  IInv'
    OBVIOUS
  <1> DEFINE d == Current.dst
             o == live[d]
  <1>1. /\ Importing /\ Current.op \in {"stage", "arith", "mac"} /\ Accepted /\ InPlace /\ Step
        /\ values' = [values EXCEPT ![o] = OnObjects] /\ slots' = [slots EXCEPT ![d] = OnMachine]
        /\ live' = live /\ objects' = objects /\ pending' = pending /\ memory' = memory /\ ddr' = ddr
    BY DEF KernelInPlace, Fill
  <1>2. /\ OnMachine = OnObjects /\ IsTuple(OnObjects) /\ d \in Slots
        /\ live[d] # None /\ Len(OnObjects) = Lines(live[d])
    <2>1. /\ OnMachine = OnObjects /\ IsTuple(OnObjects) /\ d \in Slots
          /\ Current.op = "arith" => Len(OnObjects) = Lines(live[Current.sources[1]])
          /\ Current.op # "arith" => live[d] # None /\ Len(OnObjects) = Lines(live[d])
      BY <1>1, KernelResult
    <2>2. Current.op = "arith" => live[d] # None /\ Lines(live[d]) = Lines(live[Current.sources[1]])
      BY <1>1 DEF InPlace
    <2> QED
      BY <2>1, <2>2
  <1>3. code' = code /\ status' = status /\ pos' = pos + 1 /\ pos \in Nat \ {0}
    BY <1>1 DEF Step, IInv, Types
  <1>4. /\ live \in [Slots -> (1 .. Len(objects)) \cup {None}] /\ Len(objects) \in Nat
        /\ slots = [s \in Slots |-> slots[s]] /\ IsTuple(values) /\ Len(values) = Len(objects)
    BY DEF IInv, Types
  <1>5. o \in 1 .. Len(objects)
    BY <1>2, LiveSlot
  <1>6. PICK read : read = OnObjects
    OBVIOUS
  <1>7. o = live[d]
    OBVIOUS
  <1> HIDE DEF d, o
  <1>8. /\ IsTuple(values') /\ Len(values') = Len(objects) /\ values'[o] = read
        /\ \A k \in 1 .. Len(objects) : k # o => values'[k] = values[k]
    <2>1. DOMAIN values = 1 .. Len(objects) /\ values' = [values EXCEPT ![o] = read]
      BY <1>1, <1>4, <1>6, TupleSeq
    <2>2. values' = [k \in 1 .. Len(objects) |-> values'[k]]
      BY <2>1
    <2>3. IsTuple(values') /\ Len(values') = Len(objects)
      BY <1>4, <2>2, FunctionTuple
    <2> QED
      BY <1>5, <2>1, <2>3
  <1>9. /\ slots' = [s \in Slots |-> slots'[s]] /\ slots'[d] = read
        /\ \A s \in Slots : s # d => slots'[s] = slots[s]
    BY <1>1, <1>2, <1>4, <1>6
  <1>10. Types'
    BY <1>1, <1>3, <1>8, <1>9 DEF IInv, Types
  <1>11. Lengths'
    <2>1. \A k \in 1 .. Len(objects) : IsTuple(values[k]) /\ Len(values[k]) = objects[k].lines
      BY DEF IInv, Lengths, Lines
    <2>2. IsTuple(read) /\ Len(read) = objects[o].lines
      BY <1>2, <1>6, <1>7 DEF Lines
    <2>3. \A k \in 1 .. Len(objects) : IsTuple(values'[k]) /\ Len(values'[k]) = objects[k].lines
      BY <1>8, <2>1, <2>2
    <2> QED
      BY <1>1, <2>3 DEF Lengths, Lines
  <1>12. Injective'
    BY <1>1 DEF IInv, Injective
  <1>13. Agree'
    <2> SUFFICES ASSUME NEW s \in Slots, live[s] # None
                 PROVE  slots'[s] = values'[live[s]]
      BY <1>1 DEF Agree
    <2>1. live[s] \in 1 .. Len(objects) /\ slots[s] = values[live[s]]
      BY LiveSlot
    <2>2. CASE s = d
      BY <1>7, <1>8, <1>9, <2>2
    <2>3. CASE s # d
      <3>1. live[s] # o
        BY <1>2, <1>7, <2>3 DEF IInv, Injective
      <3> QED
        BY <1>8, <1>9, <2>1, <2>3, <3>1
    <2> QED
      BY <2>2, <2>3
  <1>14. Kept' /\ AwaitedOnce'
    <2>1. ASSUME NEW r \in pending, r.load >= pos + 1, r.object \in 1 .. Len(objects)
          PROVE  (\A s \in Slots : live'[s] # r.object) /\ values'[r.object] = values[r.object]
      <3>1. r.load \in Nat
        <4>1. r.load \in DOMAIN code
          BY DEF IInv, Kept
        <4> QED
          BY <1>1, <4>1, CurrentInstruction
      <3>2. r.load >= pos
        BY <1>3, <2>1, <3>1
      <3>3. \A s \in Slots : live[s] # r.object
        BY <3>2 DEF IInv, Kept
      <3> QED
        BY <1>1, <1>2, <1>7, <1>8, <2>1, <3>3
    <2>2. Len(objects') \in Nat /\ Len(objects) <= Len(objects')
      BY <1>1, <1>4
    <2> QED
      BY <1>1, <2>1, <2>2, KeptStep
  <1>15. Stale'
    BY <1>1, StaleStep
  <1> QED
    BY <1>10, <1>11, <1>12, <1>13, <1>14, <1>15 DEF IInv

LEMMA PassOnSafe == IInv /\ PassOn => IInv'
  <1> SUFFICES ASSUME IInv, PassOn
               PROVE  IInv'
    OBVIOUS
  <1>1. /\ Importing /\ Step /\ Current.op # "store"
        /\ live' = live /\ objects' = objects /\ pending' = pending /\ values' = values
        /\ memory' = memory /\ slots' = slots /\ ddr' = ddr
    BY DEF PassOn
  <1>2. code' = code /\ status' = status /\ pos' = pos + 1 /\ pos \in Nat \ {0} /\ Len(objects) \in Nat
    BY <1>1 DEF Step, IInv, Types
  <1>3. Types'
    BY <1>1, <1>2 DEF IInv, Types
  <1>4. Lengths' /\ Injective' /\ Agree'
    BY <1>1 DEF IInv, Lengths, Lines, Injective, Agree
  <1>5. Kept' /\ AwaitedOnce'
    <2>1. ASSUME NEW r \in pending, r.load >= pos + 1
          PROVE  \A s \in Slots : live'[s] # r.object
      <3>1. r.load \in Nat
        <4>1. r.load \in DOMAIN code
          BY DEF IInv, Kept
        <4> QED
          BY <1>1, <4>1, CurrentInstruction
      <3>2. r.load >= pos
        BY <1>2, <2>1, <3>1
      <3> QED
        BY <1>1, <3>2 DEF IInv, Kept
    <2>2. Len(objects') \in Nat /\ Len(objects) <= Len(objects')
      BY <1>1, <1>2
    <2> QED
      BY <1>1, <2>1, <2>2, KeptStep
  <1>6. Stale'
    BY <1>1, StaleStep
  <1> QED
    BY <1>3, <1>4, <1>5, <1>6 DEF IInv

\* Checks and the return change only the status.
LEMMA StatusSafe ==
    ASSUME IInv, Validate \/ Reject \/ Return \/ UNCHANGED vars
    PROVE  IInv'
  <1>1. /\ code' = code /\ pos' = pos /\ live' = live /\ objects' = objects /\ pending' = pending
        /\ values' = values /\ memory' = memory /\ slots' = slots /\ ddr' = ddr
    BY DEF Validate, Reject, Return, vars
  <1>2. status' \in {"new", "importing", "rejected", "done"}
    <2>1. CASE Validate
      BY <2>1 DEF Validate
    <2>2. CASE Reject \/ Return
      BY <2>2 DEF Reject, Return
    <2>3. CASE UNCHANGED vars
      BY <2>3 DEF vars, IInv, Types
    <2> QED
      BY <2>1, <2>2, <2>3
  <1>3. Types'
    BY <1>1, <1>2 DEF IInv, Types
  <1>4. Lengths' /\ Injective' /\ Agree'
    BY <1>1 DEF IInv, Lengths, Lines, Injective, Agree
  <1>5. Kept' /\ AwaitedOnce' /\ Stale'
    BY <1>1 DEF IInv, Kept, AwaitedOnce, Stale
  <1> QED
    BY <1>3, <1>4, <1>5 DEF IInv
\* What a store stores, to the memory of the machine and to that of the virtual program.
LEMMA StoreStep ==
    ASSUME IInv, Store
    PROVE  LET s == Current.sources[1]
               o == live[s]
           IN  /\ Importing /\ Current.op = "store" /\ Step /\ Current.range \in Views
               /\ s \in Slots /\ o # None /\ o \in 1 .. Len(objects)
               /\ memory' = [cell \in ImageCells |-> memory'[cell]]
               /\ ddr' = [cell \in ImageCells |-> ddr'[cell]]
               /\ Read(ddr', Current.range) = values[o]
               /\ \A cell \in ImageCells :
                     cell \notin Cells(Current) => memory'[cell] = memory[cell] /\ ddr'[cell] = ddr[cell]
               /\ Paired = 0 => pending' = pending /\ \A cell \in Cells(Current) : memory'[cell] = ddr'[cell]
               /\ Paired # 0 => pending' = pending \cup {[load |-> Paired, object |-> o]}
  <1> DEFINE s == Current.sources[1]
             o == live[s]
             range == Current.range
  <1>1. /\ Importing /\ Current.op = "store" /\ Accepted /\ Step
        /\ IF Paired # 0
           THEN pending' = pending \cup {[load |-> Paired, object |-> o]} /\ memory' = memory
           ELSE memory' = Written(memory, range, values[o]) /\ pending' = pending
        /\ ddr' = Written(ddr, range, slots[s])
    BY DEF Store
  <1>2. s \in Slots /\ 1 \in DOMAIN Current.sources /\ range \in Views
    BY <1>1, Format
  <1>3. o # None /\ Lines(o) = Len(range)
    <2>1. s \in Reads(Current)
      BY <1>2 DEF Reads, Range
    <2> QED
      BY <1>1, <2>1 DEF Accepted
  <1>4. /\ o \in 1 .. Len(objects) /\ slots[s] = values[o] /\ IsTuple(values[o]) /\ Len(values[o]) = Len(range)
    BY <1>2, <1>3, LiveSlot
  <1>5. memory = [cell \in ImageCells |-> memory[cell]] /\ ddr = [cell \in ImageCells |-> ddr[cell]]
    BY DEF IInv, Types
  <1>6. PICK value : value = values[o]
    OBVIOUS
  <1>7. PICK there : there = range
    OBVIOUS
  <1>8. Range(there) = Cells(Current)
    BY <1>7 DEF Cells
  <1> HIDE DEF o, s, range
  <1>9. /\ ddr' = [cell \in ImageCells |-> ddr'[cell]]
        /\ \A k \in DOMAIN there : ddr'[there[k]] = value[k]
        /\ \A cell \in ImageCells : cell \notin Range(there) => ddr'[cell] = ddr[cell]
        /\ Read(ddr', there) = value
    <2>1. ddr' = Written(ddr, there, value)
      BY <1>1, <1>4, <1>6, <1>7
    <2> QED
      BY <1>2, <1>4, <1>5, <1>6, <1>7, <2>1, WrittenCells
  <1>10. CASE Paired # 0
    BY <1>1, <1>2, <1>3, <1>4, <1>5, <1>6, <1>7, <1>8, <1>9, <1>10 DEF o, s, range
  <1>11. CASE Paired = 0
    <2>1. memory' = Written(memory, there, value) /\ pending' = pending
      BY <1>1, <1>6, <1>7, <1>11
    <2>2. /\ memory' = [cell \in ImageCells |-> memory'[cell]]
          /\ \A k \in DOMAIN there : memory'[there[k]] = value[k]
          /\ \A cell \in ImageCells : cell \notin Range(there) => memory'[cell] = memory[cell]
      BY <1>2, <1>4, <1>5, <1>6, <1>7, <2>1, WrittenCells
    <2>3. \A cell \in Range(there) : memory'[cell] = ddr'[cell]
      BY <1>9, <2>2 DEF Range
    <2> QED
      BY <1>1, <1>2, <1>3, <1>4, <1>6, <1>7, <1>8, <1>9, <1>11, <2>1, <2>2, <2>3 DEF o, s, range
  <1> QED
    BY <1>10, <1>11

\* The slots after a store: the stored one is given up if the store says so.
LEMMA StoreSlots ==
    ASSUME IInv, Store
    PROVE  /\ objects' = objects /\ values' = values
           /\ live' \in [Slots -> (1 .. Len(objects)) \cup {None}] /\ slots' = [s \in Slots |-> slots'[s]]
           /\ \A s \in Slots : live'[s] # None => live'[s] = live[s] /\ slots'[s] = slots[s]
           /\ Current.release => live'[Current.sources[1]] = None
  <1> DEFINE d == Current.sources[1]
  <1>1. /\ objects' = objects /\ values' = values
        /\ live' = [live EXCEPT ![d] = IF Current.release THEN None ELSE live[d]]
        /\ slots' = [slots EXCEPT ![d] = IF Current.release THEN None ELSE slots[d]]
    BY DEF Store
  <1>2. d \in Slots
    BY StoreStep
  <1>3. live \in [Slots -> (1 .. Len(objects)) \cup {None}] /\ slots = [s \in Slots |-> slots[s]]
    BY DEF IInv, Types
  <1> HIDE DEF d
  <1>4. CASE Current.release
    <2>1. /\ live' \in [Slots -> (1 .. Len(objects)) \cup {None}] /\ live'[d] = None
          /\ \A s \in Slots : s # d => live'[s] = live[s]
      BY <1>1, <1>2, <1>3, <1>4
    <2>2. slots' = [s \in Slots |-> slots'[s]] /\ \A s \in Slots : s # d => slots'[s] = slots[s]
      BY <1>1, <1>2, <1>3, <1>4
    <2> QED
      BY <1>1, <2>1, <2>2 DEF d
  <1>5. CASE ~ Current.release
    <2>1. live' = live
      BY <1>1, <1>2, <1>3, <1>5
    <2>2. slots' = slots
      <3>1. slots' = [slots EXCEPT ![d] = slots[d]]
        BY <1>1, <1>5
      <3> QED
        BY <1>3, <3>1
    <2> QED
      BY <1>1, <1>3, <1>5, <2>1, <2>2
  <1> QED
    BY <1>4, <1>5

AllDisciplined == \A p \in Programs : Disciplined(p)

\* A store that is left out gives its slot up, and its consumer is the next to
\* touch the cells.
LEMMA PairedStore ==
    ASSUME AllDisciplined, IInv, Store, Paired # 0
    PROVE  /\ Current.release
           /\ Paired \in pos + 1 .. Len(code) /\ Paired \in DOMAIN code
           /\ code[Paired].op = "load" /\ code[Paired].range = Current.range /\ Cells(Current) \subseteq Workspace
           /\ \A n \in pos + 1 .. Paired - 1 : IsDma(code[n]) => Cells(code[n]) \cap Cells(Current) = {}
           /\ \A n \in Paired + 1 .. Len(code) :
                 code[n].op = "load" /\ Cells(code[n]) \cap Cells(Current) # {} =>
                    \E m \in Paired + 1 .. n - 1 : code[m].op = "store" /\ Cells(Current) \subseteq Cells(code[m])
  <1>1. Importing /\ Current.op = "store"
    BY StoreStep
  <1>2. /\ code \in Seq(Encodings) /\ Len(code) \in Nat /\ DOMAIN code = 1 .. Len(code) /\ pos \in 1 .. Len(code)
    BY <1>1, CurrentInstruction
  <1>3. Paired = Consumer(code, pos) /\ Consumer(code, pos) # 0
    BY DEF Paired
  <1>4. Current.release
    <2>1. Disciplined(code)
      BY DEF AllDisciplined, IInv, Types
    <2>2. code[pos].op = "store" /\ ~ code[pos].release => Consumer(code, pos) = 0
      BY <1>2, <2>1 DEF Disciplined
    <2>3. Current.release \in BOOLEAN
      BY <1>1, CurrentInstruction DEF Encodings
    <2> QED
      BY <1>1, <1>3, <2>2, <2>3 DEF Current
  <1> DEFINE load == Consumer(code, pos)
  <1>5. /\ load \in pos + 1 .. Len(code) /\ code[load].op = "load"
        /\ code[load].range = code[pos].range /\ Cells(code[pos]) \subseteq Workspace
        /\ \A n \in pos + 1 .. load - 1 : IsDma(code[n]) => Cells(code[n]) \cap Cells(code[pos]) = {}
        /\ \A n \in load + 1 .. Len(code) :
              code[n].op = "load" /\ Cells(code[n]) \cap Cells(code[pos]) # {} =>
                 \E m \in load + 1 .. n - 1 : code[m].op = "store" /\ Cells(code[pos]) \subseteq Cells(code[m])
    BY <1>2, <1>3, ConsumerReads
  <1>6. load \in DOMAIN code
    BY <1>2, <1>5
  <1> HIDE DEF load
  <1> QED
    BY <1>3, <1>4, <1>5, <1>6 DEF Current, load

\* Objects that await their reload still hold what memory does, the new one too.
LEMMA StoreKept ==
    ASSUME AllDisciplined, IInv, Store
    PROVE  Kept' /\ AwaitedOnce'
  <1> DEFINE o == live[Current.sources[1]]
             stored == [load |-> Paired, object |-> o]
  <1>1. /\ Importing /\ Current.op = "store" /\ pos' = pos + 1 /\ code' = code
        /\ Current.sources[1] \in Slots /\ o # None /\ o \in 1 .. Len(objects)
        /\ Read(ddr', Current.range) = values[o]
        /\ \A cell \in ImageCells : cell \notin Cells(Current) => ddr'[cell] = ddr[cell]
        /\ Paired = 0 => pending' = pending
        /\ Paired # 0 => pending' = pending \cup {stored}
    BY StoreStep DEF Step
  <1>2. /\ objects' = objects /\ values' = values
        /\ \A s \in Slots : live'[s] # None => live'[s] = live[s]
        /\ Current.release => live'[Current.sources[1]] = None
    BY StoreSlots
  <1>3. /\ DOMAIN code = 1 .. Len(code) /\ Len(code) \in Nat /\ pos \in 1 .. Len(code)
        /\ \A n \in DOMAIN code : code[n] \in Encodings
    BY <1>1, CurrentInstruction
  <1>4. stored.load = Paired /\ stored.object = o
    OBVIOUS
  <1> HIDE DEF o, stored
  <1>5. ASSUME NEW r \in pending
        PROVE  /\ r.load \in DOMAIN code /\ r.load \in Nat
               /\ r.object \in 1 .. Len(objects) /\ r.object # None /\ code[r.load].op = "load"
               /\ r.load >= pos + 1 => r.load >= pos
               /\ r.load >= pos =>
                     /\ \A s \in Slots : live[s] # r.object
                     /\ values[r.object] = Read(ddr, code[r.load].range)
                     /\ \A n \in pos .. r.load - 1 :
                           code[n].op = "store" => Cells(code[n]) \cap Cells(code[r.load]) = {}
    <2>1. r.load \in DOMAIN code /\ r.object \in 1 .. Len(objects)
      BY DEF IInv, Kept
    <2>2. r.load \in Nat /\ r.object # None /\ (r.load >= pos + 1 => r.load >= pos)
      <3>1. Len(objects) \in Nat
        BY DEF IInv, Types
      <3> QED
        BY <1>3, <2>1, <3>1, NoneAssumption
    <2> QED
      BY <2>1, <2>2 DEF IInv, Kept
  <1>6. Kept'
    <2> SUFFICES ASSUME NEW r \in pending'
                 PROVE  /\ r.load \in DOMAIN code /\ r.object \in 1 .. Len(objects) /\ code[r.load].op = "load"
                        /\ r.load >= pos + 1 =>
                              /\ \A s \in Slots : live'[s] # r.object
                              /\ values[r.object] = Read(ddr', code[r.load].range)
                              /\ \A n \in pos + 1 .. r.load - 1 :
                                    code[n].op = "store" => Cells(code[n]) \cap Cells(code[r.load]) = {}
      BY <1>1, <1>2 DEF Kept
    <2>1. CASE r \in pending
      <3>1. CASE r.load >= pos + 1
        <4>1. r.load >= pos /\ pos \in pos .. r.load - 1 /\ pos + 1 .. r.load - 1 \subseteq pos .. r.load - 1
          BY <1>3, <1>5, <2>1, <3>1
        <4>2. Cells(Current) \cap Cells(code[r.load]) = {}
          BY <1>1, <1>5, <2>1, <4>1 DEF Current
        <4>3. \A cell \in Range(code[r.load].range) : ddr'[cell] = ddr[cell]
          <5>1. code[r.load].range \in Seq(ImageCells)
            BY <1>3, <1>5, <2>1 DEF Encodings, Views
          <5>2. Cells(code[r.load]) \subseteq ImageCells
            BY <5>1 DEF Cells, Range
          <5>3. \A cell \in Cells(code[r.load]) : ddr'[cell] = ddr[cell]
            BY <1>1, <4>2, <5>2
          <5> QED
            BY <5>3 DEF Cells
        <4>4. Read(ddr', code[r.load].range) = Read(ddr, code[r.load].range)
          BY <4>3, SameRead
        <4>5. \A s \in Slots : live'[s] # r.object
          BY <1>2, <1>5, <2>1, <4>1
        <4>6. \A n \in pos + 1 .. r.load - 1 : code[n].op = "store" => Cells(code[n]) \cap Cells(code[r.load]) = {}
          BY <1>5, <2>1, <4>1
        <4> QED
          BY <1>5, <2>1, <4>1, <4>4, <4>5, <4>6
      <3> QED
        BY <1>5, <2>1, <3>1
    <2>2. CASE r \notin pending
      <3>1. Paired # 0 /\ r.load = Paired /\ r.object = o
        BY <1>1, <1>4, <2>2
      <3>2. /\ Current.release /\ Paired \in DOMAIN code /\ code[Paired].op = "load"
            /\ code[Paired].range = Current.range
            /\ \A n \in pos + 1 .. Paired - 1 : IsDma(code[n]) => Cells(code[n]) \cap Cells(Current) = {}
        BY <3>1, PairedStore
      <3>3. \A n \in pos + 1 .. Paired - 1 : code[n].op = "store" => Cells(code[n]) \cap Cells(code[Paired]) = {}
        BY <3>2 DEF IsDma, Cells
      <3>4. \A s \in Slots : live'[s] # o
        <4>1. \A s \in Slots : live[s] = o => s = Current.sources[1]
          BY <1>1 DEF IInv, Injective, o
        <4> QED
          BY <1>1, <1>2, <3>2, <4>1
      <3> QED
        BY <1>1, <3>1, <3>2, <3>3, <3>4
    <2> QED
      BY <2>1, <2>2
  <1>7. AwaitedOnce'
    <2> SUFFICES ASSUME NEW r \in pending', NEW q \in pending',
                        r.load >= pos + 1, q.load >= pos + 1, r.object = q.object
                 PROVE  r = q
      BY <1>1 DEF AwaitedOnce
    <2>1. \A p \in pending : p.load >= pos + 1 => p.object # o
      <3>1. \A p \in pending : p.load >= pos + 1 => p.load >= pos /\ \A s \in Slots : live[s] # p.object
        BY <1>5
      <3> QED
        BY <1>1, <3>1 DEF o
    <2>2. CASE r \in pending /\ q \in pending
      BY <1>5, <2>2 DEF IInv, AwaitedOnce
    <2>3. CASE ~ (r \in pending /\ q \in pending)
      BY <1>1, <1>4, <2>1, <2>3
    <2> QED
      BY <2>2, <2>3
  <1> QED
    BY <1>6, <1>7

\* Memory that a store leaves out is looked at by nobody else.
LEMMA StoreStale ==
    ASSUME AllDisciplined, IInv, Store
    PROVE  Stale'
  <1> DEFINE stored == [load |-> Paired, object |-> live[Current.sources[1]]]
  <1>1. /\ Importing /\ Current.op = "store" /\ pos' = pos + 1 /\ code' = code
        /\ \A cell \in ImageCells :
              cell \notin Cells(Current) => memory'[cell] = memory[cell] /\ ddr'[cell] = ddr[cell]
        /\ Paired = 0 => pending' = pending /\ \A cell \in Cells(Current) : memory'[cell] = ddr'[cell]
        /\ Paired # 0 => pending' = pending \cup {stored}
    BY StoreStep DEF Step
  <1>2. DOMAIN code = 1 .. Len(code) /\ Len(code) \in Nat /\ pos \in 1 .. Len(code)
    BY <1>1, CurrentInstruction
  <1>3. stored.load = Paired
    OBVIOUS
  <1> HIDE DEF stored
  <1> SUFFICES ASSUME NEW cell \in ImageCells, memory'[cell] # ddr'[cell]
               PROVE  /\ cell \in Workspace
                      /\ \A n \in DOMAIN code :
                            n >= pos + 1 /\ code[n].op = "load" /\ cell \in Cells(code[n]) =>
                               \/ \E m \in pos + 1 .. n - 1 : code[m].op = "store" /\ cell \in Cells(code[m])
                               \/ \E r \in pending' : r.load = n
    BY <1>1 DEF Stale
  <1>4. CASE cell \in Cells(Current)
    <2>1. Paired # 0
      BY <1>1, <1>4
    <2>2. \E r \in pending' : r.load = Paired
      BY <1>1, <1>3, <2>1
    <2>3. /\ Paired \in pos + 1 .. Len(code) /\ Cells(Current) \subseteq Workspace
          /\ \A n \in pos + 1 .. Paired - 1 : IsDma(code[n]) => Cells(code[n]) \cap Cells(Current) = {}
          /\ \A n \in Paired + 1 .. Len(code) :
                code[n].op = "load" /\ Cells(code[n]) \cap Cells(Current) # {} =>
                   \E m \in Paired + 1 .. n - 1 : code[m].op = "store" /\ Cells(Current) \subseteq Cells(code[m])
      BY <2>1, PairedStore
    <2>4. ASSUME NEW n \in DOMAIN code, n >= pos + 1, code[n].op = "load", cell \in Cells(code[n])
          PROVE  \/ \E m \in pos + 1 .. n - 1 : code[m].op = "store" /\ cell \in Cells(code[m])
                 \/ \E r \in pending' : r.load = n
      <3>1. Cells(code[n]) \cap Cells(Current) # {} /\ IsDma(code[n])
        BY <1>4, <2>4 DEF IsDma
      <3>2. CASE n < Paired
        <4>1. n \in pos + 1 .. Paired - 1
          BY <1>2, <2>3, <2>4, <3>2
        <4> QED
          BY <2>3, <3>1, <4>1
      <3>3. CASE n = Paired
        BY <2>2, <3>3
      <3>4. CASE n > Paired
        <4>1. n \in Paired + 1 .. Len(code)
          BY <1>2, <2>3, <3>4
        <4>2. PICK m \in Paired + 1 .. n - 1 : code[m].op = "store" /\ Cells(Current) \subseteq Cells(code[m])
          BY <2>3, <2>4, <3>1, <4>1
        <4>3. m \in pos + 1 .. n - 1
          BY <1>2, <2>3, <4>1, <4>2
        <4> QED
          BY <1>4, <4>2, <4>3
      <3> QED
        BY <1>2, <2>3, <3>2, <3>3, <3>4
    <2> QED
      BY <1>4, <2>3, <2>4
  <1>5. CASE cell \notin Cells(Current)
    <2>1. memory[cell] # ddr[cell]
      BY <1>1, <1>5
    <2>2. /\ cell \in Workspace
          /\ \A n \in DOMAIN code :
                n >= pos /\ code[n].op = "load" /\ cell \in Cells(code[n]) =>
                   \/ \E m \in pos .. n - 1 : code[m].op = "store" /\ cell \in Cells(code[m])
                   \/ \E r \in pending : r.load = n
      BY <2>1 DEF IInv, Stale
    <2>3. pending \subseteq pending'
      BY <1>1
    <2>4. ASSUME NEW n \in DOMAIN code, n >= pos + 1, code[n].op = "load", cell \in Cells(code[n])
          PROVE  \/ \E m \in pos + 1 .. n - 1 : code[m].op = "store" /\ cell \in Cells(code[m])
                 \/ \E r \in pending' : r.load = n
      <3>1. n >= pos
        BY <1>2, <2>4
      <3>2. CASE \E r \in pending : r.load = n
        BY <2>3, <3>2
      <3>3. CASE \E m \in pos .. n - 1 : code[m].op = "store" /\ cell \in Cells(code[m])
        <4>1. PICK m \in pos .. n - 1 : code[m].op = "store" /\ cell \in Cells(code[m])
          BY <3>3
        <4>2. m # pos
          BY <1>5, <4>1 DEF Current
        <4>3. m \in pos + 1 .. n - 1
          BY <1>2, <4>2
        <4> QED
          BY <4>1, <4>3
      <3> QED
        BY <2>2, <2>4, <3>1, <3>2, <3>3
    <2> QED
      BY <2>2, <2>4
  <1> QED
    BY <1>4, <1>5

LEMMA StoreSafe ==
    ASSUME AllDisciplined, IInv, Store
    PROVE  IInv'
  <1>1. /\ Step /\ memory' = [cell \in ImageCells |-> memory'[cell]] /\ ddr' = [cell \in ImageCells |-> ddr'[cell]]
    BY StoreStep
  <1>2. /\ objects' = objects /\ values' = values
        /\ live' \in [Slots -> (1 .. Len(objects)) \cup {None}] /\ slots' = [s \in Slots |-> slots'[s]]
        /\ \A s \in Slots : live'[s] # None => live'[s] = live[s] /\ slots'[s] = slots[s]
    BY StoreSlots
  <1>3. code' = code /\ status' = status /\ pos' = pos + 1 /\ pos \in Nat \ {0}
    BY <1>1 DEF Step, IInv, Types
  <1>4. Types'
    BY <1>1, <1>2, <1>3 DEF IInv, Types
  <1>5. Lengths'
    BY <1>2 DEF IInv, Lengths, Lines
  <1>6. Injective' /\ Agree'
    BY <1>2 DEF IInv, Injective, Agree
  <1> QED
    BY <1>4, <1>5, <1>6, StoreKept, StoreStale DEF IInv

LEMMA Inductive ==
    ASSUME AllDisciplined, IInv, [Next]_vars
    PROVE  IInv'
  BY LoadSafe, ReloadSafe, StoreSafe, FreeSafe, KernelInPlaceSafe, KernelToNewSafe, PassOnSafe,
     StatusSafe DEF Next

LEMMA Import ==
    ASSUME AllDisciplined
    PROVE  Spec => []IInv
  <1>1. Init => IInv
    BY InitIInv
  <1>2. IInv /\ [Next]_vars => IInv'
    BY Inductive
  <1> QED
    BY <1>1, <1>2, PTL DEF Spec

-----------------------------------------------------------------------------
(* What follows.                                                           *)

LEMMA IInvTypeOK == IInv => TypeOK
  <1> SUFFICES ASSUME IInv
               PROVE  TypeOK
    OBVIOUS
  <1>1. /\ status \in {"new", "importing", "rejected", "done"}
        /\ DOMAIN objects = 1 .. Len(objects) /\ DOMAIN values = 1 .. Len(objects)
    BY TupleSeq DEF IInv, Types
  <1>2. \A o \in 1 .. Len(objects) : Len(values[o]) = Lines(o)
    BY DEF IInv, Lengths
  <1>3. \A s \in Slots : live[s] # None => live[s] \in 1 .. Len(objects) /\ Len(slots[s]) = Lines(live[s])
    BY LiveSlot
  <1>4. \A r \in pending : r.load \in DOMAIN code /\ r.object \in 1 .. Len(objects)
    BY DEF IInv, Kept
  <1> QED
    BY <1>1, <1>2, <1>3, <1>4 DEF TypeOK

\* Whatever stores are left out of a program that gives up the slots of those it
\* reads back, every slot of the machine holds what its object does.
THEOREM RegistersHeld ==
    ASSUME AllDisciplined
    PROVE  Spec => []RegistersAgree
  <1>1. IInv => RegistersAgree
    BY DEF IInv, Agree, RegistersAgree
  <1> QED
    BY <1>1, Import, PTL

\* Memory that is not scratch memory never differs, and objects are as long as
\* the slots that they stand for.
THEOREM OutputsStored ==
    ASSUME AllDisciplined
    PROVE  Spec => []OutputsAgree
  <1>1. IInv => OutputsAgree
    BY IInvTypeOK DEF IInv, Stale, OutputsAgree
  <1> QED
    BY <1>1, Import, PTL
==============================================================================
