------------------------ MODULE SsaOptimization_proofs ------------------------
(***************************************************************************)
(* Proofs about SsaOptimization, for any programs, memory image and        *)
(* required outputs.                                                       *)
(***************************************************************************)
EXTENDS SsaOptimization, SequenceTheorems, WellFoundedInduction, TLAPS

-----------------------------------------------------------------------------
(* Numbers and sequences.                                                  *)

\* A set of natural numbers has a least element.
LEMMA MinIn ==
    ASSUME NEW T, T \subseteq Nat, T # {}
    PROVE  Min(T) \in T /\ \A n \in T : Min(T) <= n
  <1> DEFINE R == OpToRel(<, Nat)
  <1>0. IsWellFoundedOn(R, Nat)
    BY NatLessThanWellFounded
  <1>1. \E m \in T : \A n \in T : ~ (<<n, m>> \in R)
    <2> HIDE DEF R
    <2> QED
      BY <1>0, WFMin
  <1>2. \A n, m \in Nat : n < m => <<n, m>> \in R
    BY DEF OpToRel
  <1>3. \E m \in T : \A n \in T : m <= n
    <2>1. PICK m \in T : \A n \in T : ~ (<<n, m>> \in R)
      BY <1>1
    <2>2. \A n \in T : ~ (n < m)
      BY <1>2, <2>1, Zenon
    <2> QED
      BY <2>2
  <1> QED
    BY <1>3 DEF Min

\* A bounded one has a greatest element.
LEMMA MaxIn ==
    ASSUME NEW T, NEW bound \in Nat, T \subseteq 0 .. bound, T # {}
    PROVE  Max(T) \in T /\ \A n \in T : n <= Max(T)
  <1> DEFINE mirror == {bound - n : n \in T}
  <1>1. mirror \subseteq Nat /\ mirror # {}
    <2>1. \A n \in T : bound - n \in Nat
      OBVIOUS
    <2> QED
      BY <2>1
  <1>2. Min(mirror) \in mirror /\ \A n \in mirror : Min(mirror) <= n
    BY <1>1, MinIn
  <1>3. PICK m \in T : Min(mirror) = bound - m
    BY <1>2
  <1>4. \A n \in T : bound - n \in mirror
    OBVIOUS
  <1>5. \A n \in T : n <= m
    <2> HIDE DEF mirror
    <2> QED
      BY <1>2, <1>3, <1>4
  <1> QED
    BY <1>5 DEF Max

\* A sequence of which nothing is said but its length.
IsTuple(s) == Len(s) \in Nat /\ s = [k \in 1 .. Len(s) |-> s[k]]

\* It is a sequence of its own elements, ...
LEMMA TupleSeq ==
    ASSUME NEW s, IsTuple(s)
    PROVE  s \in Seq(Range(s)) /\ DOMAIN s = 1 .. Len(s)
  <1> DEFINE n == Len(s)
             S == Range(s)
  <1>1. n \in Nat /\ s = [k \in 1 .. n |-> s[k]]
    BY DEF IsTuple
  <1>2. DOMAIN s = 1 .. n
    BY <1>1
  <1>3. \A k \in 1 .. n : s[k] \in S
    BY <1>2 DEF Range
  <1>4. s \in [1 .. n -> S]
    <2> HIDE DEF S, n
    <2> QED
      BY <1>1, <1>3
  <1>5. s \in Seq(S)
    <2> HIDE DEF S, n
    <2> QED
      BY <1>1, <1>4
  <1> QED
    BY <1>2, <1>5

\* ... and every sequence is one.
LEMMA SeqTuple ==
    ASSUME NEW S, NEW s \in Seq(S)
    PROVE  IsTuple(s)
  <1>1. s \in [1 .. Len(s) -> S] /\ Len(s) \in Nat
    OBVIOUS
  <1> QED
    BY <1>1 DEF IsTuple

\* A function on 1 .. n is a sequence of length n.
LEMMA FunctionTuple ==
    ASSUME NEW n \in Nat, NEW f, f = [k \in 1 .. n |-> f[k]]
    PROVE  IsTuple(f) /\ Len(f) = n
  <1> DEFINE S == Range(f)
  <1>1. DOMAIN f = 1 .. n
    OBVIOUS
  <1>2. \A k \in 1 .. n : f[k] \in S
    BY <1>1 DEF Range
  <1>3. f \in [1 .. n -> S]
    <2> HIDE DEF S
    <2> QED
      BY <1>2
  <1>4. f \in Seq(S) /\ Len(f) = n
    <2> HIDE DEF S
    <2> QED
      BY <1>3
  <1> QED
    BY <1>4 DEF IsTuple

\* Appending to a sequence.
LEMMA TupleAppend ==
    ASSUME NEW s, IsTuple(s), NEW x
    PROVE  /\ IsTuple(Append(s, x)) /\ Len(Append(s, x)) = Len(s) + 1
           /\ \A k \in 1 .. Len(s) : Append(s, x)[k] = s[k]
           /\ Append(s, x)[Len(s) + 1] = x
  <1> DEFINE S == Range(s) \cup {x}
             t == Append(s, x)
  <1>1. s \in Seq(Range(s))
    BY TupleSeq
  <1>2. s \in Seq(S)
    <2>1. Range(s) \subseteq S
      OBVIOUS
    <2> HIDE DEF S
    <2> QED
      BY <1>1, <2>1
  <1>3. x \in S
    OBVIOUS
  <1> HIDE DEF S
  <1>4. t \in Seq(S) /\ Len(t) = Len(s) + 1 /\ (\A k \in 1 .. Len(s) : t[k] = s[k]) /\ t[Len(s) + 1] = x
    BY <1>2, <1>3, AppendProperties
  <1>5. IsTuple(t)
    BY <1>4, SeqTuple
  <1> QED
    BY <1>4, <1>5

-----------------------------------------------------------------------------
(* The machine.                                                            *)

\* A machine that has run for a while.
Machine(m) ==
    /\ m = [values |-> m.values, memory |-> m.memory, table |-> m.table, modulus |-> m.modulus,
            selected |-> m.selected, seen |-> m.seen]
    /\ m.values = [v \in Values |-> m.values[v]]
    /\ m.memory = [c \in ImageCells |-> m.memory[c]]
    /\ IsTuple(m.seen)

\* The machine at the start.
LEMMA StartedMachine == Machine(Started)
  <1> DEFINE v == [x \in Values |-> None]
             c == [x \in ImageCells |-> InitialAtom(x)]
  <1>1. /\ Started.values = v /\ Started.memory = c /\ Started.table = None
        /\ Started.modulus = None /\ Started.selected = None /\ Started.seen = << >>
    BY DEF Started
  <1>2. Started = [values |-> Started.values, memory |-> Started.memory, table |-> Started.table,
                   modulus |-> Started.modulus, selected |-> Started.selected, seen |-> Started.seen]
    BY DEF Started
  <1>3. IsTuple(<< >>)
    BY DEF IsTuple
  <1>4. v = [x \in Values |-> v[x]] /\ c = [x \in ImageCells |-> c[x]]
    OBVIOUS
  <1> HIDE DEF v, c
  <1> QED
    BY <1>1, <1>2, <1>3, <1>4, Zenon DEF Machine

\* PMODLD.
LEMMA SelectingMachine ==
    ASSUME NEW m, Machine(m), NEW mod
    PROVE  LET s == Selecting(m, mod)
           IN  /\ Machine(s)
               /\ s.values = m.values /\ s.memory = m.memory /\ s.table = m.table /\ s.seen = m.seen
               /\ s.modulus = <<m.table, mod>> /\ s.selected = mod
  <1> DEFINE s == Selecting(m, mod)
             q == <<m.table, mod>>
  <1>0. s = [m EXCEPT !.modulus = q, !.selected = mod]
    BY DEF Selecting
  <1> HIDE DEF q, s
  <1>1. s = [values |-> m.values, memory |-> m.memory, table |-> m.table, modulus |-> q,
             selected |-> mod, seen |-> m.seen]
    BY <1>0 DEF Machine
  <1>2. /\ s.values = m.values /\ s.memory = m.memory /\ s.table = m.table /\ s.seen = m.seen
        /\ s.modulus = q /\ s.selected = mod
    BY <1>1
  <1>3. Machine(s)
    BY <1>1, <1>2 DEF Machine
  <1> QED
    BY <1>2, <1>3 DEF s, q

\* A load.
LEMMA LoadMachine ==
    ASSUME NEW m, Machine(m), NEW i, i.op = "load", i.output \in Values, NEW k
    PROVE  LET s == After(m, i, k)
           IN  /\ Machine(s)
               /\ s.values = [m.values EXCEPT ![i.output] = Read(m.memory, i.range)]
               /\ s.memory = m.memory /\ s.seen = m.seen /\ s.modulus = m.modulus
               /\ IsTable(i) => s.table = Read(m.memory, i.range) /\ s.selected = None
               /\ ~ IsTable(i) => s.table = m.table /\ s.selected = m.selected
  <1> DEFINE s == After(m, i, k)
             r == Read(m.memory, i.range)
             v == [m.values EXCEPT ![i.output] = r]
             t == IF IsTable(i) THEN r ELSE m.table
             d == IF IsTable(i) THEN None ELSE m.selected
  <1>1. s = [m EXCEPT !.values[i.output] = r, !.table = IF IsTable(i) THEN r ELSE @,
                      !.selected = IF IsTable(i) THEN None ELSE @]
    BY DEF After, Computes
  <1> HIDE DEF r
  <1>2. s = [values |-> v, memory |-> m.memory, table |-> t, modulus |-> m.modulus,
             selected |-> d, seen |-> m.seen]
    BY <1>1 DEF Machine
  <1>3. v = [x \in Values |-> v[x]]
    BY DEF Machine
  <1> HIDE DEF s, v, t, d
  <1>4. /\ s.values = v /\ s.memory = m.memory /\ s.table = t /\ s.seen = m.seen
        /\ s.modulus = m.modulus /\ s.selected = d
    BY <1>2
  <1>5. Machine(s)
    BY <1>2, <1>3, <1>4 DEF Machine
  <1> QED
    BY <1>4, <1>5 DEF s, v, t, d, r

\* A store.
LEMMA StoreMachine ==
    ASSUME NEW m, Machine(m), NEW i, i.op = "store", NEW k
    PROVE  LET s == After(m, i, k)
           IN  /\ Machine(s)
               /\ s.memory = Written(m.memory, i.range, m.values[i.inputs[1]])
               /\ s.values = m.values /\ s.seen = m.seen /\ s.modulus = m.modulus
               /\ s.table = m.table /\ s.selected = m.selected
  <1> DEFINE s == After(m, i, k)
             w == Written(m.memory, i.range, m.values[i.inputs[1]])
  <1>1. s = [m EXCEPT !.memory = w]
    BY DEF After, Computes
  <1>2. w = [x \in ImageCells |-> w[x]]
    BY DEF Machine, Written
  <1> HIDE DEF w
  <1>3. s = [values |-> m.values, memory |-> w, table |-> m.table, modulus |-> m.modulus,
             selected |-> m.selected, seen |-> m.seen]
    BY <1>1 DEF Machine
  <1> HIDE DEF s
  <1>4. /\ s.values = m.values /\ s.memory = w /\ s.table = m.table /\ s.seen = m.seen
        /\ s.modulus = m.modulus /\ s.selected = m.selected
    BY <1>3
  <1>5. Machine(s)
    BY <1>2, <1>3, <1>4 DEF Machine
  <1> QED
    BY <1>4, <1>5 DEF s, w

\* A synchronisation.
LEMMA SyncMachine ==
    ASSUME NEW m, Machine(m), NEW i, i.op = "sync", NEW k
    PROVE  LET s == After(m, i, k)
           IN  /\ Machine(s)
               /\ s.seen = Append(m.seen, [c \in Observable |-> m.memory[c]])
               /\ s.values = m.values /\ s.memory = m.memory /\ s.modulus = m.modulus
               /\ s.table = m.table /\ s.selected = m.selected
  <1> DEFINE s == After(m, i, k)
             n == Append(m.seen, [c \in Observable |-> m.memory[c]])
  <1>1. s = [m EXCEPT !.seen = Append(@, [c \in Observable |-> m.memory[c]])]
    BY DEF After, Computes
  <1>2. IsTuple(n)
    BY TupleAppend DEF Machine
  <1>3. s = [values |-> m.values, memory |-> m.memory, table |-> m.table, modulus |-> m.modulus,
             selected |-> m.selected, seen |-> n]
    BY <1>1 DEF Machine
  <1> HIDE DEF s, n
  <1>4. /\ s.values = m.values /\ s.memory = m.memory /\ s.table = m.table /\ s.seen = n
        /\ s.modulus = m.modulus /\ s.selected = m.selected
    BY <1>3
  <1>5. Machine(s)
    BY <1>2, <1>3, <1>4 DEF Machine
  <1> QED
    BY <1>4, <1>5 DEF s, n

\* An operation that computes.
LEMMA KernelMachine ==
    ASSUME NEW m, Machine(m), NEW i, Computes(i), i.output \in Values, NEW k
    PROVE  LET s == After(m, i, k)
           IN  /\ Machine(s)
               /\ s.values = [m.values EXCEPT ![i.output] =
                     Result(k, Len(m.values[i.inputs[1]]),
                            [n \in DOMAIN i.inputs |-> m.values[i.inputs[n]]], m.modulus)]
               /\ s.memory = m.memory /\ s.seen = m.seen /\ s.modulus = m.modulus
               /\ s.table = m.table /\ s.selected = m.selected
  <1> DEFINE s == After(m, i, k)
             r == Result(k, Len(m.values[i.inputs[1]]),
                         [n \in DOMAIN i.inputs |-> m.values[i.inputs[n]]], m.modulus)
             v == [m.values EXCEPT ![i.output] = r]
  <1>1. s = [m EXCEPT !.values[i.output] = r]
    BY DEF After, Computes
  <1> HIDE DEF r
  <1>2. s = [values |-> v, memory |-> m.memory, table |-> m.table, modulus |-> m.modulus,
             selected |-> m.selected, seen |-> m.seen]
    BY <1>1 DEF Machine
  <1>3. v = [x \in Values |-> v[x]]
    BY DEF Machine
  <1> HIDE DEF s, v
  <1>4. /\ s.values = v /\ s.memory = m.memory /\ s.table = m.table /\ s.seen = m.seen
        /\ s.modulus = m.modulus /\ s.selected = m.selected
    BY <1>2
  <1>5. Machine(s)
    BY <1>2, <1>3, <1>4 DEF Machine
  <1> QED
    BY <1>4, <1>5 DEF s, v, r

\* Dropped operations leave the machine as it is.
LEMMA DroppedMachine ==
    ASSUME NEW m, NEW i, i.op \in {"modld", "free"}, NEW k
    PROVE  After(m, i, k) = m
  BY DEF After, Computes

-----------------------------------------------------------------------------
(* What is known of the operations that are kept, and of their values.     *)

\* Operation m stores to a cell.
Covers(nodes, m, c) == nodes[m].op = "store" /\ c \in Range(nodes[m].range)

\* m is the last store to a cell before position n, 0 if there is none.
LastStore(nodes, n, c, m) ==
    /\ m \in 0 .. n - 1
    /\ m # 0 => Covers(nodes, m, c)
    /\ \A x \in m + 1 .. n - 1 : ~ Covers(nodes, x, c)

\* What a store leaves in a cell, or what the cell has at the start.
Held(nodes, values, m, c) ==
    IF m = 0 THEN InitialAtom(c)
    ELSE values[nodes[m].inputs[1]][CHOOSE k \in DOMAIN nodes[m].range : nodes[m].range[k] = c]

\* The values that operations define.
Defined(nodes) == {nodes[m].output : m \in DOMAIN nodes} \ {None}

\* What kind of operation was kept.
Typed(nodes, n) ==
    LET i == nodes[n]
    IN  /\ i.op \in {"load", "store", "arith", "stage", "mac", "sync"}
        /\ i.inputs \in Seq(Values) /\ (Computes(i) \/ i.op = "store" => i.inputs # << >>)
        /\ i.output \in IF Computes(i) \/ i.op = "load" THEN Values ELSE {None}
        /\ i.range \in Seq(ImageCells)
        /\ i.op = "store" => Cells(i) \cap ReadOnly = {}

\* Operands are defined before, and no value twice.
Supplied(nodes, n) ==
    LET i == nodes[n]
    IN  /\ \A v \in Range(i.inputs) : \E m \in 1 .. n - 1 : nodes[m].output = v
        /\ i.implicit # None => \E m \in 1 .. n - 1 : nodes[m].output = i.implicit /\ IsTable(nodes[m])
        /\ i.output # None => \A m \in 1 .. n - 1 : nodes[m].output # i.output

\* The cone holds what an operation needs, and what that needs.
Coned(nodes, n) ==
    LET i == nodes[n]
    IN  /\ i.after \subseteq i.cone /\ i.cone \subseteq 1 .. n - 1
        /\ \A m \in 1 .. n - 1 : nodes[m].output \in Needs(i.inputs, i.implicit) => m \in i.cone
        /\ \A m \in i.cone : nodes[m].cone \subseteq i.cone

\* Every modulus table has the same contents.
TableContents(p) ==
    LET k == CHOOSE k \in DOMAIN p : IsTable(p[k])
    IN  [x \in DOMAIN p[k].range |-> InitialAtom(p[k].range[x])]

\* A load has, of each cell, what the last store before it left there; it has
\* that store among those that it follows.
Found(nodes, values, n, k) ==
    \E m \in {0} \cup nodes[n].after :
        /\ LastStore(nodes, n, nodes[n].range[k], m)
        /\ values[nodes[n].output][k] = Held(nodes, values, m, nodes[n].range[k])

\* Each word of a loaded value was found so.
Loaded(nodes, values, n) ==
    nodes[n].op = "load" =>
        /\ values[nodes[n].output] = [k \in DOMAIN nodes[n].range |-> values[nodes[n].output][k]]
        /\ \A k \in DOMAIN nodes[n].range : Found(nodes, values, n, k)

\* What an operation computes under the modulus that belongs to it.
Outcome(i, values, p) ==
    Result(i.origin, Len(values[i.inputs[1]]), [k \in DOMAIN i.inputs |-> values[i.inputs[k]]],
           IF i.mod = None THEN None ELSE <<TableContents(p), i.mod>>)

\* The contents of tables and of computed values.
Computed(nodes, values, n, p) ==
    LET i == nodes[n]
    IN  /\ IsTable(i) => values[i.output] = TableContents(p)
        /\ Computes(i) =>
              /\ values[i.output] = Outcome(i, values, p)
              /\ i.mod # None => i.implicit # None
              /\ Modeless(p) <=> i.mod = None

\* All of it, of one operation ...
NodeOK(nodes, values, p, n) ==
    /\ Typed(nodes, n) /\ Supplied(nodes, n) /\ Coned(nodes, n)
    /\ Loaded(nodes, values, n) /\ Computed(nodes, values, n, p)

\* ... and of all that were kept.
Kept(nodes, values, p) == IsTuple(nodes) /\ \A n \in DOMAIN nodes : NodeOK(nodes, values, p, n)

-----------------------------------------------------------------------------
(* None of this changes when more is kept, or when other values are        *)
(* defined.                                                                *)

\* longer continues nodes, and more agrees with values where that is defined.
Extends(nodes, values, longer, more) ==
    /\ IsTuple(longer) /\ Len(nodes) <= Len(longer)
    /\ \A n \in 1 .. Len(nodes) : longer[n] = nodes[n]
    /\ \A v \in Defined(nodes) : more[v] = values[v]

\* What Kept says, position by position.
LEMMA KeptFacts ==
    ASSUME NEW nodes, NEW values, NEW p, Kept(nodes, values, p)
    PROVE  /\ Len(nodes) \in Nat /\ DOMAIN nodes = 1 .. Len(nodes)
           /\ \A n \in 1 .. Len(nodes) : NodeOK(nodes, values, p, n)
  BY TupleSeq DEF Kept, IsTuple

\* Operands are values that are defined.
LEMMA InputsDefined ==
    ASSUME NEW nodes, NEW values, NEW p, Kept(nodes, values, p), NEW n \in 1 .. Len(nodes)
    PROVE  /\ \A k \in DOMAIN nodes[n].inputs : nodes[n].inputs[k] \in Defined(nodes)
           /\ Computes(nodes[n]) \/ nodes[n].op = "store" => 1 \in DOMAIN nodes[n].inputs
  <1> DEFINE i == nodes[n]
  <1>1. DOMAIN nodes = 1 .. Len(nodes) /\ Len(nodes) \in Nat /\ NodeOK(nodes, values, p, n)
    BY KeptFacts
  <1>2. /\ i.inputs \in Seq(Values) /\ (Computes(i) \/ i.op = "store" => i.inputs # << >>)
        /\ \A v \in Range(i.inputs) : \E m \in 1 .. n - 1 : nodes[m].output = v
    BY <1>1 DEF NodeOK, Typed, Supplied
  <1>3. None \notin Values
    BY ProgramAssumption
  <1>4. ASSUME NEW k \in DOMAIN i.inputs PROVE i.inputs[k] \in Defined(nodes)
    <2>1. i.inputs[k] \in Range(i.inputs) /\ i.inputs[k] \in Values
      BY <1>2 DEF Range
    <2>2. PICK m \in 1 .. n - 1 : nodes[m].output = i.inputs[k]
      BY <1>2, <2>1
    <2>3. m \in DOMAIN nodes
      BY <1>1
    <2> QED
      BY <1>3, <2>1, <2>2, <2>3 DEF Defined
  <1>5. i.inputs # << >> => 1 \in DOMAIN i.inputs
    BY <1>2
  <1> QED
    BY <1>2, <1>4, <1>5

\* The last store before a position is the same in a longer list, ...
LEMMA LastStoreExtends ==
    ASSUME NEW nodes, NEW values, NEW longer, NEW more, Extends(nodes, values, longer, more),
           IsTuple(nodes), NEW n \in 1 .. Len(nodes) + 1, NEW c, NEW m
    PROVE  LastStore(nodes, n, c, m) <=> LastStore(longer, n, c, m)
  <1>1. \A x \in 1 .. n - 1 : longer[x] = nodes[x]
    BY DEF Extends, IsTuple
  <1>2. \A x \in 1 .. n - 1 : Covers(longer, x, c) <=> Covers(nodes, x, c)
    BY <1>1 DEF Covers
  <1> QED
    BY <1>2 DEF LastStore

\* ... it leaves the same, ...
LEMMA HeldExtends ==
    ASSUME NEW nodes, NEW values, NEW p, Kept(nodes, values, p),
           NEW longer, NEW more, Extends(nodes, values, longer, more),
           NEW m \in 0 .. Len(nodes), m # 0 => nodes[m].op = "store", NEW c
    PROVE  Held(longer, more, m, c) = Held(nodes, values, m, c)
  <1>1. CASE m = 0
    BY <1>1 DEF Held
  <1>2. CASE m # 0
    <2>1. m \in 1 .. Len(nodes) /\ longer[m] = nodes[m]
      BY <1>2, KeptFacts DEF Extends
    <2>2. nodes[m].inputs[1] \in Defined(nodes)
      BY <1>2, <2>1, InputsDefined
    <2>3. more[nodes[m].inputs[1]] = values[nodes[m].inputs[1]]
      BY <2>2 DEF Extends
    <2> QED
      BY <1>2, <2>1, <2>3 DEF Held
  <1> QED
    BY <1>1, <1>2

\* The last store to a cell is a store.
LEMMA LastStoreStores ==
    ASSUME NEW nodes, NEW n \in Nat, n - 1 <= Len(nodes), NEW c, NEW m, LastStore(nodes, n, c, m), Len(nodes) \in Nat
    PROVE  m \in 0 .. Len(nodes) /\ (m # 0 => nodes[m].op = "store")
  BY DEF LastStore, Covers

\* ... and so nothing changes of what is known of an operation.
LEMMA NodeExtends ==
    ASSUME NEW nodes, NEW values, NEW p, Kept(nodes, values, p),
           NEW longer, NEW more, Extends(nodes, values, longer, more),
           NEW n \in 1 .. Len(nodes)
    PROVE  NodeOK(longer, more, p, n)
  <1> DEFINE i == nodes[n]
  <1>1. /\ Len(nodes) \in Nat /\ DOMAIN nodes = 1 .. Len(nodes) /\ IsTuple(nodes)
        /\ NodeOK(nodes, values, p, n)
    BY KeptFacts DEF Kept
  <1>2. longer[n] = i /\ \A m \in 1 .. n - 1 : longer[m] = nodes[m]
    BY <1>1 DEF Extends
  <1>3. Typed(longer, n)
    BY <1>1, <1>2 DEF NodeOK, Typed
  <1>4. Supplied(longer, n)
    BY <1>1, <1>2 DEF NodeOK, Supplied
  <1>5. Coned(longer, n)
    <2>1. Coned(nodes, n)
      BY <1>1 DEF NodeOK
    <2>2. \A m \in i.cone : longer[m] = nodes[m]
      BY <2>1, <1>2 DEF Coned
    <2> QED
      BY <2>1, <2>2, <1>2 DEF Coned
  <1>6. i.op = "load" \/ Computes(i) => i.output \in Defined(nodes) /\ more[i.output] = values[i.output]
    <2>1. i.op = "load" \/ Computes(i) => i.output \in Values
      BY <1>1 DEF NodeOK, Typed
    <2>2. i.op = "load" \/ Computes(i) => i.output \in Defined(nodes)
      BY <1>1, <2>1, ProgramAssumption DEF Defined
    <2> QED
      BY <2>2 DEF Extends
  <1>7. Loaded(longer, more, n)
    <2> SUFFICES ASSUME i.op = "load"
                 PROVE  /\ more[i.output] = [k \in DOMAIN i.range |-> more[i.output][k]]
                        /\ \A k \in DOMAIN i.range : Found(longer, more, n, k)
      BY <1>2 DEF Loaded
    <2>1. /\ values[i.output] = [k \in DOMAIN i.range |-> values[i.output][k]]
          /\ \A k \in DOMAIN i.range : Found(nodes, values, n, k)
      BY <1>1 DEF NodeOK, Loaded
    <2>2. more[i.output] = values[i.output]
      BY <1>6
    <2>3. ASSUME NEW k \in DOMAIN i.range PROVE Found(longer, more, n, k)
      <3>1. PICK m \in {0} \cup i.after :
               LastStore(nodes, n, i.range[k], m) /\ values[i.output][k] = Held(nodes, values, m, i.range[k])
        BY <2>1 DEF Found
      <3>2. m \in 0 .. Len(nodes) /\ (m # 0 => nodes[m].op = "store")
        BY <1>1, <3>1, LastStoreStores
      <3>3. Held(longer, more, m, i.range[k]) = Held(nodes, values, m, i.range[k])
        BY <3>2, HeldExtends
      <3>4. n \in 1 .. Len(nodes) + 1
        BY <1>1
      <3>5. LastStore(longer, n, i.range[k], m)
        BY <1>1, <3>1, <3>4, LastStoreExtends
      <3> QED
        BY <1>2, <2>2, <3>1, <3>3, <3>5 DEF Found
    <2> QED
      BY <2>1, <2>2, <2>3
  <1>8. Computed(longer, more, n, p)
    <2>1. Computed(nodes, values, n, p)
      BY <1>1 DEF NodeOK
    <2>2. IsTable(i) => i.op = "load"
      BY DEF IsTable
    <2>3. \A k \in DOMAIN i.inputs : more[i.inputs[k]] = values[i.inputs[k]]
      BY InputsDefined DEF Extends
    <2>4. Computes(i) => 1 \in DOMAIN i.inputs
      BY InputsDefined
    <2>5. Computes(i) => Outcome(i, more, p) = Outcome(i, values, p)
      BY <2>3, <2>4 DEF Outcome
    <2> QED
      BY <1>2, <1>6, <2>1, <2>2, <2>5 DEF Computed
  <1> QED
    BY <1>3, <1>4, <1>5, <1>7, <1>8 DEF NodeOK

-----------------------------------------------------------------------------
(* What is known while the program is read.                                *)

\* writers are the last stores, and cells what these left.
MemoryOK(nodes, writers, values, cells) ==
    /\ writers = [c \in ImageCells |-> writers[c]]
    /\ \A c \in ImageCells :
          /\ LastStore(nodes, Len(nodes) + 1, c, writers[c])
          /\ cells[c] = Held(nodes, values, writers[c], c)

\* Every value of the source program is replaced by one that is kept and has the
\* same contents.
ReplacementOK(nodes, values, replaced, known) ==
    /\ replaced = [v \in Values |-> replaced[v]]
    /\ Defined(nodes) \subseteq known
    /\ \A v \in known : replaced[v] \in Defined(nodes) /\ values[replaced[v]] = values[v]
    /\ \A v \in Values \ known : replaced[v] = v

\* A value of so many lines.
Measured(value, lines) == lines \in Nat /\ value = [k \in 1 .. lines |-> value[k]]

\* The shapes have the right number of lines.
ShapesOK(nodes, values, sizes) ==
    /\ sizes = [v \in Values |-> sizes[v]]
    /\ \A v \in Defined(nodes) : Measured(values[v], sizes[v].lines)

\* A value that is remembered is what memory holds.
EntryOK(nodes, values, cells, e) ==
    /\ e.value \in Defined(nodes) /\ e.range \in Seq(ImageCells)
    /\ Measured(values[e.value], e.shape.lines)
    /\ \A k \in DOMAIN e.range : cells[e.range[k]] = values[e.value][k]

\* table and context are None until the first load of a table and the first
\* selection; every table has the same contents.
TablesOK ==
    /\ table = None <=> \A k \in 1 .. pos - 1 : ~ IsTable(code[k])
    /\ table # None =>
          /\ source.table = TableContents(code)
          /\ \E n \in DOMAIN kept : kept[n].output = table /\ IsTable(kept[n])
    /\ context = None <=> \A k \in 1 .. pos - 1 : code[k].op # "modld"
    /\ Modeless(code) => source.modulus = None

\* at lists the synchronisations; each saw what the last stores before it left,
\* and these stores are known to be observed.
SyncsOK(at, nodes, observers, cells, values, seen) ==
    /\ IsTuple(at) /\ Len(at) = Len(seen)
    /\ \A j \in 1 .. Len(at) : at[j] \in DOMAIN nodes /\ nodes[at[j]].op = "sync"
    /\ \A n \in DOMAIN nodes : nodes[n].op = "sync" => \E j \in 1 .. Len(at) : at[j] = n
    /\ \A j, l \in 1 .. Len(at) : j < l => at[j] < at[l]
    /\ \A j \in 1 .. Len(at) : seen[j] = [c \in cells |-> seen[j][c]]
    /\ \A j \in 1 .. Len(at) : \A c \in cells : \E w \in {0} \cup observers :
          LastStore(nodes, at[j], c, w) /\ seen[j][c] = Held(nodes, values, w, c)

\* at lists the synchronisations that were kept.
Synced(at) == SyncsOK(at, kept, observed, Observable, source.values, source.seen)

\* All that eliminate_io() knows.
Analysed ==
    /\ pos \in 1 .. Len(code) + 1
    /\ Kept(kept, source.values, code)
    /\ Machine(source) /\ MemoryOK(kept, lastWriters, source.values, source.memory)
    /\ ReplacementOK(kept, source.values, replacement, DefinedBefore(code, pos))
    /\ ShapesOK(kept, source.values, shapes)
    /\ \A e \in reads \cup writes : EntryOK(kept, source.values, source.memory, e)
    /\ TablesOK
    /\ observed \subseteq DOMAIN kept

\* What is given.
Inputs ==
    /\ code \in Programs /\ mode \in Modes /\ required \in RequiredSets

-----------------------------------------------------------------------------
(* A step of the analysis.                                                 *)

\* What the assumption says of the program that is optimized.
LEMMA InputFacts ==
    ASSUME Inputs
    PROVE  /\ Len(code) \in Nat /\ DOMAIN code = 1 .. Len(code)
           /\ \A k \in 1 .. Len(code) : Recorded(code[k])
           /\ Selects(code) \/ Modeless(code)
           /\ Observable \subseteq ImageCells
  <1>1. code \in Seq(Range(code)) /\ (\A i \in Range(code) : Recorded(i)) /\ (Selects(code) \/ Modeless(code))
    BY ProgramAssumption DEF Inputs
  <1>2. Len(code) \in Nat /\ DOMAIN code = 1 .. Len(code)
    BY <1>1
  <1>3. \A k \in 1 .. Len(code) : code[k] \in Range(code)
    BY <1>2 DEF Range
  <1>4. required \subseteq ImageCells
    BY ProgramAssumption DEF Inputs
  <1>5. Observable \subseteq ImageCells
    <2>1. CASE mode = "canonical"
      BY <2>1 DEF Observable
    <2>2. CASE mode # "canonical" /\ required = {}
      BY <2>2 DEF Observable
    <2>3. CASE mode # "canonical" /\ required # {}
      BY <2>3, <1>4 DEF Observable
    <2> QED
      BY <2>1, <2>2, <2>3
  <1> QED
    BY <1>1, <1>2, <1>3, <1>5

\* The operation that is read.
Reading ==
    /\ pos \in 1 .. Len(code) /\ Len(code) \in Nat /\ DOMAIN code = 1 .. Len(code)
    /\ Recorded(Current)
    /\ Range(Current.inputs) \subseteq DefinedBefore(code, pos)
    /\ Current.output \notin DefinedBefore(code, pos)
    /\ Current.op = "store" => Cells(Current) \cap ReadOnly = {}
    /\ IsTable(Current) => Cells(Current) \subseteq ReadOnly

\* What normalize() has checked of the operation that is read.
LEMMA StepReads ==
    ASSUME Inputs, Consistent, Analysed, NEW ops, Step(ops)
    PROVE  /\ Reading /\ Current.op \in ops
           /\ code' = code /\ mode' = mode /\ required' = required /\ pos' = pos + 1
           /\ Observable' = Observable
           /\ DefinedBefore(code, pos + 1) = DefinedBefore(code, pos) \cup ({Current.output} \ {None})
  <1>1. /\ Len(code) \in Nat /\ DOMAIN code = 1 .. Len(code)
        /\ \A k \in 1 .. Len(code) : Recorded(code[k])
    BY InputFacts
  <1>2. /\ pos \in 1 .. Len(code) /\ Current.op \in ops /\ pos' = pos + 1
        /\ code' = code /\ mode' = mode /\ required' = required
    BY <1>1 DEF Step, Analysed, inputs
  <1>3. Reading
    BY <1>1, <1>2 DEF Reading, Consistent, Current, IsDma
  <1>4. DefinedBefore(code, pos + 1) = DefinedBefore(code, pos) \cup ({Current.output} \ {None})
    <2>1. 1 .. (pos + 1) - 1 = (1 .. pos - 1) \cup {pos}
      BY <1>2
    <2> QED
      BY <2>1 DEF DefinedBefore, Current
  <1>5. Observable' = Observable
    BY <1>2 DEF Observable
  <1> QED
    BY <1>2, <1>3, <1>4, <1>5

\* The operands that it is given.
LEMMA ResolvedFacts ==
    ASSUME Analysed, Reading
    PROVE  /\ DOMAIN Resolved = DOMAIN Current.inputs
           /\ Resolved \in Seq(Values) /\ (Current.inputs # << >> => Resolved # << >> /\ 1 \in DOMAIN Resolved)
           /\ \A k \in DOMAIN Resolved :
                 /\ Resolved[k] \in Defined(kept)
                 /\ source.values[Resolved[k]] = source.values[Current.inputs[k]]
  <1>1. Current.inputs \in Seq(Values)
    BY DEF Reading, Recorded
  <1>2. PICK n \in Nat : n = Len(Current.inputs) /\ DOMAIN Current.inputs = 1 .. n
    BY <1>1
  <1>3. ReplacementOK(kept, source.values, replacement, DefinedBefore(code, pos))
    BY DEF Analysed
  <1>4. ASSUME NEW k \in 1 .. n
        PROVE  /\ Current.inputs[k] \in Values
               /\ replacement[Current.inputs[k]] \in Defined(kept)
               /\ source.values[replacement[Current.inputs[k]]] = source.values[Current.inputs[k]]
    <2>1. Current.inputs[k] \in Range(Current.inputs) /\ Current.inputs[k] \in Values
      BY <1>1, <1>2 DEF Range
    <2>2. Current.inputs[k] \in DefinedBefore(code, pos)
      BY <2>1 DEF Reading
    <2> QED
      BY <1>3, <2>1, <2>2 DEF ReplacementOK
  <1>5. Defined(kept) \subseteq Values
    <2>1. \A m \in DOMAIN kept : kept[m].output \in Values \cup {None}
      BY DEF Analysed, Kept, NodeOK, Typed
    <2> QED
      BY <2>1 DEF Defined
  <1>6. Resolved = [k \in 1 .. n |-> replacement[Current.inputs[k]]]
    BY <1>2 DEF Resolved
  <1>7. Resolved \in [1 .. n -> Values]
    BY <1>4, <1>5, <1>6
  <1>8. Resolved \in Seq(Values)
    BY <1>7
  <1>9. Current.inputs # << >> => n # 0
    BY <1>1, <1>2
  <1> QED
    BY <1>2, <1>4, <1>6, <1>8, <1>9

\* One more operation.
Grown(nodes, longer, i) ==
    /\ IsTuple(longer) /\ Len(longer) = Len(nodes) + 1
    /\ \A k \in 1 .. Len(nodes) : longer[k] = nodes[k]
    /\ longer[Len(nodes) + 1] = i

\* What is defined when an operation is kept.
LEMMA GrownDefined ==
    ASSUME NEW nodes, IsTuple(nodes), NEW longer, NEW i, Grown(nodes, longer, i)
    PROVE  /\ Defined(longer) = Defined(nodes) \cup ({i.output} \ {None})
           /\ DOMAIN longer = 1 .. Len(nodes) + 1 /\ DOMAIN nodes = 1 .. Len(nodes) /\ Len(nodes) \in Nat
  <1>1. DOMAIN longer = 1 .. Len(nodes) + 1 /\ DOMAIN nodes = 1 .. Len(nodes) /\ Len(nodes) \in Nat
    BY TupleSeq DEF Grown, IsTuple
  <1>2. DOMAIN longer = DOMAIN nodes \cup {Len(nodes) + 1}
    BY <1>1
  <1> QED
    BY <1>1, <1>2 DEF Grown, Defined

\* Keep().
LEMMA KeepGrows ==
    ASSUME Inputs, Analysed, Reading, NEW dependencies, Keep(dependencies),
           dependencies \subseteq 1 .. Len(kept), Current.op \notin {"modld", "free"}
    PROVE  \E i :
              /\ Grown(kept, kept', i)
              /\ i.op = Current.op /\ i.inputs = Resolved /\ i.output = Current.output
              /\ i.range = Current.range /\ i.kind = Current.kind /\ i.mod = Modulus
              /\ i.implicit = Implicit /\ i.after = dependencies /\ i.origin = pos
              /\ Typed(kept', Len(kept) + 1) /\ Supplied(kept', Len(kept) + 1) /\ Coned(kept', Len(kept) + 1)
  <1> DEFINE direct == Producers(Needs(Resolved, Implicit)) \cup dependencies
             cone   == direct \cup UNION {kept[n].cone : n \in direct}
             i      == [op |-> Current.op, inputs |-> Resolved, output |-> Current.output, range |-> Current.range,
                        kind |-> Current.kind, mod |-> Modulus, implicit |-> Implicit, after |-> dependencies,
                        cone |-> cone, origin |-> pos]
             last   == Len(kept) + 1
  <1>1. kept' = Append(kept, i)
    BY DEF Keep
  <1>2. /\ i.op = Current.op /\ i.inputs = Resolved /\ i.output = Current.output
        /\ i.range = Current.range /\ i.kind = Current.kind /\ i.mod = Modulus
        /\ i.implicit = Implicit /\ i.after = dependencies /\ i.origin = pos /\ i.cone = cone
    OBVIOUS
  <1>3. /\ IsTuple(kept) /\ Len(kept) \in Nat /\ DOMAIN kept = 1 .. Len(kept)
        /\ \A n \in 1 .. Len(kept) : NodeOK(kept, source.values, code, n)
    BY KeptFacts DEF Analysed, Kept
  <1>4. direct \subseteq 1 .. Len(kept)
    BY <1>3 DEF Producers
  <1>5. \A m \in 1 .. Len(kept) : kept[m].output \in Needs(Resolved, Implicit) => m \in direct
    BY <1>3 DEF Producers
  <1>6. dependencies \subseteq cone /\ direct \subseteq cone /\ \A n \in direct : kept[n].cone \subseteq cone
    OBVIOUS
  <1>7. cone \subseteq 1 .. Len(kept)
    <2>1. \A n \in direct : kept[n].cone \subseteq 1 .. Len(kept)
      BY <1>3, <1>4 DEF NodeOK, Coned
    <2> QED
      BY <1>4, <2>1
  <1>8. \A m \in cone : kept[m].cone \subseteq cone
    <2>1. \A n \in direct : \A m \in kept[n].cone : kept[m].cone \subseteq kept[n].cone
      BY <1>3, <1>4 DEF NodeOK, Coned
    <2>2. ASSUME NEW m \in cone PROVE kept[m].cone \subseteq cone
      <3>1. CASE m \in direct
        BY <3>1, <1>6
      <3>2. CASE m \notin direct
        <4>1. PICK n \in direct : m \in kept[n].cone
          BY <3>2
        <4>2. kept[m].cone \subseteq kept[n].cone /\ kept[n].cone \subseteq cone
          BY <2>1, <4>1, <1>6
        <4> QED
          BY <4>2
      <3> QED
        BY <3>1, <3>2
    <2> QED
      BY <2>2
  <1> HIDE DEF direct, cone, i
  <1>9. Grown(kept, kept', i)
    BY <1>1, <1>3, TupleAppend DEF Grown
  <1>10. /\ Resolved \in Seq(Values) /\ (Current.inputs # << >> => Resolved # << >>)
         /\ \A k \in DOMAIN Resolved : Resolved[k] \in Defined(kept)
    BY ResolvedFacts
  <1>11. Typed(kept', last)
    <2>1. /\ Current.op \in {"load", "store", "arith", "stage", "mac", "sync"}
          /\ (Computes(Current) \/ Current.op = "store" => Current.inputs # << >>)
          /\ Current.output \in IF Computes(Current) \/ Current.op = "load" THEN Values ELSE {None}
          /\ Current.range \in Seq(ImageCells)
          /\ Current.op = "store" => Cells(Current) \cap ReadOnly = {}
      BY DEF Reading, Recorded
    <2>2. Computes(i) = Computes(Current) /\ Cells(i) = Cells(Current)
      BY <1>2 DEF Computes, Cells
    <2>3. kept'[last] = i
      BY <1>9 DEF Grown
    <2> QED
      BY <1>2, <1>10, <2>1, <2>2, <2>3 DEF Typed
  <1>12. Supplied(kept', last)
    <2>1. kept'[last] = i /\ \A m \in 1 .. last - 1 : kept'[m] = kept[m]
      BY <1>3, <1>9 DEF Grown
    <2>2. ASSUME NEW v \in Range(i.inputs) PROVE \E m \in 1 .. last - 1 : kept'[m].output = v
      <3>1. PICK k \in DOMAIN Resolved : v = Resolved[k]
        BY <1>2 DEF Range
      <3>2. v \in Defined(kept)
        BY <1>10, <3>1
      <3>3. PICK m \in DOMAIN kept : kept[m].output = v
        BY <3>2 DEF Defined
      <3> QED
        BY <1>3, <2>1, <3>3
    <2>3. ASSUME i.implicit # None
          PROVE  \E m \in 1 .. last - 1 : kept'[m].output = i.implicit /\ IsTable(kept'[m])
      <3>1. table # None /\ i.implicit = table
        BY <1>2, <2>3 DEF Implicit
      <3>2. PICK m \in DOMAIN kept : kept[m].output = table /\ IsTable(kept[m])
        BY <3>1 DEF Analysed, TablesOK
      <3> QED
        BY <1>3, <2>1, <3>1, <3>2
    <2>4. i.output # None => \A m \in 1 .. last - 1 : kept'[m].output # i.output
      <3>1. Current.output \notin Defined(kept)
        BY DEF Reading, Analysed, ReplacementOK
      <3> QED
        BY <1>2, <1>3, <2>1, <3>1 DEF Defined
    <2> QED
      BY <2>1, <2>2, <2>3, <2>4 DEF Supplied
  <1>13. Coned(kept', last)
    <2>1. kept'[last] = i /\ \A m \in 1 .. last - 1 : kept'[m] = kept[m]
      BY <1>3, <1>9 DEF Grown
    <2>2. last - 1 = Len(kept)
      BY <1>3
    <2>3. \A m \in 1 .. last - 1 : kept'[m].output \in Needs(i.inputs, i.implicit) => m \in cone
      BY <1>2, <1>5, <1>6, <2>1, <2>2
    <2>4. \A m \in cone : kept'[m].cone \subseteq cone
      BY <1>7, <1>8, <2>1, <2>2
    <2> QED
      BY <1>2, <1>6, <1>7, <2>1, <2>2, <2>3, <2>4 DEF Coned
  <1> QED
    BY <1>2, <1>9, <1>11, <1>12, <1>13

\* With what it found or computed, everything that is kept is as it should be.
LEMMA KeptGrows ==
    ASSUME NEW nodes, NEW values, NEW p, Kept(nodes, values, p), NEW longer, NEW more, NEW i,
           Grown(nodes, longer, i), Extends(nodes, values, longer, more),
           NodeOK(longer, more, p, Len(nodes) + 1)
    PROVE  Kept(longer, more, p)
  <1>1. Len(nodes) \in Nat /\ DOMAIN longer = 1 .. Len(nodes) + 1 /\ IsTuple(longer)
    BY GrownDefined DEF Kept, Grown
  <1>2. \A n \in 1 .. Len(nodes) : NodeOK(longer, more, p, n)
    BY NodeExtends
  <1> QED
    BY <1>1, <1>2 DEF Kept

\* A longer list extends a shorter one, ...
LEMMA GrownExtends ==
    ASSUME NEW nodes, IsTuple(nodes), NEW longer, NEW i, Grown(nodes, longer, i),
           NEW values, NEW more, \A v \in Defined(nodes) : more[v] = values[v]
    PROVE  Extends(nodes, values, longer, more)
  BY DEF Grown, Extends, IsTuple

\* ... a list itself when values are defined that it does not have, ...
LEMMA SameExtends ==
    ASSUME NEW nodes, IsTuple(nodes), NEW values, NEW more, \A v \in Defined(nodes) : more[v] = values[v]
    PROVE  Extends(nodes, values, nodes, more)
  BY DEF Extends, IsTuple

\* ... and with it goes all that is known of what was kept.
LEMMA KeptExtends ==
    ASSUME NEW nodes, NEW values, NEW p, Kept(nodes, values, p), NEW more,
           \A v \in Defined(nodes) : more[v] = values[v]
    PROVE  Kept(nodes, more, p)
  <1>1. Len(nodes) \in Nat /\ DOMAIN nodes = 1 .. Len(nodes) /\ IsTuple(nodes)
    BY KeptFacts DEF Kept
  <1>2. Extends(nodes, values, nodes, more)
    BY <1>1, SameExtends
  <1>3. \A n \in 1 .. Len(nodes) : NodeOK(nodes, more, p, n)
    BY <1>2, NodeExtends
  <1> QED
    BY <1>1, <1>3 DEF Kept

-----------------------------------------------------------------------------
(* The rest of what is known, when an operation that is no store is kept.  *)

\* Nothing is stored, so memory stays what the last stores left.
LEMMA MemoryExtends ==
    ASSUME NEW nodes, NEW values, NEW p, Kept(nodes, values, p), NEW writers, NEW cells,
           MemoryOK(nodes, writers, values, cells), NEW longer, NEW more,
           Extends(nodes, values, longer, more),
           \A n \in Len(nodes) + 1 .. Len(longer) : longer[n].op # "store"
    PROVE  MemoryOK(longer, writers, more, cells)
  <1>1. Len(nodes) \in Nat /\ IsTuple(nodes) /\ Len(longer) \in Nat /\ Len(nodes) <= Len(longer)
    BY KeptFacts DEF Kept, Extends, IsTuple
  <1>2. ASSUME NEW c \in ImageCells
        PROVE  /\ LastStore(longer, Len(longer) + 1, c, writers[c])
               /\ cells[c] = Held(longer, more, writers[c], c)
    <2>1. LastStore(nodes, Len(nodes) + 1, c, writers[c]) /\ cells[c] = Held(nodes, values, writers[c], c)
      BY DEF MemoryOK
    <2>2. LastStore(longer, Len(nodes) + 1, c, writers[c])
      BY <1>1, <2>1, LastStoreExtends
    <2>3. \A n \in Len(nodes) + 1 .. Len(longer) : ~ Covers(longer, n, c)
      BY DEF Covers
    <2>4. LastStore(longer, Len(longer) + 1, c, writers[c])
      BY <1>1, <2>2, <2>3 DEF LastStore
    <2>5. writers[c] \in 0 .. Len(nodes) /\ (writers[c] # 0 => nodes[writers[c]].op = "store")
      BY <1>1, <2>1, LastStoreStores
    <2>6. Held(longer, more, writers[c], c) = Held(nodes, values, writers[c], c)
      BY <2>5, HeldExtends
    <2> QED
      BY <2>1, <2>4, <2>6
  <1>3. writers = [c \in ImageCells |-> writers[c]]
    BY DEF MemoryOK
  <1> QED
    BY <1>2, <1>3 DEF MemoryOK

\* What was observed stays what it was.
LEMMA SyncsExtend ==
    ASSUME NEW nodes, NEW values, NEW p, Kept(nodes, values, p), NEW longer, NEW more,
           Extends(nodes, values, longer, more),
           \A n \in Len(nodes) + 1 .. Len(longer) : longer[n].op # "sync",
           NEW at, NEW observers, NEW cells, NEW seen,
           SyncsOK(at, nodes, observers, cells, values, seen)
    PROVE  SyncsOK(at, longer, observers, cells, more, seen)
  <1>1. /\ Len(nodes) \in Nat /\ DOMAIN nodes = 1 .. Len(nodes) /\ IsTuple(nodes)
        /\ DOMAIN longer = 1 .. Len(longer) /\ Len(longer) \in Nat /\ Len(nodes) <= Len(longer)
        /\ \A n \in 1 .. Len(nodes) : longer[n] = nodes[n]
    BY KeptFacts, TupleSeq DEF Kept, Extends, IsTuple
  <1>2. \A j \in 1 .. Len(at) : at[j] \in 1 .. Len(nodes) /\ nodes[at[j]].op = "sync"
    BY <1>1 DEF SyncsOK
  <1>3. \A j \in 1 .. Len(at) : at[j] \in DOMAIN longer /\ longer[at[j]].op = "sync"
    BY <1>1, <1>2
  <1>4. \A n \in DOMAIN longer : longer[n].op = "sync" => \E j \in 1 .. Len(at) : at[j] = n
    <2>1. \A n \in DOMAIN longer : longer[n].op = "sync" => n \in DOMAIN nodes /\ nodes[n].op = "sync"
      BY <1>1
    <2>2. \A n \in DOMAIN nodes : nodes[n].op = "sync" => \E j \in 1 .. Len(at) : at[j] = n
      BY DEF SyncsOK
    <2> QED
      BY <2>1, <2>2
  <1>5. ASSUME NEW j \in 1 .. Len(at), NEW c \in cells
        PROVE  \E w \in {0} \cup observers :
                  LastStore(longer, at[j], c, w) /\ seen[j][c] = Held(longer, more, w, c)
    <2>1. PICK w \in {0} \cup observers :
             LastStore(nodes, at[j], c, w) /\ seen[j][c] = Held(nodes, values, w, c)
      BY DEF SyncsOK
    <2>2. PICK n \in 1 .. Len(nodes) : n = at[j]
      BY <1>2
    <2>3. n \in 1 .. Len(nodes) + 1 /\ n \in Nat /\ n - 1 <= Len(nodes)
      BY <1>1
    <2>4. LastStore(longer, n, c, w)
      BY <1>1, <2>1, <2>2, <2>3, LastStoreExtends
    <2>5. w \in 0 .. Len(nodes) /\ (w # 0 => nodes[w].op = "store")
      BY <1>1, <2>1, <2>2, <2>3, LastStoreStores
    <2>6. Held(longer, more, w, c) = Held(nodes, values, w, c)
      BY <2>5, HeldExtends
    <2> QED
      BY <2>1, <2>2, <2>4, <2>6
  <1>6. /\ IsTuple(at) /\ Len(at) = Len(seen)
        /\ \A j, l \in 1 .. Len(at) : j < l => at[j] < at[l]
        /\ \A j \in 1 .. Len(at) : seen[j] = [c \in cells |-> seen[j][c]]
    BY DEF SyncsOK
  <1> QED
    BY <1>3, <1>4, <1>5, <1>6 DEF SyncsOK

\* The output of an operation that is kept stands for itself, ...
LEMMA ReplacementGrows ==
    ASSUME NEW nodes, NEW longer, NEW values, NEW more, NEW replaced, NEW known, NEW o,
           ReplacementOK(nodes, values, replaced, known), o \in Values \ known,
           Defined(longer) = Defined(nodes) \cup {o}, \A v \in known : more[v] = values[v]
    PROVE  ReplacementOK(longer, more, replaced, known \cup {o})
  BY DEF ReplacementOK

\* ... an operation without output changes no replacement, ...
LEMMA ReplacementSame ==
    ASSUME NEW nodes, NEW longer, NEW values, NEW replaced, NEW known,
           ReplacementOK(nodes, values, replaced, known), Defined(longer) = Defined(nodes)
    PROVE  ReplacementOK(longer, values, replaced, known)
  BY DEF ReplacementOK

\* A merged load names a value that is the same.
LEMMA ReplacementMerges ==
    ASSUME NEW nodes, NEW values, NEW more, NEW replaced, NEW known, NEW o, NEW v,
           ReplacementOK(nodes, values, replaced, known), o \in Values \ known,
           v \in Defined(nodes), more[o] = more[v], \A w \in known : more[w] = values[w]
    PROVE  ReplacementOK(nodes, more, [replaced EXCEPT ![o] = v], known \cup {o})
  <1> DEFINE other == [replaced EXCEPT ![o] = v]
  <1>1. /\ other = [w \in Values |-> other[w]] /\ other[o] = v
        /\ \A w \in Values : w # o => other[w] = replaced[w]
    BY DEF ReplacementOK
  <1>2. known \subseteq known \cup {o} /\ o \notin known
    OBVIOUS
  <1>3. ASSUME NEW w \in known \cup {o}
        PROVE  other[w] \in Defined(nodes) /\ more[other[w]] = more[w]
    <2>1. CASE w = o
      BY <2>1, <1>1
    <2>2. CASE w # o
      <3>1. w \in known /\ replaced[w] \in Defined(nodes) /\ values[replaced[w]] = values[w]
        BY <2>2 DEF ReplacementOK
      <3>2. more[replaced[w]] = values[replaced[w]] /\ more[w] = values[w]
        BY <3>1 DEF ReplacementOK
      <3>3. other[w] = replaced[w]
        <4>1. CASE w \in Values
          BY <4>1, <1>1, <2>2
        <4>2. CASE w \notin Values
          BY <4>2, <2>2 DEF ReplacementOK
        <4> QED
          BY <4>1, <4>2
      <3> QED
        BY <3>1, <3>2, <3>3
    <2> QED
      BY <2>1, <2>2
  <1>4. \A w \in Values \ (known \cup {o}) : other[w] = w
    BY <1>1 DEF ReplacementOK
  <1> HIDE DEF other
  <1> QED
    BY <1>1, <1>3, <1>4 DEF ReplacementOK, other

\* What the tables say after an operation that is neither a table nor a modulus.
TablesAfter(p, k, selected, loaded) ==
    /\ loaded = None <=> \A n \in 1 .. k - 1 : ~ IsTable(p[n])
    /\ selected = None <=> \A n \in 1 .. k - 1 : p[n].op # "modld"

\* What TablesAfter becomes when an operation is read.
LEMMA TablesStep ==
    ASSUME NEW p, NEW k \in Nat \ {0}, NEW selected, NEW loaded, TablesAfter(p, k, selected, loaded),
           NEW selected2, NEW loaded2,
           selected2 = None <=> selected = None /\ p[k].op # "modld",
           loaded2 = None <=> loaded = None /\ ~ IsTable(p[k])
    PROVE  TablesAfter(p, k + 1, selected2, loaded2)
  <1>1. 1 .. (k + 1) - 1 = (1 .. k - 1) \cup {k}
    OBVIOUS
  <1> QED
    BY <1>1 DEF TablesAfter

\* The source machine with the modulus that belongs to the operation.
Prepared == IF Computes(Current) /\ Modulus # None THEN Selecting(source, Modulus) ELSE source

\* The machine of the source program before an operation: its modulus is the one
\* that belongs to the operation, selected from the only table there is.
LEMMA PreparedFacts ==
    ASSUME Inputs, Analysed, Reading
    PROVE  /\ Machine(Prepared) /\ Prepared.values = source.values /\ Prepared.memory = source.memory
           /\ Prepared.seen = source.seen /\ Prepared.table = source.table
           /\ Modeless(code) => Prepared.modulus = None
           /\ ~ Computes(Current) => Prepared = source
           /\ Computes(Current) =>
                 /\ Modeless(code) <=> Modulus = None
                 /\ Modulus # None => Implicit # None
                 /\ Prepared.modulus = IF Modulus = None THEN None ELSE <<TableContents(code), Modulus>>
  <1>1. Machine(source) /\ TablesOK
    BY DEF Analysed
  <1>2. /\ Len(code) \in Nat /\ DOMAIN code = 1 .. Len(code) /\ (Selects(code) \/ Modeless(code))
        /\ pos \in 1 .. Len(code)
    BY InputFacts DEF Reading
  <1>3. Computes(Current) /\ Modeless(code) => Modulus = None
    <2> SUFFICES ASSUME Computes(Current), Modeless(code) PROVE Modulus = None
      OBVIOUS
    <2>1. Current.mod = None
      BY <1>2 DEF Modeless, Current
    <2>2. context = None
      BY <1>1, <1>2 DEF Modeless, TablesOK
    <2> QED
      BY <2>1, <2>2 DEF Modulus
  <1>4. Computes(Current) /\ ~ Modeless(code) => Modulus # None /\ Implicit # None
    <2> SUFFICES ASSUME Computes(Current), ~ Modeless(code) PROVE Modulus # None /\ Implicit # None
      OBVIOUS
    <2>1. Selects(code)
      BY <1>2
    <2>2. /\ \E n \in 1 .. pos - 1 : IsTable(code[n])
          /\ Current.mod # None \/ \E n \in 1 .. pos - 1 : code[n].op = "modld"
      BY <2>1, <1>2 DEF Selects, Current
    <2>3. table # None
      BY <1>1, <2>2 DEF TablesOK
    <2>4. Current.mod # None \/ context # None
      BY <1>1, <2>2 DEF TablesOK
    <2> QED
      BY <2>3, <2>4 DEF Modulus, Implicit
  <1>5. CASE Computes(Current) /\ Modulus # None
    <2>1. Prepared = Selecting(source, Modulus)
      BY <1>5 DEF Prepared
    <2>2. /\ Machine(Prepared) /\ Prepared.values = source.values /\ Prepared.memory = source.memory
          /\ Prepared.seen = source.seen /\ Prepared.table = source.table
          /\ Prepared.modulus = <<source.table, Modulus>>
      BY <1>1, <2>1, SelectingMachine
    <2>3. Implicit = table /\ ~ Modeless(code) /\ table # None
      BY <1>3, <1>4, <1>5 DEF Implicit
    <2>4. source.table = TableContents(code)
      BY <1>1, <2>3 DEF TablesOK
    <2> QED
      BY <1>5, <2>2, <2>3, <2>4
  <1>6. CASE ~ Computes(Current)
    BY <1>1, <1>6 DEF Prepared, TablesOK
  <1>7. CASE Computes(Current) /\ Modulus = None
    <2>1. Modeless(code)
      BY <1>4, <1>7
    <2> QED
      BY <1>1, <1>7, <2>1 DEF Prepared, TablesOK
  <1> QED
    BY <1>5, <1>6, <1>7

\* Memory that may not be written has what it had at the start.
LEMMA ReadOnlyMemory ==
    ASSUME Analysed, NEW c \in ImageCells \cap ReadOnly
    PROVE  source.memory[c] = InitialAtom(c)
  <1>1. /\ LastStore(kept, Len(kept) + 1, c, lastWriters[c])
        /\ source.memory[c] = Held(kept, source.values, lastWriters[c], c)
    BY DEF Analysed, MemoryOK
  <1>2. Len(kept) \in Nat /\ \A n \in 1 .. Len(kept) : Typed(kept, n)
    BY KeptFacts DEF Analysed, NodeOK
  <1>3. CASE lastWriters[c] = 0
    BY <1>1, <1>3 DEF Held
  <1>4. CASE lastWriters[c] # 0
    <2>1. lastWriters[c] \in 1 .. Len(kept) /\ Covers(kept, lastWriters[c], c)
      BY <1>1, <1>2, <1>4 DEF LastStore
    <2> QED
      BY <1>2, <2>1 DEF Typed, Covers, Cells
  <1> QED
    BY <1>3, <1>4

\* So every modulus table is the same.
LEMMA TableIsContents ==
    ASSUME Inputs, Consistent, Analysed, Reading, IsTable(Current)
    PROVE  Read(source.memory, Current.range) = TableContents(code)
  <1> DEFINE k == CHOOSE k \in DOMAIN code : IsTable(code[k])
             r == Current.range
  <1>1. pos \in DOMAIN code /\ Current = code[pos]
    BY DEF Reading, Current
  <1>2. k \in DOMAIN code /\ IsTable(code[k])
    BY <1>1
  <1>3. code[k].range = r
    <2> HIDE DEF k
    <2> QED
      BY <1>1, <1>2 DEF Consistent
  <1>4. TableContents(code) = [x \in DOMAIN r |-> InitialAtom(r[x])]
    BY <1>3 DEF TableContents
  <1>5. ASSUME NEW x \in DOMAIN r PROVE source.memory[r[x]] = InitialAtom(r[x])
    <2>1. r[x] \in Cells(Current) /\ r[x] \in ImageCells
      BY DEF Cells, Range, Reading, Recorded
    <2> QED
      BY <2>1, ReadOnlyMemory DEF Reading
  <1> HIDE DEF r
  <1> QED
    BY <1>4, <1>5 DEF Read, r

-----------------------------------------------------------------------------
(* The actions of the analysis.                                            *)

\* What Drop, Merge and the rest leave of the analysis.
AnalysisKept == Analysed' /\ \A at : Synced(at) => Synced(at)'

\* TablesOK, of another state, when the table is not loaded again.
LEMMA TablesKept ==
    ASSUME Inputs, Analysed, Reading, pos' = pos + 1, code' = code,
           source'.table = source.table, source'.modulus = source.modulus \/ ~ Modeless(code),
           table' = table, ~ IsTable(Current),
           context' = (IF Current.op = "modld" THEN Current.mod ELSE context),
           \A n \in DOMAIN kept : n \in DOMAIN kept' /\ kept'[n] = kept[n]
    PROVE  TablesOK'
  <1>1. TablesOK /\ pos \in 1 .. Len(code) /\ Len(code) \in Nat /\ Current = code[pos]
    BY DEF Analysed, Reading, Current
  <1>2. TablesAfter(code, pos, context, table)
    BY <1>1 DEF TablesOK, TablesAfter
  <1>3. Current.op = "modld" => Current.mod # None
    BY DEF Reading, Recorded
  <1>4. context' = None <=> context = None /\ code[pos].op # "modld"
    BY <1>1, <1>3
  <1>5. table' = None <=> table = None /\ ~ IsTable(code[pos])
    BY <1>1
  <1>6. pos \in Nat \ {0}
    BY <1>1
  <1>7. TablesAfter(code, pos + 1, context', table')
    BY <1>2, <1>4, <1>5, <1>6, TablesStep
  <1>8. table' # None =>
          /\ source'.table = TableContents(code)
          /\ \E n \in DOMAIN kept' : kept'[n].output = table' /\ IsTable(kept'[n])
    BY <1>1 DEF TablesOK
  <1>9. Modeless(code) => source'.modulus = None
    BY <1>1 DEF TablesOK
  <1> QED
    BY <1>7, <1>8, <1>9 DEF TablesOK, TablesAfter

\* Selections and hints leave all that is known.
LEMMA DropSafe ==
    ASSUME Inputs, Consistent, Analysed, Drop
    PROVE  AnalysisKept
  <1>1. Step({"modld", "free"})
    BY DEF Drop
  <1>2. /\ Reading /\ Current.op \in {"modld", "free"}
        /\ code' = code /\ pos' = pos + 1 /\ Observable' = Observable
        /\ DefinedBefore(code, pos + 1) = DefinedBefore(code, pos) \cup ({Current.output} \ {None})
    BY <1>1, StepReads
  <1>3. ~ Computes(Current) /\ ~ IsTable(Current)
    BY <1>2 DEF Computes, IsTable
  <1>4. Prepared = source
    BY <1>2, <1>3, PreparedFacts
  <1>5. source' = source
    BY <1>1, <1>2, <1>4, DroppedMachine DEF Step, Prepared
  <1>6. Current.output = None
    BY <1>2, <1>3 DEF Reading, Recorded
  <1>7. DefinedBefore(code', pos') = DefinedBefore(code, pos)
    BY <1>2, <1>6
  <1>8. /\ context' = (IF Current.op = "modld" THEN Current.mod ELSE context)
        /\ kept' = kept /\ replacement' = replacement /\ shapes' = shapes /\ table' = table
        /\ reads' = reads /\ writes' = writes /\ lastWriters' = lastWriters /\ observed' = observed
    BY DEF Drop, caches, memory
  <1>9. TablesOK'
    BY <1>2, <1>3, <1>5, <1>8, TablesKept
  <1>10. pos' \in 1 .. Len(code') + 1
    BY <1>2 DEF Reading
  <1>11. Analysed'
    BY <1>2, <1>5, <1>7, <1>8, <1>9, <1>10 DEF Analysed
  <1>12. ASSUME NEW at, Synced(at) PROVE Synced(at)'
    BY <1>2, <1>5, <1>8, <1>12 DEF Synced
  <1> QED
    BY <1>11, <1>12 DEF AnalysisKept

\* A value of its own for a new name.
LEMMA FreshValue ==
    ASSUME Inputs, Analysed, Reading, Current.output \in Values, NEW x,
           source'.values = [source.values EXCEPT ![Current.output] = x]
    PROVE  /\ source'.values[Current.output] = x
           /\ \A v \in DefinedBefore(code, pos) : source'.values[v] = source.values[v]
           /\ \A v \in Defined(kept) : source'.values[v] = source.values[v]
           /\ Current.output \in Values \ DefinedBefore(code, pos)
  <1>1. source.values = [v \in Values |-> source.values[v]]
    BY DEF Analysed, Machine
  <1>2. Current.output \notin DefinedBefore(code, pos)
    BY DEF Reading
  <1>3. Defined(kept) \subseteq DefinedBefore(code, pos)
    BY DEF Analysed, ReplacementOK
  <1>4. DefinedBefore(code, pos) \subseteq Values
    <2>1. \A k \in 1 .. pos - 1 : code[k].output \in Values \cup {None}
      <3>1. \A k \in 1 .. Len(code) : Recorded(code[k])
        BY InputFacts
      <3> QED
        BY <3>1 DEF Reading, Recorded
    <2> QED
      BY <2>1 DEF DefinedBefore
  <1> QED
    BY <1>1, <1>2, <1>3, <1>4

\* What a matching entry is worth to a load.
LEMMA EntryMatches ==
    ASSUME NEW nodes, NEW values, NEW cells, NEW e, EntryOK(nodes, values, cells, e),
           e.shape.lines = Len(e.range)
    PROVE  Read(cells, e.range) = values[e.value]
  <1> DEFINE r == e.range
             v == values[e.value]
             n == Len(r)
  <1>1. /\ r \in Seq(ImageCells) /\ v = [k \in 1 .. n |-> v[k]]
        /\ \A k \in DOMAIN r : cells[r[k]] = v[k]
    BY DEF EntryOK, Measured
  <1>2. DOMAIN r = 1 .. n
    BY <1>1
  <1>3. Read(cells, r) = [k \in 1 .. n |-> cells[r[k]]]
    BY <1>2 DEF Read
  <1> HIDE DEF r, v, n
  <1>4. [k \in 1 .. n |-> cells[r[k]]] = [k \in 1 .. n |-> v[k]]
    BY <1>1, <1>2
  <1> QED
    BY <1>1, <1>3, <1>4 DEF r, v

\* A value that takes the place of a load was kept, and is remembered.
LEMMA KnownFacts ==
    ASSUME Analysed, Reading, Current.op = "load", NEW e \in Known
    PROVE  /\ e.value \in Defined(kept) /\ ~ IsTable(Current)
           /\ Read(source.memory, Current.range) = source.values[e.value]
  <1>1. ~ IsTable(Current) /\ e \in Matching(reads) \cup Matching(writes)
    BY DEF Known
  <1>2. e \in reads \cup writes /\ e.range = Current.range /\ e.shape = Requested
    BY <1>1 DEF Matching
  <1>3. EntryOK(kept, source.values, source.memory, e)
    BY <1>2 DEF Analysed
  <1>4. e.shape.lines = Len(e.range)
    BY <1>2 DEF Requested, Shape
  <1>5. Read(source.memory, e.range) = source.values[e.value]
    BY <1>3, <1>4, EntryMatches
  <1>6. e.value \in Defined(kept)
    BY <1>3 DEF EntryOK
  <1> QED
    BY <1>1, <1>2, <1>5, <1>6

\* A load that is merged finds in memory the value that takes its place.
LEMMA MergeSafe ==
    ASSUME Inputs, Consistent, Analysed, Merge
    PROVE  AnalysisKept
  <1> DEFINE o == Current.output
             r == Read(source.memory, Current.range)
  <1>1. Step({"load"})
    BY DEF Merge
  <1>2. /\ Reading /\ Current.op = "load"
        /\ code' = code /\ pos' = pos + 1 /\ Observable' = Observable
        /\ DefinedBefore(code, pos + 1) = DefinedBefore(code, pos) \cup ({o} \ {None})
    BY <1>1, StepReads
  <1>3. PICK e \in Known : replacement' = [replacement EXCEPT ![o] = e.value]
    BY DEF Merge
  <1>4. e.value \in Defined(kept) /\ ~ IsTable(Current) /\ r = source.values[e.value]
    BY <1>2, KnownFacts
  <1>5. ~ Computes(Current) /\ o \in Values /\ None \notin Values
    BY <1>2, ProgramAssumption DEF Computes, Reading, Recorded
  <1>6. Prepared = source /\ Machine(source)
    BY <1>2, <1>5, PreparedFacts DEF Analysed
  <1>7. source' = After(source, Current, pos)
    BY <1>1, <1>6 DEF Step, Prepared
  <1> HIDE DEF r
  <1>8. /\ Machine(source') /\ source'.values = [source.values EXCEPT ![o] = r]
        /\ source'.memory = source.memory /\ source'.seen = source.seen
        /\ source'.modulus = source.modulus /\ source'.table = source.table
    BY <1>2, <1>4, <1>5, <1>6, <1>7, LoadMachine DEF r
  <1>9. /\ kept' = kept /\ shapes' = shapes /\ table' = table /\ context' = context
        /\ reads' = reads /\ writes' = writes /\ lastWriters' = lastWriters /\ observed' = observed
    BY DEF Merge, caches, memory
  <1>10. /\ source'.values[o] = r /\ o \in Values \ DefinedBefore(code, pos)
         /\ \A v \in DefinedBefore(code, pos) : source'.values[v] = source.values[v]
         /\ \A v \in Defined(kept) : source'.values[v] = source.values[v]
    BY <1>2, <1>5, <1>8, FreshValue
  <1>11. IsTuple(kept) /\ Kept(kept, source.values, code) /\ Len(kept) \in Nat
    BY KeptFacts DEF Analysed, Kept
  <1>12. Extends(kept, source.values, kept, source'.values)
    BY <1>10, <1>11, SameExtends
  <1>13. Kept(kept', source'.values, code')
    BY <1>2, <1>9, <1>10, <1>11, KeptExtends
  <1>14. MemoryOK(kept', lastWriters', source'.values, source'.memory)
    <2>1. \A n \in Len(kept) + 1 .. Len(kept) : kept[n].op # "store"
      BY <1>11
    <2>2. MemoryOK(kept, lastWriters, source.values, source.memory)
      BY DEF Analysed
    <2>3. MemoryOK(kept, lastWriters, source'.values, source.memory)
      BY <1>11, <1>12, <2>1, <2>2, MemoryExtends
    <2> QED
      BY <1>8, <1>9, <2>3
  <1>15. ReplacementOK(kept', source'.values, replacement', DefinedBefore(code', pos'))
    <2>1. ReplacementOK(kept, source.values, replacement, DefinedBefore(code, pos))
      BY DEF Analysed
    <2>2. source'.values[o] = source'.values[e.value]
      BY <1>4, <1>10
    <2>3. ReplacementOK(kept, source'.values, [replacement EXCEPT ![o] = e.value], DefinedBefore(code, pos) \cup {o})
      BY <1>4, <1>10, <2>1, <2>2, ReplacementMerges
    <2>4. DefinedBefore(code', pos') = DefinedBefore(code, pos) \cup {o}
      BY <1>2, <1>5
    <2> QED
      BY <1>3, <1>9, <2>3, <2>4
  <1>16. ShapesOK(kept', source'.values, shapes')
    BY <1>9, <1>10 DEF Analysed, ShapesOK
  <1>17. ASSUME NEW f \in reads' \cup writes'
         PROVE  EntryOK(kept', source'.values, source'.memory, f)
    <2>1. EntryOK(kept, source.values, source.memory, f)
      BY <1>9 DEF Analysed
    <2> QED
      BY <1>8, <1>9, <1>10, <2>1 DEF EntryOK
  <1>18. TablesOK'
    <2>1. Current.op # "modld"
      BY <1>2
    <2> QED
      BY <1>2, <1>4, <1>8, <1>9, <2>1, TablesKept
  <1>19. pos' \in 1 .. Len(code') + 1 /\ observed' \subseteq DOMAIN kept'
    BY <1>2, <1>9 DEF Reading, Analysed
  <1>20. Analysed'
    BY <1>8, <1>13, <1>14, <1>15, <1>16, <1>17, <1>18, <1>19 DEF Analysed
  <1>21. ASSUME NEW at, Synced(at) PROVE Synced(at)'
    <2>1. SyncsOK(at, kept, observed, Observable, source.values, source.seen)
      BY <1>21 DEF Synced
    <2>2. \A n \in Len(kept) + 1 .. Len(kept) : kept[n].op # "sync"
      BY <1>11
    <2>3. SyncsOK(at, kept, observed, Observable, source'.values, source.seen)
      BY <1>11, <1>12, <2>1, <2>2, SyncsExtend
    <2> QED
      BY <1>2, <1>8, <1>9, <2>3 DEF Synced
  <1> QED
    BY <1>20, <1>21 DEF AnalysisKept

\* Writers are positions in kept.
LEMMA WritersAreKept ==
    ASSUME Analysed, NEW cells, cells \subseteq ImageCells
    PROVE  WritersOf(cells) \subseteq 1 .. Len(kept)
  <1>1. Len(kept) \in Nat
    BY KeptFacts DEF Analysed
  <1>2. \A c \in ImageCells : lastWriters[c] \in 0 .. Len(kept)
    BY <1>1 DEF Analysed, MemoryOK, LastStore
  <1> QED
    BY <1>1, <1>2 DEF WritersOf

\* What the steps that keep an operation with an output have in common.
LEMMA OutputKept ==
    ASSUME Inputs, Analysed, Reading, NEW i, Grown(kept, kept', i), Current.output \in Values, NEW x,
           i.output = Current.output, i.op \notin {"store", "sync"},
           source'.values = [source.values EXCEPT ![Current.output] = x],
           source'.memory = source.memory, source'.seen = source.seen,
           code' = code, pos' = pos + 1, Observable' = Observable,
           DefinedBefore(code, pos + 1) = DefinedBefore(code, pos) \cup ({Current.output} \ {None}),
           replacement' = replacement, writes' = writes,
           lastWriters' = lastWriters, observed' = observed
    PROVE  /\ Extends(kept, source.values, kept', source'.values)
           /\ Defined(kept') = Defined(kept) \cup {Current.output}
           /\ source'.values[Current.output] = x
           /\ \A v \in Defined(kept) : source'.values[v] = source.values[v]
           /\ MemoryOK(kept', lastWriters', source'.values, source'.memory)
           /\ ReplacementOK(kept', source'.values, replacement', DefinedBefore(code', pos'))
           /\ \A e \in reads \cup writes : EntryOK(kept', source'.values, source'.memory, e)
           /\ pos' \in 1 .. Len(code') + 1 /\ observed' \subseteq DOMAIN kept'
           /\ \A at : Synced(at) => Synced(at)'
  <1> DEFINE o == Current.output
  <1>1. None \notin Values
    BY ProgramAssumption
  <1>2. /\ source'.values[o] = x /\ o \in Values \ DefinedBefore(code, pos)
        /\ \A v \in DefinedBefore(code, pos) : source'.values[v] = source.values[v]
        /\ \A v \in Defined(kept) : source'.values[v] = source.values[v]
    BY FreshValue
  <1>3. IsTuple(kept) /\ Kept(kept, source.values, code) /\ Len(kept) \in Nat
    BY KeptFacts DEF Analysed, Kept
  <1>4. Extends(kept, source.values, kept', source'.values)
    BY <1>2, <1>3, GrownExtends
  <1>5. /\ Defined(kept') = Defined(kept) \cup {o}
        /\ DOMAIN kept' = 1 .. Len(kept) + 1 /\ DOMAIN kept = 1 .. Len(kept)
    <2>1. /\ Defined(kept') = Defined(kept) \cup ({i.output} \ {None})
          /\ DOMAIN kept' = 1 .. Len(kept) + 1 /\ DOMAIN kept = 1 .. Len(kept)
      BY <1>3, GrownDefined
    <2> QED
      BY <1>1, <2>1
  <1>6. /\ Len(kept') = Len(kept) + 1
        /\ \A n \in Len(kept) + 1 .. Len(kept') : kept'[n].op \notin {"store", "sync"}
    BY <1>3 DEF Grown
  <1>7. MemoryOK(kept', lastWriters', source'.values, source'.memory)
    <2>1. MemoryOK(kept, lastWriters, source.values, source.memory)
      BY DEF Analysed
    <2>2. MemoryOK(kept', lastWriters, source'.values, source.memory)
      BY <1>3, <1>4, <1>6, <2>1, MemoryExtends
    <2> QED
      BY <2>2
  <1>8. ReplacementOK(kept', source'.values, replacement', DefinedBefore(code', pos'))
    <2>1. ReplacementOK(kept, source.values, replacement, DefinedBefore(code, pos))
      BY DEF Analysed
    <2>2. ReplacementOK(kept', source'.values, replacement, DefinedBefore(code, pos) \cup {o})
      <3>1. PICK known : known = DefinedBefore(code, pos)
        OBVIOUS
      <3>2. ReplacementOK(kept, source.values, replacement, known) /\ o \in Values \ known
        BY <1>2, <2>1, <3>1
      <3>3. \A v \in known : source'.values[v] = source.values[v]
        BY <1>2, <3>1
      <3>4. ReplacementOK(kept', source'.values, replacement, known \cup {o})
        BY <1>5, <3>2, <3>3, ReplacementGrows
      <3> QED
        BY <3>1, <3>4
    <2>3. DefinedBefore(code', pos') = DefinedBefore(code, pos) \cup {o}
      BY <1>1
    <2> QED
      BY <2>2, <2>3
  <1>9. ASSUME NEW e \in reads \cup writes PROVE EntryOK(kept', source'.values, source'.memory, e)
    <2>1. EntryOK(kept, source.values, source.memory, e)
      BY DEF Analysed
    <2> QED
      BY <1>2, <1>5, <2>1 DEF EntryOK
  <1>10. pos' \in 1 .. Len(code') + 1 /\ observed' \subseteq DOMAIN kept'
    BY <1>3, <1>5 DEF Reading, Analysed
  <1>11. ASSUME NEW at, Synced(at) PROVE Synced(at)'
    <2>1. SyncsOK(at, kept, observed, Observable, source.values, source.seen)
      BY <1>11 DEF Synced
    <2>2. SyncsOK(at, kept', observed, Observable, source'.values, source.seen)
      BY <1>3, <1>4, <1>6, <2>1, SyncsExtend
    <2> QED
      BY <2>2 DEF Synced
  <1> QED
    BY <1>2, <1>4, <1>5, <1>7, <1>8, <1>9, <1>10, <1>11

\* A load finds what the stores that it follows left.
LEMMA LoadFinds ==
    ASSUME Analysed, Reading, Current.op = "load", NEW i, Grown(kept, kept', i),
           i.range = Current.range, i.output = Current.output, i.after = WritersOf(Cells(Current)),
           Extends(kept, source.values, kept', source'.values),
           source'.values[Current.output] = Read(source.memory, Current.range)
    PROVE  Loaded(kept', source'.values, Len(kept) + 1)
  <1> DEFINE r == Current.range
             last == Len(kept) + 1
  <1>1. kept'[last] = i /\ IsTuple(kept) /\ Kept(kept, source.values, code) /\ Len(kept) \in Nat
    BY KeptFacts DEF Analysed, Kept, Grown
  <1>2. Read(source.memory, r) = [k \in DOMAIN r |-> source.memory[r[k]]]
    BY DEF Read
  <1>3. ASSUME NEW k \in DOMAIN r PROVE Found(kept', source'.values, last, k)
    <2>1. r[k] \in ImageCells /\ r[k] \in Cells(Current)
      BY DEF Reading, Recorded, Cells, Range
    <2>2. PICK m : m = lastWriters[r[k]]
      OBVIOUS
    <2>3. LastStore(kept, last, r[k], m) /\ source.memory[r[k]] = Held(kept, source.values, m, r[k])
      BY <2>1, <2>2 DEF Analysed, MemoryOK
    <2>4. m \in {0} \cup i.after
      BY <2>1, <2>2 DEF WritersOf
    <2>5. last \in 1 .. Len(kept) + 1 /\ last \in Nat /\ last - 1 <= Len(kept)
      BY <1>1
    <2>6. LastStore(kept', last, r[k], m)
      BY <1>1, <2>3, <2>5, LastStoreExtends
    <2>7. m \in 0 .. Len(kept) /\ (m # 0 => kept[m].op = "store")
      BY <1>1, <2>3, <2>5, LastStoreStores
    <2>8. Held(kept', source'.values, m, r[k]) = Held(kept, source.values, m, r[k])
      BY <1>1, <2>7, HeldExtends
    <2>9. source'.values[Current.output][k] = source.memory[r[k]]
      BY <1>2
    <2> QED
      BY <1>1, <2>3, <2>4, <2>6, <2>8, <2>9 DEF Found
  <1>4. source'.values[Current.output] = [k \in DOMAIN r |-> source'.values[Current.output][k]]
    BY <1>2
  <1> QED
    BY <1>1, <1>3, <1>4 DEF Loaded

\* TablesOK, of another state, when the table is loaded.
LEMMA TablesLoaded ==
    ASSUME Inputs, Analysed, Reading, pos' = pos + 1, code' = code,
           source'.table = TableContents(code), source'.modulus = source.modulus,
           table' = Current.output, Current.output # None, IsTable(Current), context' = context,
           \E n \in DOMAIN kept' : kept'[n].output = table' /\ IsTable(kept'[n])
    PROVE  TablesOK'
  <1>1. TablesOK /\ pos \in 1 .. Len(code) /\ Len(code) \in Nat /\ Current = code[pos]
    BY DEF Analysed, Reading, Current
  <1>2. TablesAfter(code, pos, context, table)
    BY <1>1 DEF TablesOK, TablesAfter
  <1>3. Current.op # "modld"
    BY DEF IsTable
  <1>4. context' = None <=> context = None /\ code[pos].op # "modld"
    BY <1>1, <1>3
  <1>5. table' = None <=> table = None /\ ~ IsTable(code[pos])
    BY <1>1
  <1>6. pos \in Nat \ {0}
    BY <1>1
  <1>7. TablesAfter(code, pos + 1, context', table')
    BY <1>2, <1>4, <1>5, <1>6, TablesStep
  <1>8. Modeless(code) => source'.modulus = None
    BY <1>1 DEF TablesOK
  <1> QED
    BY <1>7, <1>8 DEF TablesOK, TablesAfter

\* A load that is kept has what the last stores left.
LEMMA KeepLoadSafe ==
    ASSUME Inputs, Consistent, Analysed, KeepLoad
    PROVE  AnalysisKept
  <1> DEFINE o == Current.output
             r == Read(source.memory, Current.range)
             last == Len(kept) + 1
             deps == WritersOf(Cells(Current))
  <1>1. Step({"load"})
    BY DEF KeepLoad
  <1>2. /\ Reading /\ Current.op = "load"
        /\ code' = code /\ pos' = pos + 1 /\ Observable' = Observable
        /\ DefinedBefore(code, pos + 1) = DefinedBefore(code, pos) \cup ({o} \ {None})
    BY <1>1, StepReads
  <1>3. ~ Computes(Current) /\ o \in Values /\ None \notin Values
    BY <1>2, ProgramAssumption DEF Computes, Reading, Recorded
  <1>4. Prepared = source /\ Machine(source)
    BY <1>2, <1>3, PreparedFacts DEF Analysed
  <1>5. source' = After(source, Current, pos)
    BY <1>1, <1>4 DEF Step, Prepared
  <1> HIDE DEF r
  <1>6. /\ Machine(source') /\ source'.values = [source.values EXCEPT ![o] = r]
        /\ source'.memory = source.memory /\ source'.seen = source.seen /\ source'.modulus = source.modulus
        /\ IsTable(Current) => source'.table = r
        /\ ~ IsTable(Current) => source'.table = source.table
    BY <1>2, <1>3, <1>4, <1>5, LoadMachine DEF r
  <1>7. Cells(Current) \subseteq ImageCells
    BY <1>2 DEF Reading, Recorded, Cells, Range
  <1>8. Keep(deps) /\ deps \subseteq 1 .. Len(kept)
    BY <1>7, WritersAreKept DEF KeepLoad
  <1>9. Current.op \notin {"modld", "free"}
    BY <1>2
  <1>10. PICK i :
           /\ Grown(kept, kept', i)
           /\ i.op = Current.op /\ i.inputs = Resolved /\ i.output = Current.output
           /\ i.range = Current.range /\ i.kind = Current.kind /\ i.mod = Modulus
           /\ i.implicit = Implicit /\ i.after = deps /\ i.origin = pos
           /\ Typed(kept', last) /\ Supplied(kept', last) /\ Coned(kept', last)
    BY <1>2, <1>8, <1>9, KeepGrows
  <1>11. /\ shapes' = [shapes EXCEPT ![o] = Requested]
         /\ reads' = reads \cup {CachedRead(o, Requested)}
         /\ table' = (IF IsTable(Current) THEN o ELSE table)
         /\ context' = context /\ replacement' = replacement /\ writes' = writes
         /\ lastWriters' = lastWriters /\ observed' = observed
    BY DEF KeepLoad, memory
  <1>12. i.op \notin {"store", "sync"}
    BY <1>2, <1>10
  <1>13. /\ Extends(kept, source.values, kept', source'.values)
         /\ Defined(kept') = Defined(kept) \cup {o} /\ source'.values[o] = r
         /\ \A v \in Defined(kept) : source'.values[v] = source.values[v]
         /\ MemoryOK(kept', lastWriters', source'.values, source'.memory)
         /\ ReplacementOK(kept', source'.values, replacement', DefinedBefore(code', pos'))
         /\ \A e \in reads \cup writes : EntryOK(kept', source'.values, source'.memory, e)
         /\ pos' \in 1 .. Len(code') + 1 /\ observed' \subseteq DOMAIN kept'
         /\ \A at : Synced(at) => Synced(at)'
    BY <1>2, <1>3, <1>6, <1>10, <1>11, <1>12, OutputKept
  <1>14. /\ kept'[last] = i /\ Len(kept) \in Nat /\ DOMAIN kept' = 1 .. last /\ DOMAIN kept = 1 .. Len(kept)
         /\ \A n \in 1 .. Len(kept) : kept'[n] = kept[n]
    BY <1>10, GrownDefined DEF Grown, Analysed, Kept
  <1>15. IsTable(i) = IsTable(Current) /\ ~ Computes(i)
    BY <1>3, <1>10 DEF IsTable, Computes
  <1>16. IsTable(Current) => r = TableContents(code)
    BY <1>2, TableIsContents DEF r
  <1>17. Kept(kept', source'.values, code')
    <2>1. Loaded(kept', source'.values, last)
      BY <1>2, <1>10, <1>13, LoadFinds DEF r
    <2>2. Computed(kept', source'.values, last, code)
      BY <1>10, <1>13, <1>14, <1>15, <1>16 DEF Computed
    <2>3. NodeOK(kept', source'.values, code, last)
      BY <1>10, <2>1, <2>2 DEF NodeOK
    <2>4. Kept(kept, source.values, code)
      BY DEF Analysed
    <2>5. Kept(kept', source'.values, code)
      BY <1>10, <1>13, <2>3, <2>4, KeptGrows
    <2> QED
      BY <1>2, <2>5
  <1>18. Measured(source'.values[o], Requested.lines) /\ DOMAIN Current.range = 1 .. Len(Current.range)
    <2>1. Requested.lines = Len(Current.range) /\ Len(Current.range) \in Nat
      BY <1>2 DEF Requested, Shape, Reading, Recorded
    <2>2. r = [k \in DOMAIN Current.range |-> source.memory[Current.range[k]]]
      BY DEF Read, r
    <2>3. DOMAIN Current.range = 1 .. Len(Current.range)
      BY <1>2 DEF Reading, Recorded
    <2> QED
      BY <1>13, <2>1, <2>2, <2>3 DEF Measured
  <1>19. ShapesOK(kept', source'.values, shapes')
    <2>1. ShapesOK(kept, source.values, shapes)
      BY DEF Analysed
    <2>2. shapes' = [v \in Values |-> shapes'[v]] /\ shapes'[o] = Requested
      BY <1>3, <1>11, <2>1 DEF ShapesOK
    <2>3. ASSUME NEW v \in Defined(kept), v # o PROVE Measured(source'.values[v], shapes'[v].lines)
      <3>1. shapes'[v] = shapes[v]
        BY <1>11, <2>1, <2>3 DEF ShapesOK
      <3> QED
        BY <1>13, <2>1, <3>1 DEF ShapesOK
    <2> QED
      BY <1>13, <1>18, <2>2, <2>3 DEF ShapesOK
  <1>20. EntryOK(kept', source'.values, source'.memory, CachedRead(o, Requested))
    <2> DEFINE e == CachedRead(o, Requested)
    <2>1. e.value = o /\ e.range = Current.range /\ e.shape = Requested
      BY DEF CachedRead
    <2> HIDE DEF e
    <2>2. \A k \in DOMAIN Current.range : source'.values[o][k] = source.memory[Current.range[k]]
      BY <1>13 DEF r, Read
    <2>3. Current.range \in Seq(ImageCells)
      BY <1>2 DEF Reading, Recorded
    <2>4. EntryOK(kept', source'.values, source'.memory, e)
      BY <1>6, <1>13, <1>18, <2>1, <2>2, <2>3 DEF EntryOK
    <2> QED
      BY <2>4 DEF e
  <1>21. \A e \in reads' \cup writes' : EntryOK(kept', source'.values, source'.memory, e)
    BY <1>11, <1>13, <1>20
  <1>22. TablesOK'
    <2>1. CASE IsTable(Current)
      <3>1. kept'[last].output = table' /\ IsTable(kept'[last]) /\ last \in DOMAIN kept'
        BY <1>10, <1>11, <1>14, <1>15, <2>1
      <3>2. source'.table = TableContents(code) /\ o # None /\ table' = o
        BY <1>3, <1>6, <1>11, <1>16, <2>1
      <3> QED
        BY <1>2, <1>6, <1>11, <2>1, <3>1, <3>2, TablesLoaded
    <2>2. CASE ~ IsTable(Current)
      <3>1. \A n \in DOMAIN kept : n \in DOMAIN kept' /\ kept'[n] = kept[n]
        BY <1>14
      <3> QED
        BY <1>2, <1>6, <1>11, <2>2, <3>1, TablesKept
    <2> QED
      BY <2>1, <2>2
  <1>23. Analysed'
    BY <1>6, <1>13, <1>17, <1>19, <1>21, <1>22 DEF Analysed
  <1> QED
    BY <1>13, <1>23 DEF AnalysisKept

\* An operation that computes has the operands that stand for its own.
LEMMA KeepKernelSafe ==
    ASSUME Inputs, Consistent, Analysed, KeepKernel
    PROVE  AnalysisKept
  <1> DEFINE o == Current.output
             r == Result(pos, Len(Prepared.values[Current.inputs[1]]),
                         [n \in DOMAIN Current.inputs |-> Prepared.values[Current.inputs[n]]], Prepared.modulus)
             last == Len(kept) + 1
             first == Resolved[1]
             shape == IF Current.tied = None THEN Shape(shapes[first].lines, [shapes[first].kind EXCEPT !.mask = {}])
                      ELSE shapes[first]
  <1>1. Step({"arith", "stage", "mac"})
    BY DEF KeepKernel
  <1>2. /\ Reading /\ Current.op \in {"arith", "stage", "mac"}
        /\ code' = code /\ pos' = pos + 1 /\ Observable' = Observable
        /\ DefinedBefore(code, pos + 1) = DefinedBefore(code, pos) \cup ({o} \ {None})
    BY <1>1, StepReads
  <1>3. /\ Computes(Current) /\ ~ IsTable(Current) /\ o \in Values /\ None \notin Values
        /\ Current.inputs # << >>
    BY <1>2, ProgramAssumption DEF Computes, IsTable, Reading, Recorded
  <1>4. /\ Machine(Prepared) /\ Prepared.values = source.values /\ Prepared.memory = source.memory
        /\ Prepared.seen = source.seen /\ Prepared.table = source.table
        /\ Modeless(code) => Prepared.modulus = None
        /\ Modeless(code) <=> Modulus = None
        /\ Modulus # None => Implicit # None
        /\ Prepared.modulus = IF Modulus = None THEN None ELSE <<TableContents(code), Modulus>>
    BY <1>2, <1>3, PreparedFacts
  <1>5. source' = After(Prepared, Current, pos)
    BY <1>1 DEF Step, Prepared
  <1>6. r = Result(pos, Len(source.values[Current.inputs[1]]),
                   [n \in DOMAIN Current.inputs |-> source.values[Current.inputs[n]]],
                   IF Modulus = None THEN None ELSE <<TableContents(code), Modulus>>)
    BY <1>4
  <1> HIDE DEF r
  <1>7. /\ Machine(source') /\ source'.values = [source.values EXCEPT ![o] = r]
        /\ source'.memory = source.memory /\ source'.seen = source.seen
        /\ source'.modulus = Prepared.modulus /\ source'.table = source.table
    BY <1>3, <1>4, <1>5, KernelMachine DEF r
  <1>8. /\ Keep({}) /\ {} \subseteq 1 .. Len(kept) /\ Current.op \notin {"modld", "free"}
    BY <1>2 DEF KeepKernel
  <1>9. PICK i :
           /\ Grown(kept, kept', i)
           /\ i.op = Current.op /\ i.inputs = Resolved /\ i.output = Current.output
           /\ i.range = Current.range /\ i.kind = Current.kind /\ i.mod = Modulus
           /\ i.implicit = Implicit /\ i.after = {} /\ i.origin = pos
           /\ Typed(kept', last) /\ Supplied(kept', last) /\ Coned(kept', last)
    BY <1>2, <1>8, KeepGrows
  <1>10. /\ shapes' = [shapes EXCEPT ![o] = shape]
         /\ reads' = reads /\ table' = table
         /\ context' = context /\ replacement' = replacement /\ writes' = writes
         /\ lastWriters' = lastWriters /\ observed' = observed
    BY DEF KeepKernel, caches, memory
  <1>11. i.op \notin {"store", "sync"} /\ i.op # "load"
    BY <1>2, <1>9
  <1>12. /\ Extends(kept, source.values, kept', source'.values)
         /\ Defined(kept') = Defined(kept) \cup {o} /\ source'.values[o] = r
         /\ \A v \in Defined(kept) : source'.values[v] = source.values[v]
         /\ MemoryOK(kept', lastWriters', source'.values, source'.memory)
         /\ ReplacementOK(kept', source'.values, replacement', DefinedBefore(code', pos'))
         /\ \A e \in reads \cup writes : EntryOK(kept', source'.values, source'.memory, e)
         /\ pos' \in 1 .. Len(code') + 1 /\ observed' \subseteq DOMAIN kept'
         /\ \A at : Synced(at) => Synced(at)'
    BY <1>2, <1>3, <1>7, <1>9, <1>10, <1>11, OutputKept
  <1>13. /\ kept'[last] = i /\ Len(kept) \in Nat /\ DOMAIN kept' = 1 .. last /\ DOMAIN kept = 1 .. Len(kept)
         /\ \A n \in 1 .. Len(kept) : kept'[n] = kept[n]
    BY <1>9, GrownDefined DEF Grown, Analysed, Kept
  <1>14. /\ DOMAIN Resolved = DOMAIN Current.inputs /\ 1 \in DOMAIN Resolved
         /\ \A k \in DOMAIN Resolved :
               /\ Resolved[k] \in Defined(kept)
               /\ source.values[Resolved[k]] = source.values[Current.inputs[k]]
    BY <1>2, <1>3, ResolvedFacts
  <1>15. \A k \in DOMAIN Resolved : source'.values[Resolved[k]] = source.values[Current.inputs[k]]
    BY <1>12, <1>14
  <1>16. Kept(kept', source'.values, code')
    <2>1. Loaded(kept', source'.values, last)
      BY <1>11, <1>13 DEF Loaded
    <2>2. r = Outcome(i, source'.values, code)
      <3>1. Len(source'.values[i.inputs[1]]) = Len(source.values[Current.inputs[1]])
        BY <1>9, <1>14, <1>15
      <3>2. [n \in DOMAIN i.inputs |-> source'.values[i.inputs[n]]]
                = [n \in DOMAIN Current.inputs |-> source.values[Current.inputs[n]]]
        BY <1>9, <1>14, <1>15
      <3> QED
        BY <1>6, <1>9, <3>1, <3>2 DEF Outcome
    <2>3. ~ IsTable(i)
      BY <1>11 DEF IsTable
    <2>4. Computed(kept', source'.values, last, code)
      BY <1>4, <1>9, <1>12, <1>13, <2>2, <2>3 DEF Computed
    <2>5. NodeOK(kept', source'.values, code, last)
      BY <1>9, <2>1, <2>4 DEF NodeOK
    <2>6. Kept(kept, source.values, code)
      BY DEF Analysed
    <2>7. Kept(kept', source'.values, code)
      BY <1>9, <1>12, <2>5, <2>6, KeptGrows
    <2> QED
      BY <1>2, <2>7
  <1>17. ShapesOK(kept', source'.values, shapes')
    <2>1. ShapesOK(kept, source.values, shapes)
      BY DEF Analysed
    <2>2. shape.lines = shapes[first].lines
      BY DEF Shape
    <2> HIDE DEF shape
    <2>3. shapes' = [v \in Values |-> shapes'[v]] /\ shapes'[o] = shape
      BY <1>3, <1>10, <2>1 DEF ShapesOK
    <2>4. ASSUME NEW v \in Defined(kept), v # o PROVE Measured(source'.values[v], shapes'[v].lines)
      <3>1. shapes'[v] = shapes[v]
        BY <1>10, <2>1, <2>4 DEF ShapesOK
      <3> QED
        BY <1>12, <2>1, <3>1 DEF ShapesOK
    <2>5. Measured(source'.values[o], shape.lines)
      <3>1. Measured(source.values[first], shapes[first].lines)
        BY <1>14, <2>1 DEF ShapesOK
      <3>2. shapes[first].lines \in Nat /\ Len(source.values[first]) = shapes[first].lines
        BY <3>1, FunctionTuple DEF Measured
      <3>3. Len(source.values[Current.inputs[1]]) = shapes[first].lines
        BY <1>14, <3>2
      <3>4. r = [k \in 1 .. shapes[first].lines |-> r[k]]
        BY <1>6, <3>3 DEF Result
      <3> QED
        BY <1>12, <2>2, <3>2, <3>4 DEF Measured
    <2> QED
      BY <1>12, <2>3, <2>4, <2>5 DEF ShapesOK
  <1>18. \A e \in reads' \cup writes' : EntryOK(kept', source'.values, source'.memory, e)
    BY <1>10, <1>12
  <1>19. TablesOK'
    <2>1. \A n \in DOMAIN kept : n \in DOMAIN kept' /\ kept'[n] = kept[n]
      BY <1>13
    <2>2. source'.modulus = source.modulus \/ ~ Modeless(code)
      BY <1>4, <1>7 DEF Analysed, TablesOK
    <2>3. Current.op # "modld"
      BY <1>2
    <2> QED
      BY <1>2, <1>3, <1>7, <1>10, <2>1, <2>2, <2>3, TablesKept
  <1>20. Analysed'
    BY <1>7, <1>12, <1>16, <1>17, <1>18, <1>19 DEF Analysed
  <1> QED
    BY <1>12, <1>20 DEF AnalysisKept

\* Memory after a store.
LEMMA MemoryStores ==
    ASSUME Inputs, Analysed, Reading, Current.op = "store", NEW i, Grown(kept, kept', i),
           i.op = "store", i.range = Current.range, i.inputs = Resolved,
           Extends(kept, source.values, kept', source.values),
           NEW cells, cells = Written(source.memory, Current.range, source.values[Current.inputs[1]]),
           NEW writers,
           writers = [c \in ImageCells |-> IF c \in Cells(Current) THEN Len(kept) + 1 ELSE lastWriters[c]]
    PROVE  /\ MemoryOK(kept', writers, source.values, cells)
           /\ \A c \in ImageCells \ Cells(Current) : cells[c] = source.memory[c]
           /\ \A k \in DOMAIN Current.range :
                 cells[Current.range[k]] = source.values[Resolved[1]][k]
  <1> DEFINE r == Current.range
             v == source.values[Current.inputs[1]]
             last == Len(kept) + 1
  <1>1. /\ Len(kept) \in Nat /\ Kept(kept, source.values, code) /\ IsTuple(kept)
        /\ kept'[last] = i /\ Len(kept') = last
    BY KeptFacts DEF Analysed, Kept, Grown
  <1>2. Current.inputs # << >> /\ r \in Seq(ImageCells) /\ IsInjective(r)
    BY DEF Reading, Recorded
  <1>3. source.values[Resolved[1]] = v
    BY <1>2, ResolvedFacts
  <1>4. source.memory = [c \in ImageCells |-> source.memory[c]]
    BY DEF Analysed, Machine
  <1>5. ASSUME NEW c \in ImageCells
        PROVE  /\ c \in Cells(Current) => cells[c] = v[CHOOSE k \in DOMAIN r : r[k] = c]
               /\ c \notin Cells(Current) => cells[c] = source.memory[c]
    <2>1. cells[c] = IF \E k \in DOMAIN r : r[k] = c THEN v[CHOOSE k \in DOMAIN r : r[k] = c] ELSE source.memory[c]
      BY <1>4 DEF Written
    <2>2. (\E k \in DOMAIN r : r[k] = c) <=> c \in Cells(Current)
      BY DEF Cells, Range
    <2> QED
      BY <2>1, <2>2
  <1>6. ASSUME NEW c \in ImageCells
        PROVE  /\ LastStore(kept', last + 1, c, writers[c])
               /\ cells[c] = Held(kept', source.values, writers[c], c)
    <2>1. CASE c \in Cells(Current)
      <3>1. writers[c] = last
        BY <2>1
      <3>2. Covers(kept', last, c)
        BY <1>1, <2>1 DEF Covers, Cells
      <3>3. LastStore(kept', last + 1, c, last)
        BY <1>1, <3>2 DEF LastStore
      <3>4. Held(kept', source.values, last, c) = v[CHOOSE k \in DOMAIN r : r[k] = c]
        <4>1. last # 0 /\ kept'[last].range = r /\ source.values[kept'[last].inputs[1]] = v
          BY <1>1, <1>3
        <4> HIDE DEF last, r, v
        <4> QED
          BY <4>1 DEF Held
      <3> QED
        BY <1>5, <2>1, <3>1, <3>3, <3>4
    <2>2. CASE c \notin Cells(Current)
      <3>1. writers[c] = lastWriters[c]
        BY <2>2
      <3>2. LastStore(kept, last, c, writers[c]) /\ source.memory[c] = Held(kept, source.values, writers[c], c)
        BY <3>1 DEF Analysed, MemoryOK
      <3>3. last \in 1 .. Len(kept) + 1 /\ last \in Nat /\ last - 1 <= Len(kept)
        BY <1>1
      <3>4. LastStore(kept', last, c, writers[c])
        BY <1>1, <3>2, <3>3, LastStoreExtends
      <3>5. ~ Covers(kept', last, c)
        BY <1>1, <2>2 DEF Covers, Cells
      <3>6. LastStore(kept', last + 1, c, writers[c])
        BY <3>3, <3>4, <3>5 DEF LastStore
      <3>7. writers[c] \in 0 .. Len(kept) /\ (writers[c] # 0 => kept[writers[c]].op = "store")
        BY <1>1, <3>2, <3>3, LastStoreStores
      <3>8. Held(kept', source.values, writers[c], c) = Held(kept, source.values, writers[c], c)
        BY <1>1, <3>7, HeldExtends
      <3> QED
        BY <1>5, <2>2, <3>2, <3>6, <3>8
    <2> QED
      BY <2>1, <2>2
  <1>7. MemoryOK(kept', writers, source.values, cells)
    BY <1>1, <1>6 DEF MemoryOK
  <1>8. ASSUME NEW k \in DOMAIN r PROVE cells[r[k]] = source.values[Resolved[1]][k]
    <2>1. r[k] \in ImageCells /\ r[k] \in Cells(Current)
      BY <1>2 DEF Cells, Range
    <2>2. (CHOOSE l \in DOMAIN r : r[l] = r[k]) = k
      BY <1>2 DEF IsInjective
    <2>3. cells[r[k]] = v[CHOOSE l \in DOMAIN r : r[l] = r[k]]
      BY <1>5, <2>1
    <2> QED
      BY <1>3, <2>2, <2>3
  <1> QED
    BY <1>5, <1>7, <1>8

\* A store invalidates what it covers, and is remembered itself.
LEMMA KeepStoreSafe ==
    ASSUME Inputs, Consistent, Analysed, KeepStore
    PROVE  AnalysisKept
  <1> DEFINE last == Len(kept) + 1
  <1>1. Step({"store"})
    BY DEF KeepStore
  <1>2. /\ Reading /\ Current.op = "store"
        /\ code' = code /\ pos' = pos + 1 /\ Observable' = Observable
        /\ DefinedBefore(code, pos + 1) = DefinedBefore(code, pos) \cup ({Current.output} \ {None})
    BY <1>1, StepReads
  <1>3. ~ Computes(Current) /\ ~ IsTable(Current) /\ Current.output = None /\ Current.inputs # << >>
    BY <1>2 DEF Computes, IsTable, Reading, Recorded
  <1>4. Prepared = source /\ Machine(source)
    BY <1>2, <1>3, PreparedFacts DEF Analysed
  <1>5. source' = After(source, Current, pos)
    BY <1>1, <1>4 DEF Step, Prepared
  <1>6. /\ Machine(source') /\ source'.values = source.values
        /\ source'.memory = Written(source.memory, Current.range, source.values[Current.inputs[1]])
        /\ source'.seen = source.seen /\ source'.modulus = source.modulus /\ source'.table = source.table
    BY <1>2, <1>4, <1>5, StoreMachine
  <1>7. /\ Keep({}) /\ {} \subseteq 1 .. Len(kept) /\ Current.op \notin {"modld", "free"}
    BY <1>2 DEF KeepStore
  <1>8. PICK i :
           /\ Grown(kept, kept', i)
           /\ i.op = Current.op /\ i.inputs = Resolved /\ i.output = Current.output
           /\ i.range = Current.range /\ i.kind = Current.kind /\ i.mod = Modulus
           /\ i.implicit = Implicit /\ i.after = {} /\ i.origin = pos
           /\ Typed(kept', last) /\ Supplied(kept', last) /\ Coned(kept', last)
    BY <1>2, <1>7, KeepGrows
  <1>9. /\ shapes' = shapes /\ table' = table /\ context' = context /\ replacement' = replacement
        /\ reads' = Valid(reads)
        /\ writes' = Valid(writes) \cup {CachedRead(Resolved[1], shapes[Resolved[1]])}
        /\ lastWriters' = [c \in ImageCells |-> IF c \in Cells(Current) THEN Len(kept) + 1 ELSE lastWriters[c]]
        /\ observed' = observed
    BY DEF KeepStore
  <1>10. IsTuple(kept) /\ Kept(kept, source.values, code) /\ Len(kept) \in Nat
    BY KeptFacts DEF Analysed, Kept
  <1>11. Extends(kept, source.values, kept', source.values)
    BY <1>8, <1>10, GrownExtends
  <1>12. /\ Defined(kept') = Defined(kept) /\ kept'[last] = i /\ Len(kept') = last
         /\ DOMAIN kept' = 1 .. last /\ DOMAIN kept = 1 .. Len(kept)
         /\ \A n \in 1 .. Len(kept) : kept'[n] = kept[n]
    <2>1. /\ Defined(kept') = Defined(kept) \cup ({i.output} \ {None})
          /\ DOMAIN kept' = 1 .. Len(kept) + 1 /\ DOMAIN kept = 1 .. Len(kept)
      BY <1>8, <1>10, GrownDefined
    <2> QED
      BY <1>3, <1>8, <2>1 DEF Grown
  <1>13. Kept(kept', source'.values, code')
    <2>1. i.op # "load" /\ ~ IsTable(i) /\ ~ Computes(i)
      BY <1>2, <1>8 DEF IsTable, Computes
    <2>2. Loaded(kept', source.values, last) /\ Computed(kept', source.values, last, code)
      BY <1>12, <2>1 DEF Loaded, Computed
    <2>3. NodeOK(kept', source.values, code, last)
      BY <1>8, <2>2 DEF NodeOK
    <2>4. Kept(kept', source.values, code)
      BY <1>8, <1>10, <1>11, <2>3, KeptGrows
    <2> QED
      BY <1>2, <1>6, <2>4
  <1>14. /\ MemoryOK(kept', lastWriters', source.values, source'.memory)
         /\ \A c \in ImageCells \ Cells(Current) : source'.memory[c] = source.memory[c]
         /\ \A k \in DOMAIN Current.range :
               source'.memory[Current.range[k]] = source.values[Resolved[1]][k]
    BY <1>2, <1>6, <1>8, <1>9, <1>11, MemoryStores
  <1>15. ReplacementOK(kept', source'.values, replacement', DefinedBefore(code', pos'))
    <2>1. ReplacementOK(kept, source.values, replacement, DefinedBefore(code, pos))
      BY DEF Analysed
    <2>2. DefinedBefore(code', pos') = DefinedBefore(code, pos)
      BY <1>2, <1>3
    <2> QED
      BY <1>6, <1>9, <1>12, <2>1, <2>2, ReplacementSame
  <1>16. ShapesOK(kept', source'.values, shapes')
    BY <1>6, <1>9, <1>12 DEF Analysed, ShapesOK
  <1>17. EntryOK(kept', source'.values, source'.memory, CachedRead(Resolved[1], shapes[Resolved[1]]))
    <2> DEFINE e == CachedRead(Resolved[1], shapes[Resolved[1]])
    <2>1. e.value = Resolved[1] /\ e.range = Current.range /\ e.shape = shapes[Resolved[1]]
      BY DEF CachedRead
    <2> HIDE DEF e
    <2>2. Resolved[1] \in Defined(kept)
      BY <1>2, <1>3, ResolvedFacts
    <2>3. Measured(source.values[Resolved[1]], shapes[Resolved[1]].lines)
      BY <2>2 DEF Analysed, ShapesOK
    <2>4. Current.range \in Seq(ImageCells)
      BY <1>2 DEF Reading, Recorded
    <2>5. EntryOK(kept', source'.values, source'.memory, e)
      BY <1>6, <1>12, <1>14, <2>1, <2>2, <2>3, <2>4 DEF EntryOK
    <2> QED
      BY <2>5 DEF e
  <1>18. ASSUME NEW e \in Valid(reads) \cup Valid(writes)
         PROVE  EntryOK(kept', source'.values, source'.memory, e)
    <2>1. EntryOK(kept, source.values, source.memory, e) /\ Range(e.range) \cap Cells(Current) = {}
      BY DEF Analysed, Valid
    <2>2. \A k \in DOMAIN e.range : e.range[k] \in ImageCells \ Cells(Current)
      BY <2>1 DEF EntryOK, Range
    <2> QED
      BY <1>6, <1>12, <1>14, <2>1, <2>2 DEF EntryOK
  <1>19. \A e \in reads' \cup writes' : EntryOK(kept', source'.values, source'.memory, e)
    BY <1>9, <1>17, <1>18
  <1>20. TablesOK'
    <2>1. \A n \in DOMAIN kept : n \in DOMAIN kept' /\ kept'[n] = kept[n]
      BY <1>12
    <2>2. Current.op # "modld"
      BY <1>2
    <2> QED
      BY <1>2, <1>3, <1>6, <1>9, <2>1, <2>2, TablesKept
  <1>21. pos' \in 1 .. Len(code') + 1 /\ observed' \subseteq DOMAIN kept'
    BY <1>2, <1>9, <1>10, <1>12 DEF Reading, Analysed
  <1>22. Analysed'
    BY <1>6, <1>13, <1>14, <1>15, <1>16, <1>19, <1>20, <1>21 DEF Analysed
  <1>23. ASSUME NEW at, Synced(at) PROVE Synced(at)'
    <2>1. SyncsOK(at, kept, observed, Observable, source.values, source.seen)
      BY <1>23 DEF Synced
    <2>2. \A n \in Len(kept) + 1 .. Len(kept') : kept'[n].op # "sync"
      BY <1>2, <1>8, <1>10, <1>12
    <2>3. SyncsOK(at, kept', observed, Observable, source.values, source.seen)
      BY <1>10, <1>11, <2>1, <2>2, SyncsExtend
    <2> QED
      BY <1>2, <1>6, <1>9, <2>3 DEF Synced
  <1> QED
    BY <1>22, <1>23 DEF AnalysisKept

\* A synchronisation sees what the last stores left, and remembers them.
LEMMA SyncSees ==
    ASSUME Inputs, Analysed, NEW i, Grown(kept, kept', i), i.op = "sync",
           Extends(kept, source.values, kept', source.values),
           NEW at, Synced(at), NEW now, now = [c \in Observable |-> source.memory[c]]
    PROVE  SyncsOK(Append(at, Len(kept) + 1), kept', observed \cup WritersOf(Observable), Observable,
                   source.values, Append(source.seen, now))
  <1> DEFINE last   == Len(kept) + 1
             longer == Append(at, last)
             more   == Append(source.seen, now)
             seers  == observed \cup WritersOf(Observable)
  <1>1. /\ Len(kept) \in Nat /\ Kept(kept, source.values, code) /\ IsTuple(kept)
        /\ kept'[last] = i /\ DOMAIN kept' = 1 .. last /\ DOMAIN kept = 1 .. Len(kept)
        /\ \A n \in 1 .. Len(kept) : kept'[n] = kept[n]
    BY KeptFacts, GrownDefined DEF Analysed, Kept, Grown
  <1>2. /\ IsTuple(at) /\ Len(at) = Len(source.seen)
        /\ \A j \in 1 .. Len(at) : at[j] \in 1 .. Len(kept) /\ kept[at[j]].op = "sync"
        /\ \A n \in 1 .. Len(kept) : kept[n].op = "sync" => \E j \in 1 .. Len(at) : at[j] = n
        /\ \A j, l \in 1 .. Len(at) : j < l => at[j] < at[l]
        /\ \A j \in 1 .. Len(at) : source.seen[j] = [c \in Observable |-> source.seen[j][c]]
        /\ \A j \in 1 .. Len(at) : \A c \in Observable : \E w \in {0} \cup observed :
              LastStore(kept, at[j], c, w) /\ source.seen[j][c] = Held(kept, source.values, w, c)
    BY <1>1 DEF Synced, SyncsOK
  <1>3. PICK m \in Nat : m = Len(at)
    BY <1>2 DEF IsTuple
  <1>4. /\ IsTuple(longer) /\ Len(longer) = m + 1 /\ longer[m + 1] = last
        /\ \A j \in 1 .. m : longer[j] = at[j]
    BY <1>2, <1>3, TupleAppend
  <1>5. IsTuple(source.seen)
    BY DEF Analysed, Machine
  <1>6. /\ Len(more) = m + 1 /\ more[m + 1] = now /\ \A j \in 1 .. m : more[j] = source.seen[j]
    BY <1>2, <1>3, <1>5, TupleAppend
  <1> HIDE DEF longer, more, last, seers
  <1>7. last \in Nat /\ last = Len(kept) + 1
    BY <1>1 DEF last
  <1>8. \A j \in 1 .. m + 1 : longer[j] \in DOMAIN kept' /\ kept'[longer[j]].op = "sync"
    <2>1. ASSUME NEW j \in 1 .. m PROVE longer[j] \in DOMAIN kept' /\ kept'[longer[j]].op = "sync"
      <3>1. longer[j] = at[j] /\ at[j] \in 1 .. Len(kept) /\ kept[at[j]].op = "sync"
        BY <1>2, <1>3, <1>4
      <3>2. PICK n \in 1 .. Len(kept) : n = at[j]
        BY <3>1
      <3>3. kept'[n] = kept[n] /\ n \in DOMAIN kept'
        BY <1>1, <1>7
      <3> QED
        BY <3>1, <3>2, <3>3
    <2>2. longer[m + 1] \in DOMAIN kept' /\ kept'[longer[m + 1]].op = "sync"
      BY <1>1, <1>4, <1>7
    <2> QED
      BY <2>1, <2>2
  <1>9. \A n \in DOMAIN kept' : kept'[n].op = "sync" => \E j \in 1 .. m + 1 : longer[j] = n
    <2>1. ASSUME NEW n \in DOMAIN kept', kept'[n].op = "sync" PROVE \E j \in 1 .. m + 1 : longer[j] = n
      <3>1. CASE n = last
        BY <1>4, <3>1
      <3>2. CASE n # last
        <4>1. n \in 1 .. Len(kept) /\ kept[n].op = "sync"
          BY <1>1, <1>7, <2>1, <3>2
        <4>2. PICK j \in 1 .. m : at[j] = n
          BY <1>2, <1>3, <4>1
        <4> QED
          BY <1>4, <4>2
      <3> QED
        BY <3>1, <3>2
    <2> QED
      BY <2>1
  <1>10. \A j, l \in 1 .. m + 1 : j < l => longer[j] < longer[l]
    <2>1. ASSUME NEW j \in 1 .. m + 1, NEW l \in 1 .. m + 1, j < l PROVE longer[j] < longer[l]
      <3>1. j \in 1 .. m /\ longer[j] = at[j] /\ at[j] \in 1 .. Len(kept)
        BY <1>2, <1>3, <1>4, <2>1
      <3>2. CASE l = m + 1
        BY <1>1, <1>4, <1>7, <3>1, <3>2
      <3>3. CASE l # m + 1
        <4>1. l \in 1 .. m /\ longer[l] = at[l]
          BY <1>4, <3>3
        <4> QED
          BY <1>2, <1>3, <2>1, <3>1, <4>1
      <3> QED
        BY <3>2, <3>3
    <2> QED
      BY <2>1
  <1>11. \A j \in 1 .. m + 1 : more[j] = [c \in Observable |-> more[j][c]]
    <2>1. \A j \in 1 .. m : more[j] = [c \in Observable |-> more[j][c]]
      BY <1>2, <1>3, <1>6
    <2>2. now = [c \in Observable |-> now[c]]
      OBVIOUS
    <2>3. ASSUME NEW j \in 1 .. m + 1 PROVE more[j] = [c \in Observable |-> more[j][c]]
      <3>1. CASE j = m + 1
        <4>1. more[j] = now
          BY <1>6, <3>1
        <4> QED
          BY <2>2, <4>1
      <3>2. CASE j # m + 1
        <4>1. j \in 1 .. m
          BY <3>2
        <4> QED
          BY <2>1, <4>1
      <3> QED
        BY <3>1, <3>2
    <2> QED
      BY <2>3
  <1>12. ASSUME NEW n \in 1 .. last, NEW c \in Observable, NEW w, LastStore(kept, n, c, w)
         PROVE  LastStore(kept', n, c, w) /\ Held(kept', source.values, w, c) = Held(kept, source.values, w, c)
    <2>1. n \in 1 .. Len(kept) + 1 /\ n \in Nat /\ n - 1 <= Len(kept)
      BY <1>1, <1>7
    <2>2. LastStore(kept', n, c, w)
      BY <1>1, <1>12, <2>1, LastStoreExtends
    <2>3. w \in 0 .. Len(kept) /\ (w # 0 => kept[w].op = "store")
      BY <1>1, <1>12, <2>1, LastStoreStores
    <2> QED
      BY <1>1, <2>2, <2>3, HeldExtends
  <1>13. ASSUME NEW j \in 1 .. m + 1, NEW c \in Observable
         PROVE  \E w \in {0} \cup seers :
                   LastStore(kept', longer[j], c, w) /\ more[j][c] = Held(kept', source.values, w, c)
    <2>1. CASE j = m + 1
      <3>1. c \in ImageCells
        BY InputFacts
      <3>2. PICK w : w = lastWriters[c]
        OBVIOUS
      <3>3. LastStore(kept, last, c, w) /\ source.memory[c] = Held(kept, source.values, w, c)
        BY <1>7, <3>1, <3>2 DEF Analysed, MemoryOK
      <3>4. w \in {0} \cup seers
        BY <3>2 DEF WritersOf, seers
      <3>5. last \in 1 .. last
        BY <1>1, <1>7
      <3>6. LastStore(kept', last, c, w) /\ Held(kept', source.values, w, c) = Held(kept, source.values, w, c)
        BY <1>12, <3>3, <3>5
      <3>7. more[j][c] = source.memory[c] /\ longer[j] = last
        BY <1>4, <1>6, <2>1
      <3> QED
        BY <3>3, <3>4, <3>6, <3>7
    <2>2. CASE j # m + 1
      <3>1. j \in 1 .. m /\ longer[j] = at[j] /\ more[j] = source.seen[j]
        BY <1>4, <1>6, <2>2
      <3>2. PICK w \in {0} \cup observed :
               LastStore(kept, at[j], c, w) /\ source.seen[j][c] = Held(kept, source.values, w, c)
        BY <1>2, <1>3, <3>1
      <3>3. PICK n \in 1 .. last : n = at[j]
        BY <1>1, <1>2, <1>3, <1>7, <3>1
      <3>4. LastStore(kept', n, c, w) /\ Held(kept', source.values, w, c) = Held(kept, source.values, w, c)
        BY <1>12, <3>2, <3>3
      <3>5. w \in {0} \cup seers
        BY DEF seers
      <3> QED
        BY <3>1, <3>2, <3>3, <3>4, <3>5
    <2> QED
      BY <2>1, <2>2
  <1>14. SyncsOK(longer, kept', seers, Observable, source.values, more)
    BY <1>4, <1>6, <1>8, <1>9, <1>10, <1>11, <1>13 DEF SyncsOK
  <1> QED
    BY <1>14 DEF longer, more, seers, last

\* A synchronisation is remembered, and so is what it observes.
LEMMA KeepSyncSafe ==
    ASSUME Inputs, Consistent, Analysed, KeepSync
    PROVE  /\ Analysed'
           /\ \A at : Synced(at) => \E longer : Synced(longer)'
  <1> DEFINE last == Len(kept) + 1
             now  == [c \in Observable |-> source.memory[c]]
  <1>1. Step({"sync"})
    BY DEF KeepSync
  <1>2. /\ Reading /\ Current.op = "sync"
        /\ code' = code /\ pos' = pos + 1 /\ Observable' = Observable
        /\ DefinedBefore(code, pos + 1) = DefinedBefore(code, pos) \cup ({Current.output} \ {None})
    BY <1>1, StepReads
  <1>3. ~ Computes(Current) /\ ~ IsTable(Current) /\ Current.output = None
    BY <1>2 DEF Computes, IsTable, Reading, Recorded
  <1>4. Prepared = source /\ Machine(source)
    BY <1>2, <1>3, PreparedFacts DEF Analysed
  <1>5. source' = After(source, Current, pos)
    BY <1>1, <1>4 DEF Step, Prepared
  <1>6. /\ Machine(source') /\ source'.values = source.values /\ source'.memory = source.memory
        /\ source'.seen = Append(source.seen, now)
        /\ source'.modulus = source.modulus /\ source'.table = source.table
    BY <1>2, <1>4, <1>5, SyncMachine
  <1>7. /\ Keep({}) /\ {} \subseteq 1 .. Len(kept) /\ Current.op \notin {"modld", "free"}
    BY <1>2 DEF KeepSync
  <1>8. PICK i :
           /\ Grown(kept, kept', i)
           /\ i.op = Current.op /\ i.inputs = Resolved /\ i.output = Current.output
           /\ i.range = Current.range /\ i.kind = Current.kind /\ i.mod = Modulus
           /\ i.implicit = Implicit /\ i.after = {} /\ i.origin = pos
           /\ Typed(kept', last) /\ Supplied(kept', last) /\ Coned(kept', last)
    BY <1>2, <1>7, KeepGrows
  <1>9. /\ shapes' = shapes /\ table' = table /\ context' = context /\ replacement' = replacement
        /\ reads' = {} /\ writes' = {} /\ lastWriters' = lastWriters
        /\ observed' = observed \cup WritersOf(Observable)
    BY DEF KeepSync
  <1>10. IsTuple(kept) /\ Kept(kept, source.values, code) /\ Len(kept) \in Nat
    BY KeptFacts DEF Analysed, Kept
  <1>11. Extends(kept, source.values, kept', source.values)
    BY <1>8, <1>10, GrownExtends
  <1>12. /\ Defined(kept') = Defined(kept) /\ kept'[last] = i /\ Len(kept') = last
         /\ DOMAIN kept' = 1 .. last /\ DOMAIN kept = 1 .. Len(kept)
         /\ \A n \in 1 .. Len(kept) : kept'[n] = kept[n]
    <2>1. /\ Defined(kept') = Defined(kept) \cup ({i.output} \ {None})
          /\ DOMAIN kept' = 1 .. Len(kept) + 1 /\ DOMAIN kept = 1 .. Len(kept)
      BY <1>8, <1>10, GrownDefined
    <2> QED
      BY <1>3, <1>8, <2>1 DEF Grown
  <1>13. Kept(kept', source'.values, code')
    <2>1. i.op # "load" /\ ~ IsTable(i) /\ ~ Computes(i)
      BY <1>2, <1>8 DEF IsTable, Computes
    <2>2. Loaded(kept', source.values, last) /\ Computed(kept', source.values, last, code)
      BY <1>12, <2>1 DEF Loaded, Computed
    <2>3. NodeOK(kept', source.values, code, last)
      BY <1>8, <2>2 DEF NodeOK
    <2>4. Kept(kept', source.values, code)
      BY <1>8, <1>10, <1>11, <2>3, KeptGrows
    <2> QED
      BY <1>2, <1>6, <2>4
  <1>14. MemoryOK(kept', lastWriters', source'.values, source'.memory)
    <2>1. \A n \in Len(kept) + 1 .. Len(kept') : kept'[n].op # "store"
      BY <1>2, <1>8, <1>10, <1>12
    <2>2. MemoryOK(kept, lastWriters, source.values, source.memory)
      BY DEF Analysed
    <2>3. MemoryOK(kept', lastWriters, source.values, source.memory)
      BY <1>10, <1>11, <2>1, <2>2, MemoryExtends
    <2> QED
      BY <1>6, <1>9, <2>3
  <1>15. ReplacementOK(kept', source'.values, replacement', DefinedBefore(code', pos'))
    <2>1. ReplacementOK(kept, source.values, replacement, DefinedBefore(code, pos))
      BY DEF Analysed
    <2>2. DefinedBefore(code', pos') = DefinedBefore(code, pos)
      BY <1>2, <1>3
    <2> QED
      BY <1>6, <1>9, <1>12, <2>1, <2>2, ReplacementSame
  <1>16. ShapesOK(kept', source'.values, shapes')
    BY <1>6, <1>9, <1>12 DEF Analysed, ShapesOK
  <1>17. TablesOK'
    <2>1. \A n \in DOMAIN kept : n \in DOMAIN kept' /\ kept'[n] = kept[n]
      BY <1>12
    <2>2. Current.op # "modld"
      BY <1>2
    <2> QED
      BY <1>2, <1>3, <1>6, <1>9, <2>1, <2>2, TablesKept
  <1>18. pos' \in 1 .. Len(code') + 1
    BY <1>2 DEF Reading
  <1>19. observed' \subseteq DOMAIN kept'
    <2>1. WritersOf(Observable) \subseteq 1 .. Len(kept)
      BY InputFacts, WritersAreKept
    <2> QED
      BY <1>9, <1>10, <1>12, <2>1 DEF Analysed
  <1>20. Analysed'
    BY <1>6, <1>9, <1>13, <1>14, <1>15, <1>16, <1>17, <1>18, <1>19 DEF Analysed
  <1>21. ASSUME NEW at, Synced(at) PROVE \E longer : Synced(longer)'
    <2>1. i.op = "sync"
      BY <1>2, <1>8
    <2>2. SyncsOK(Append(at, last), kept', observed \cup WritersOf(Observable), Observable,
                  source.values, Append(source.seen, now))
      BY <1>8, <1>11, <1>21, <2>1, SyncSees
    <2>3. PICK longer : longer = Append(at, last)
      OBVIOUS
    <2>4. SyncsOK(longer, kept', observed', Observable', source'.values, source'.seen)
      BY <1>2, <1>6, <1>9, <2>2, <2>3
    <2> QED
      BY <2>4 DEF Synced
  <1> QED
    BY <1>20, <1>21

-----------------------------------------------------------------------------
(* What is left when the program has been read, and the order it has.      *)

\* What is live has all that it needs, and all that somebody observes.
Whole ==
    /\ live \subseteq 1 .. Len(kept)
    /\ \A n \in live : kept[n].after \subseteq live
    /\ \A n \in live : \A m \in 1 .. n - 1 :
          kept[m].output \in Needs(kept[n].inputs, kept[n].implicit) => m \in live
    /\ \A n \in 1 .. Len(kept) : kept[n].op = "sync" => n \in live
    /\ observed \subseteq live /\ WritersOf(Observable) \subseteq live

\* What Prune leaves has all it needs: cones are closed, and the roots are live.
LEMMA PruneKeepsWhole ==
    ASSUME Inputs, Analysed, Prune
    PROVE  Whole'
  <1>1. /\ Len(kept) \in Nat /\ DOMAIN kept = 1 .. Len(kept)
        /\ \A n \in 1 .. Len(kept) : Coned(kept, n)
    BY KeptFacts DEF Analysed, NodeOK
  <1>2. observed \subseteq 1 .. Len(kept) /\ WritersOf(Observable) \subseteq 1 .. Len(kept)
    BY <1>1, InputFacts, WritersAreKept DEF Analysed
  <1>3. Roots \subseteq 1 .. Len(kept)
    BY <1>1, <1>2 DEF Roots
  <1>4. /\ live' = IF mode = "canonical" THEN DOMAIN kept ELSE Reachable
        /\ kept' = kept /\ observed' = observed /\ WritersOf(Observable)' = WritersOf(Observable)
    BY DEF Prune, analysis, inputs, memory, WritersOf, Observable
  <1>5. \A n \in 1 .. Len(kept) : /\ kept[n].after \subseteq kept[n].cone
                                  /\ kept[n].cone \subseteq 1 .. n - 1
                                  /\ \A m \in 1 .. n - 1 :
                                        kept[m].output \in Needs(kept[n].inputs, kept[n].implicit) => m \in kept[n].cone
                                  /\ \A m \in kept[n].cone : kept[m].cone \subseteq kept[n].cone
    BY <1>1 DEF Coned
  <1>6. live' \subseteq 1 .. Len(kept) /\ \A n \in live' : kept[n].cone \subseteq live'
    <2>1. CASE mode = "canonical"
      <3>1. live' = 1 .. Len(kept)
        BY <1>1, <1>4, <2>1
      <3> QED
        BY <1>1, <1>5, <3>1
    <2>2. CASE mode # "canonical"
      <3>1. live' = Roots \cup UNION {kept[n].cone : n \in Roots}
        BY <1>4, <2>2 DEF Reachable
      <3>2. \A n \in Roots : kept[n].cone \subseteq 1 .. Len(kept)
        BY <1>1, <1>3, <1>5
      <3>3. live' \subseteq 1 .. Len(kept)
        BY <1>3, <3>1, <3>2
      <3>4. ASSUME NEW n \in live' PROVE kept[n].cone \subseteq live'
        <4>1. CASE n \in Roots
          BY <3>1, <4>1
        <4>2. CASE n \notin Roots
          <5>1. PICK r \in Roots : n \in kept[r].cone
            BY <3>1, <4>2
          <5>2. kept[n].cone \subseteq kept[r].cone
            BY <1>3, <1>5, <5>1
          <5> QED
            BY <3>1, <5>1, <5>2
        <4> QED
          BY <4>1, <4>2
      <3> QED
        BY <3>3, <3>4
    <2> QED
      BY <2>1, <2>2
  <1>7. \A n \in live' : n \in 1 .. Len(kept)
    BY <1>6
  <1>8. \A n \in live' : kept[n].after \subseteq live'
    BY <1>5, <1>6, <1>7
  <1>9. \A n \in live' : \A m \in 1 .. n - 1 :
           kept[m].output \in Needs(kept[n].inputs, kept[n].implicit) => m \in live'
    BY <1>5, <1>6, <1>7
  <1>10. Roots \subseteq live'
    BY <1>1, <1>3, <1>4 DEF Reachable
  <1>11. /\ \A n \in 1 .. Len(kept) : kept[n].op = "sync" => n \in live'
         /\ observed \subseteq live' /\ WritersOf(Observable) \subseteq live'
    BY <1>1, <1>10 DEF Roots
  <1> QED
    BY <1>4, <1>6, <1>8, <1>9, <1>11 DEF Whole

\* What is known once the program has been read.
Ordered == Inputs /\ Analysed /\ Whole

\* The last synchronisation before an operation.
LEMMA BarrierFacts ==
    ASSUME Ordered, NEW n \in live
    PROVE  /\ n \in 1 .. Len(kept) /\ Len(kept) \in Nat
           /\ Barrier(n) \in 0 .. n - 1
           /\ Barrier(n) # 0 => Barrier(n) \in live /\ kept[Barrier(n)].op = "sync"
           /\ \A m \in live : m < n /\ kept[m].op = "sync" => m <= Barrier(n)
  <1> DEFINE T == {0} \cup Earlier(n, {"sync"})
  <1>1. n \in 1 .. Len(kept) /\ Len(kept) \in Nat /\ live \subseteq 1 .. Len(kept)
    BY KeptFacts DEF Ordered, Analysed, Whole
  <1>2. /\ T \subseteq 0 .. n - 1 /\ T # {}
        /\ \A m \in T : m # 0 => m \in live /\ kept[m].op = "sync"
        /\ \A m \in live : m < n /\ kept[m].op = "sync" => m \in T
    BY <1>1 DEF Earlier
  <1>3. Barrier(n) = Max(T) /\ n - 1 \in Nat
    BY <1>1 DEF Barrier
  <1> HIDE DEF T
  <1>4. Max(T) \in T /\ \A m \in T : m <= Max(T)
    BY <1>2, <1>3, MaxIn
  <1> QED
    BY <1>1, <1>2, <1>3, <1>4

\* An operation waits for operations before it, among them those that make its
\* operands and its modulus table.
LEMMA PredecessorFacts ==
    ASSUME Ordered, NEW n \in live
    PROVE  /\ Predecessors(n) \subseteq live
           /\ \A m \in Predecessors(n) : m < n
           /\ \A m \in 1 .. n - 1 :
                 kept[m].output \in Needs(kept[n].inputs, kept[n].implicit) => m \in Predecessors(n)
           /\ Barrier(n) # 0 => Barrier(n) \in Predecessors(n)
  <1> DEFINE needs == Needs(kept[n].inputs, kept[n].implicit)
  <1>1. /\ n \in 1 .. Len(kept) /\ Len(kept) \in Nat /\ live \subseteq 1 .. Len(kept)
        /\ DOMAIN kept = 1 .. Len(kept) /\ \A m \in 1 .. Len(kept) : NodeOK(kept, source.values, code, m)
    BY KeptFacts DEF Ordered, Analysed, Whole
  <1>2. \A m \in 1 .. Len(kept) : Typed(kept, m) /\ Supplied(kept, m)
    BY <1>1 DEF NodeOK
  <1>3. ASSUME NEW v \in needs
        PROVE  v # None /\ \E m \in 1 .. n - 1 : kept[m].output = v
    <2>1. CASE v \in Range(kept[n].inputs)
      <3>1. kept[n].inputs \in Seq(Values)
        BY <1>1, <1>2 DEF Typed
      <3>2. v \in Values
        BY <2>1, <3>1 DEF Range
      <3> QED
        BY <1>1, <1>2, <2>1, <3>2, ProgramAssumption DEF Supplied
    <2>2. CASE v \notin Range(kept[n].inputs)
      <3>1. v = kept[n].implicit /\ v # None
        BY <2>2 DEF Needs
      <3> QED
        BY <1>1, <1>2, <3>1 DEF Supplied
    <2> QED
      BY <2>1, <2>2
  <1>4. ASSUME NEW m \in DOMAIN kept, kept[m].output \in needs PROVE m < n
    <2>1. PICK l \in 1 .. n - 1 : kept[l].output = kept[m].output /\ kept[m].output # None
      BY <1>3, <1>4
    <2>2. \A x \in 1 .. m - 1 : kept[x].output # kept[m].output
      BY <1>1, <1>2, <1>4, <2>1 DEF Supplied
    <2>3. ~ (l < m)
      BY <1>1, <1>4, <2>1, <2>2
    <2> QED
      BY <1>1, <1>4, <2>1, <2>3
  <1>5. /\ \A m \in Producers(needs) \cap live : m \in live /\ m < n
        /\ \A m \in 1 .. n - 1 : kept[m].output \in needs => m \in Producers(needs) \cap live
    <2>1. \A m \in Producers(needs) : m < n
      BY <1>4 DEF Producers
    <2>2. \A m \in 1 .. n - 1 : kept[m].output \in needs => m \in Producers(needs)
      BY <1>1 DEF Producers
    <2>3. \A m \in 1 .. n - 1 : kept[m].output \in needs => m \in live
      BY DEF Ordered, Whole
    <2> QED
      BY <2>1, <2>2, <2>3
  <1>6. Barrier(n) # 0 => Barrier(n) \in live /\ Barrier(n) < n
    BY <1>1, BarrierFacts
  <1>7. \A m \in Accesses(n) : m \in live /\ m < n
    BY DEF Accesses, Since, Earlier
  <1>8. \A m \in ContextUsers(n) : m \in live /\ m < n
    BY DEF ContextUsers, Earlier
  <1> HIDE DEF needs
  <1>9. Predecessors(n) =
          (Producers(needs) \cap live)
          \cup (IF Barrier(n) # 0 THEN {Barrier(n)} ELSE {})
          \cup (IF IsDma(kept[n]) THEN Accesses(n) ELSE {})
          \cup (IF IsTable(kept[n]) THEN ContextUsers(n) ELSE {})
          \cup (IF kept[n].op = "sync" THEN {m \in live : Barrier(n) < m /\ m < n} ELSE {})
    BY DEF Predecessors, needs
  <1>10. \A m \in Predecessors(n) : m \in live /\ m < n
    BY <1>5, <1>6, <1>7, <1>8, <1>9
  <1>11. \A m \in 1 .. n - 1 : kept[m].output \in needs => m \in Predecessors(n)
    BY <1>5, <1>9
  <1>12. Barrier(n) # 0 => Barrier(n) \in Predecessors(n)
    BY <1>9
  <1> QED
    BY <1>10, <1>11, <1>12 DEF needs

\* A set of operations that comes with all that they wait for.
Closed(done) == done \subseteq live /\ \A n \in done : Predecessors(n) \subseteq done

\* A synchronisation comes after everything before it.
LEMMA SyncsFollow ==
    ASSUME Ordered, NEW done, Closed(done)
    PROVE  \A x \in live : kept[x].op = "sync" /\ Predecessors(x) \subseteq done =>
              \A a \in live : a < x => a \in done
  <1> DEFINE T == {x \in live : /\ kept[x].op = "sync" /\ Predecessors(x) \subseteq done
                                /\ \E a \in live : a < x /\ a \notin done}
  <1>1. live \subseteq 1 .. Len(kept) /\ Len(kept) \in Nat
    BY KeptFacts DEF Ordered, Analysed, Whole
  <1>2. T \subseteq Nat
    <2>1. T \subseteq live
      OBVIOUS
    <2> HIDE DEF T
    <2> QED
      BY <1>1, <2>1
  <1>3. ASSUME T # {} PROVE FALSE
    <2>1. PICK x \in T : \A y \in T : x <= y
      <3> HIDE DEF T
      <3> QED
        BY <1>2, <1>3, MinIn
    <2>2. x \in live /\ kept[x].op = "sync" /\ Predecessors(x) \subseteq done
      OBVIOUS
    <2>3. PICK a \in live : a < x /\ a \notin done
      OBVIOUS
    <2>4. PICK b : b = Barrier(x)
      OBVIOUS
    <2>5. b \in 0 .. x - 1 /\ (b # 0 => b \in live /\ kept[b].op = "sync" /\ b \in Predecessors(x))
      BY <2>2, <2>4, BarrierFacts, PredecessorFacts
    <2>6. a \in Nat /\ x \in Nat /\ a >= 1
      BY <1>1
    <2>7. CASE a > b
      <3>1. a \in Predecessors(x)
        BY <2>2, <2>3, <2>4, <2>7 DEF Predecessors
      <3> QED
        BY <2>2, <2>3, <3>1
    <2>8. CASE ~ (a > b)
      <3>1. b # 0 /\ b < x /\ a <= b
        BY <2>5, <2>6, <2>8
      <3>2. b \in done /\ Predecessors(b) \subseteq done
        BY <2>2, <2>5, <3>1 DEF Closed
      <3>3. b \notin T
        BY <2>1, <2>5, <2>6, <3>1
      <3>4. a # b
        BY <2>3, <3>2
      <3>5. a < b
        BY <2>5, <2>6, <3>1, <3>4
      <3> QED
        BY <2>3, <2>5, <3>1, <3>2, <3>3, <3>5
    <2> QED
      BY <2>7, <2>8
  <1> QED
    BY <1>3

\* Whatever is not after the last synchronisation is emitted before.
LEMMA BarrierPasses ==
    ASSUME Ordered, NEW done, Closed(done), NEW n \in live, Predecessors(n) \subseteq done,
           NEW a \in live, a <= Barrier(n)
    PROVE  a \in done
  <1>1. PICK b : b = Barrier(n)
    OBVIOUS
  <1>2. live \subseteq 1 .. Len(kept) /\ Len(kept) \in Nat
    BY KeptFacts DEF Ordered, Analysed, Whole
  <1>3. b \in 0 .. n - 1 /\ (b # 0 => b \in live /\ kept[b].op = "sync" /\ b \in Predecessors(n))
    BY <1>1, BarrierFacts, PredecessorFacts
  <1>4. a \in Nat /\ a >= 1 /\ n \in Nat /\ b \in Nat /\ a <= b
    BY <1>1, <1>2, <1>3
  <1>5. b \in live /\ kept[b].op = "sync" /\ b \in done /\ Predecessors(b) \subseteq done
    BY <1>3, <1>4 DEF Closed
  <1>6. CASE a = b
    BY <1>5, <1>6
  <1>7. CASE a # b
    <2>1. a < b
      BY <1>4, <1>7
    <2> QED
      BY <1>5, <2>1, SyncsFollow
  <1> QED
    BY <1>6, <1>7

\* Accesses to the same cells, one of them a store, and anything and a
\* synchronisation, stay in their order.
Conflict(a, n) ==
    \/ kept[a].op = "sync" \/ kept[n].op = "sync"
    \/ /\ IsDma(kept[a]) /\ IsDma(kept[n]) /\ Cells(kept[a]) \cap Cells(kept[n]) # {}
       /\ kept[a].op = "store" \/ kept[n].op = "store"

\* What an operation conflicts with was emitted, if it is all before it that waits.
LEMMA ConflictsStay ==
    ASSUME Ordered, NEW done, Closed(done), NEW n \in live, Predecessors(n) \subseteq done,
           NEW a \in live, a < n, Conflict(a, n)
    PROVE  a \in done
  <1>1. live \subseteq 1 .. Len(kept) /\ Len(kept) \in Nat
    BY KeptFacts DEF Ordered, Analysed, Whole
  <1>2. Barrier(n) \in 0 .. n - 1 /\ \A m \in live : m < n /\ kept[m].op = "sync" => m <= Barrier(n)
    BY BarrierFacts
  <1>3. CASE a <= Barrier(n)
    BY <1>3, BarrierPasses
  <1>4. CASE kept[n].op = "sync"
    BY <1>4, SyncsFollow
  <1>5. CASE ~ (a <= Barrier(n)) /\ kept[n].op # "sync"
    <2>1. kept[a].op # "sync" /\ Barrier(n) < a
      BY <1>1, <1>2, <1>5
    <2>2. /\ IsDma(kept[a]) /\ IsDma(kept[n]) /\ Cells(kept[a]) \cap Cells(kept[n]) # {}
          /\ kept[a].op = "store" \/ kept[n].op = "store"
      BY <1>5, <2>1 DEF Conflict
    <2>3. kept[a].op \in IF kept[n].op = "load" THEN {"store"} ELSE {"load", "store"}
      BY <2>2 DEF IsDma
    <2>4. a \in Accesses(n)
      BY <2>1, <2>2, <2>3 DEF Accesses, Since, Earlier
    <2>5. a \in Predecessors(n)
      BY <2>2, <2>4 DEF Predecessors
    <2> QED
      BY <2>5
  <1> QED
    BY <1>3, <1>4, <1>5

\* So when one that waits for nothing is emitted, no later one that conflicts was.
LEMMA NoLaterConflict ==
    ASSUME Ordered, NEW done, Closed(done), NEW n \in live, n \notin done,
           NEW x \in done, Conflict(n, x)
    PROVE  x < n
  <1>1. live \subseteq 1 .. Len(kept) /\ Len(kept) \in Nat /\ x \in live /\ Predecessors(x) \subseteq done
    BY KeptFacts DEF Ordered, Analysed, Whole, Closed
  <1>2. ~ (n < x)
    BY <1>1, ConflictsStay
  <1>3. n # x
    OBVIOUS
  <1>4. n \in Nat /\ x \in Nat
    BY <1>1
  <1> QED
    BY <1>2, <1>3, <1>4

-----------------------------------------------------------------------------
(* The machine that runs the result.                                       *)

\* m is the last of the stores to a cell among done, 0 if there is none.
LastOf(done, c, m) ==
    /\ m \in {0} \cup done
    /\ m # 0 => Covers(kept, m, c)
    /\ \A x \in done : Covers(kept, x, c) => x <= m

\* m has the values of those operations, ...
ValuesRan(m, done) ==
    \A v \in Values :
        m.values[v] = IF \E n \in done : kept[n].output = v THEN source.values[v] ELSE None

\* ... of each cell, what the last of them left, ...
MemoryRan(m, done) ==
    \A c \in ImageCells : \E w \in {0} \cup done :
        LastOf(done, c, w) /\ m.memory[c] = Held(kept, source.values, w, c)

\* The table and the modulus that it has selected.
ModulusRan(m, done) ==
    /\ \A n \in done : IsTable(kept[n]) => m.table = TableContents(code)
    /\ m.selected # None => m.modulus = <<TableContents(code), m.selected>>
    /\ Modeless(code) => m.modulus = None

\* m has run the operations of done.
Ran(m, done) == Machine(m) /\ ValuesRan(m, done) /\ MemoryRan(m, done) /\ ModulusRan(m, done)

\* It saw, of the synchronisations at, those that are done.
Saw(m, done, at) ==
    /\ Len(m.seen) <= Len(at)
    /\ \A j \in 1 .. Len(at) : at[j] \in done <=> j <= Len(m.seen)
    /\ \A j \in 1 .. Len(m.seen) : m.seen[j] = source.seen[j]

\* At the start nothing has run, ...
LEMMA StartedRan ==
    Ran(Started, {})
  <1>1. /\ Started.values = [v \in Values |-> None]
        /\ Started.memory = [c \in ImageCells |-> InitialAtom(c)]
        /\ Started.modulus = None /\ Started.selected = None
    BY DEF Started
  <1>2. ValuesRan(Started, {})
    BY <1>1 DEF ValuesRan
  <1>3. MemoryRan(Started, {})
    <2>1. \A c \in ImageCells : LastOf({}, c, 0) /\ Started.memory[c] = Held(kept, source.values, 0, c)
      BY <1>1 DEF LastOf, Held
    <2> QED
      BY <2>1 DEF MemoryRan
  <1>4. ModulusRan(Started, {})
    BY <1>1 DEF ModulusRan
  <1> QED
    BY <1>2, <1>3, <1>4, StartedMachine DEF Ran

\* ... and nothing was seen.
LEMMA StartedSaw ==
    ASSUME Analysed, NEW at, Synced(at)
    PROVE  Saw(Started, {}, at)
  <1>1. Len(at) \in Nat
    BY DEF Synced, SyncsOK, IsTuple
  <1>2. Started.seen = << >> /\ Len(Started.seen) = 0
    BY DEF Started
  <1> QED
    BY <1>1, <1>2 DEF Saw

\* An operation that waits for nothing.
Free(done, n) == Closed(done) /\ n \in live /\ n \notin done /\ Predecessors(n) \subseteq done

\* Its operands, and its table, are there.
LEMMA OperandsRan ==
    ASSUME Ordered, NEW done, NEW n, Free(done, n), NEW m, Ran(m, done)
    PROVE  /\ n \in 1 .. Len(kept) /\ NodeOK(kept, source.values, code, n)
           /\ \A k \in DOMAIN kept[n].inputs : m.values[kept[n].inputs[k]] = source.values[kept[n].inputs[k]]
           /\ kept[n].implicit # None => m.table = TableContents(code)
  <1>1. /\ n \in 1 .. Len(kept) /\ Len(kept) \in Nat /\ live \subseteq 1 .. Len(kept) /\ n \in live
        /\ NodeOK(kept, source.values, code, n)
    BY KeptFacts DEF Ordered, Analysed, Whole, Free
  <1>2. Typed(kept, n) /\ Supplied(kept, n)
    BY <1>1 DEF NodeOK
  <1>3. \A x \in 1 .. n - 1 : kept[x].output \in Needs(kept[n].inputs, kept[n].implicit) => x \in done
    BY <1>1, PredecessorFacts DEF Free
  <1>4. ASSUME NEW k \in DOMAIN kept[n].inputs
        PROVE  m.values[kept[n].inputs[k]] = source.values[kept[n].inputs[k]]
    <2>1. PICK v : v = kept[n].inputs[k]
      OBVIOUS
    <2>2. v \in Values /\ v \in Range(kept[n].inputs)
      BY <1>2, <2>1 DEF Typed, Range
    <2>3. PICK x \in 1 .. n - 1 : kept[x].output = v
      BY <1>2, <2>2 DEF Supplied
    <2>4. x \in done
      BY <1>3, <2>2, <2>3 DEF Needs
    <2>5. m.values[v] = source.values[v]
      BY <2>2, <2>3, <2>4 DEF Ran, ValuesRan
    <2> QED
      BY <2>1, <2>5
  <1>5. ASSUME kept[n].implicit # None PROVE m.table = TableContents(code)
    <2>1. PICK x \in 1 .. n - 1 : kept[x].output = kept[n].implicit /\ IsTable(kept[x])
      BY <1>2, <1>5 DEF Supplied
    <2>2. x \in done
      BY <1>3, <1>5, <2>1 DEF Needs
    <2> QED
      BY <2>1, <2>2 DEF Ran, ModulusRan
  <1> QED
    BY <1>1, <1>4, <1>5

\* Of each cell of a load or a synchronisation, the last store before it that
\* the source program has is the last that was emitted.
LEMMA SameStore ==
    ASSUME Ordered, NEW done, NEW n, Free(done, n), NEW m, Ran(m, done), NEW c \in ImageCells,
           NEW w \in {0} \cup live, LastStore(kept, n, c, w),
           \/ kept[n].op = "sync"
           \/ kept[n].op = "load" /\ c \in Cells(kept[n])
    PROVE  m.memory[c] = Held(kept, source.values, w, c)
  <1>1. /\ n \in 1 .. Len(kept) /\ Len(kept) \in Nat /\ live \subseteq 1 .. Len(kept) /\ n \in live
        /\ Closed(done) /\ done \subseteq live /\ n \notin done /\ Predecessors(n) \subseteq done
    BY KeptFacts DEF Ordered, Analysed, Whole, Free, Closed
  <1>2. PICK l \in {0} \cup done : LastOf(done, c, l) /\ m.memory[c] = Held(kept, source.values, l, c)
    BY DEF Ran, MemoryRan
  <1>3. ASSUME NEW x, Covers(kept, x, c) PROVE Conflict(x, n) /\ Conflict(n, x)
    BY <1>3 DEF Covers, Conflict, IsDma, Cells
  <1>4. w # 0 => w \in done /\ w <= l
    <2> SUFFICES ASSUME w # 0 PROVE w \in done /\ w <= l
      OBVIOUS
    <2>1. w \in live /\ w < n /\ Covers(kept, w, c)
      BY <1>1 DEF LastStore
    <2>2. w \in done
      BY <1>1, <1>3, <2>1, ConflictsStay
    <2> QED
      BY <1>2, <2>1, <2>2 DEF LastOf
  <1>5. l # 0 => l <= w
    <2> SUFFICES ASSUME l # 0 PROVE l <= w
      OBVIOUS
    <2>1. l \in done /\ Covers(kept, l, c)
      BY <1>2 DEF LastOf
    <2>2. l < n
      BY <1>1, <1>3, <2>1, NoLaterConflict
    <2>3. l \in Nat /\ n \in Nat /\ w \in 0 .. n - 1
      BY <1>1, <2>1 DEF LastStore
    <2>4. \A x \in w + 1 .. n - 1 : ~ Covers(kept, x, c)
      BY DEF LastStore
    <2> QED
      BY <2>1, <2>2, <2>3, <2>4
  <1>6. l \in Nat /\ w \in Nat
    BY <1>1, <1>2
  <1>7. l = w
    BY <1>4, <1>5, <1>6
  <1> QED
    BY <1>2, <1>7

\* What stores nothing leaves memory as it was.
LEMMA MemoryKept ==
    ASSUME NEW done, NEW m, MemoryRan(m, done), NEW n, kept[n].op # "store",
           NEW s, s.memory = m.memory
    PROVE  MemoryRan(s, done \cup {n})
  <1>1. \A x, c : Covers(kept, x, c) => x # n
    BY DEF Covers
  <1>2. \A c, w : LastOf(done, c, w) => LastOf(done \cup {n}, c, w)
    BY <1>1 DEF LastOf
  <1> QED
    BY <1>2 DEF MemoryRan

\* What defines no value leaves the values as they were.
LEMMA ValuesStay ==
    ASSUME NEW done, NEW m, ValuesRan(m, done), NEW n, kept[n].output = None, None \notin Values,
           NEW s, s.values = m.values
    PROVE  ValuesRan(s, done \cup {n})
  BY DEF ValuesRan

\* What defines a value leaves the others as they were.
LEMMA ValuesGrow ==
    ASSUME NEW done, NEW m, ValuesRan(m, done), Machine(m), NEW n, kept[n].output \in Values,
           NEW s, s.values = [m.values EXCEPT ![kept[n].output] = source.values[kept[n].output]]
    PROVE  ValuesRan(s, done \cup {n})
  <1>1. m.values = [v \in Values |-> m.values[v]]
    BY DEF Machine
  <1>2. ASSUME NEW v \in Values
        PROVE  s.values[v] = IF \E x \in done \cup {n} : kept[x].output = v THEN source.values[v] ELSE None
    <2>1. CASE v = kept[n].output
      BY <1>1, <2>1
    <2>2. CASE v # kept[n].output
      <3>1. s.values[v] = m.values[v]
        BY <1>1, <2>2
      <3>2. (\E x \in done \cup {n} : kept[x].output = v) <=> \E x \in done : kept[x].output = v
        BY <2>2
      <3> QED
        BY <3>1, <3>2 DEF ValuesRan
    <2> QED
      BY <2>1, <2>2
  <1> QED
    BY <1>2 DEF ValuesRan

\* Whatever is no synchronisation sees nothing.
LEMMA SawKept ==
    ASSUME NEW done, NEW m, NEW at, Saw(m, done, at), Synced(at), NEW n, kept[n].op # "sync",
           NEW s, s.seen = m.seen
    PROVE  Saw(s, done \cup {n}, at)
  <1>1. \A j \in 1 .. Len(at) : at[j] # n
    BY DEF Synced, SyncsOK
  <1> QED
    BY <1>1 DEF Saw

\* A load reads what it reads in the source program.
LEMMA LoadRuns ==
    ASSUME Ordered, NEW done, NEW n, Free(done, n), NEW m, Ran(m, done), kept[n].op = "load"
    PROVE  /\ Ran(Materialized(m, n), done \cup {n})
           /\ Materialized(m, n).seen = m.seen
  <1> DEFINE i == kept[n]
             s == After(m, i, i.origin)
             r == Read(m.memory, i.range)
  <1>1. n \in 1 .. Len(kept) /\ n \in live /\ live \subseteq 1 .. Len(kept) /\ NodeOK(kept, source.values, code, n)
    BY OperandsRan DEF Ordered, Whole, Free
  <1>2. ~ Computes(i) /\ i.output \in Values /\ i.range \in Seq(ImageCells) /\ Machine(m)
    BY <1>1 DEF NodeOK, Typed, Computes, Ran
  <1>3. Materialized(m, n) = s
    BY <1>2 DEF Materialized
  <1>4. /\ Machine(s) /\ s.values = [m.values EXCEPT ![i.output] = r]
        /\ s.memory = m.memory /\ s.seen = m.seen /\ s.modulus = m.modulus
        /\ IsTable(i) => s.table = r /\ s.selected = None
        /\ ~ IsTable(i) => s.table = m.table /\ s.selected = m.selected
    BY <1>2, LoadMachine
  <1>5. r = source.values[i.output]
    <2>1. PICK x : x = source.values[i.output]
      OBVIOUS
    <2>2. x = [k \in DOMAIN i.range |-> x[k]] /\ \A k \in DOMAIN i.range : Found(kept, source.values, n, k)
      BY <1>1, <2>1 DEF NodeOK, Loaded
    <2>3. ASSUME NEW k \in DOMAIN i.range PROVE m.memory[i.range[k]] = x[k]
      <3>1. PICK c : c = i.range[k]
        OBVIOUS
      <3>2. c \in ImageCells /\ c \in Cells(i)
        BY <1>2, <3>1 DEF Cells, Range
      <3>3. PICK w \in {0} \cup i.after : LastStore(kept, n, c, w) /\ x[k] = Held(kept, source.values, w, c)
        BY <2>1, <2>2, <3>1 DEF Found
      <3>4. w \in {0} \cup live
        BY <1>1, <3>3 DEF Ordered, Whole
      <3>5. m.memory[c] = Held(kept, source.values, w, c)
        BY <3>2, <3>3, <3>4, SameStore
      <3> QED
        BY <3>1, <3>3, <3>5
    <2>4. r = [k \in DOMAIN i.range |-> m.memory[i.range[k]]]
      BY DEF Read
    <2> HIDE DEF r
    <2> QED
      BY <2>1, <2>2, <2>3, <2>4
  <1>6. IsTable(i) => r = TableContents(code)
    BY <1>1, <1>5 DEF NodeOK, Computed
  <1> HIDE DEF s, r
  <1>7. ValuesRan(s, done \cup {n})
    BY <1>2, <1>4, <1>5, ValuesGrow DEF Ran
  <1>8. MemoryRan(s, done \cup {n})
    BY <1>4, MemoryKept DEF Ran
  <1>9. ModulusRan(s, done \cup {n})
    <2>1. ModulusRan(m, done)
      BY DEF Ran
    <2>2. CASE IsTable(i)
      <3>1. \A x \in done \cup {n} : IsTable(kept[x]) => s.table = TableContents(code)
        BY <1>4, <1>6, <2>2
      <3> QED
        BY <1>4, <2>1, <2>2, <3>1 DEF ModulusRan
    <2>3. CASE ~ IsTable(i)
      <3>1. \A x \in done \cup {n} : IsTable(kept[x]) => s.table = TableContents(code)
        BY <1>4, <2>1, <2>3 DEF ModulusRan
      <3> QED
        BY <1>4, <2>1, <2>3, <3>1 DEF ModulusRan
    <2> QED
      BY <2>2, <2>3
  <1> QED
    BY <1>3, <1>4, <1>7, <1>8, <1>9 DEF Ran

\* A store follows all earlier stores to its cells, and precedes all later ones.
LEMMA StoreRuns ==
    ASSUME Ordered, NEW done, NEW n, Free(done, n), NEW m, Ran(m, done), kept[n].op = "store"
    PROVE  /\ Ran(Materialized(m, n), done \cup {n})
           /\ Materialized(m, n).seen = m.seen
  <1> DEFINE i == kept[n]
             s == After(m, i, i.origin)
  <1>1. /\ n \in 1 .. Len(kept) /\ n \in live /\ live \subseteq 1 .. Len(kept) /\ Closed(done) /\ n \notin done
        /\ NodeOK(kept, source.values, code, n)
        /\ \A k \in DOMAIN i.inputs : m.values[i.inputs[k]] = source.values[i.inputs[k]]
    BY OperandsRan DEF Ordered, Whole, Free
  <1>2. ~ Computes(i) /\ i.output = None /\ ~ IsTable(i) /\ Machine(m) /\ 1 \in DOMAIN i.inputs
    <2>1. i.inputs \in Seq(Values) /\ i.inputs # << >> /\ i.output = None
      BY <1>1 DEF NodeOK, Typed, Computes
    <2> QED
      BY <2>1 DEF Computes, IsTable, Ran
  <1>3. Materialized(m, n) = s
    BY <1>2 DEF Materialized
  <1>4. /\ Machine(s) /\ s.memory = Written(m.memory, i.range, m.values[i.inputs[1]])
        /\ s.values = m.values /\ s.seen = m.seen /\ s.modulus = m.modulus
        /\ s.table = m.table /\ s.selected = m.selected
    BY <1>2, StoreMachine
  <1> HIDE DEF s
  <1>5. ValuesRan(s, done \cup {n})
    BY <1>2, <1>4, ValuesStay, ProgramAssumption DEF Ran
  <1>6. ASSUME NEW c \in ImageCells
        PROVE  \E w \in {0} \cup (done \cup {n}) :
                  LastOf(done \cup {n}, c, w) /\ s.memory[c] = Held(kept, source.values, w, c)
    <2>1. /\ s.memory[c] = IF \E k \in DOMAIN i.range : i.range[k] = c
                           THEN m.values[i.inputs[1]][CHOOSE k \in DOMAIN i.range : i.range[k] = c]
                           ELSE m.memory[c]
      <3>1. c \in DOMAIN m.memory
        BY <1>2 DEF Machine
      <3> QED
        BY <1>4, <3>1 DEF Written
    <2>2. CASE c \in Range(i.range)
      <3>1. \E k \in DOMAIN i.range : i.range[k] = c
        BY <2>2 DEF Range
      <3>2. s.memory[c] = source.values[i.inputs[1]][CHOOSE k \in DOMAIN i.range : i.range[k] = c]
        BY <1>1, <1>2, <2>1, <3>1
      <3>3. n # 0
        BY <1>1
      <3>4. s.memory[c] = Held(kept, source.values, n, c)
        BY <3>2, <3>3 DEF Held
      <3>5. Covers(kept, n, c)
        BY <2>2 DEF Covers
      <3>6. ASSUME NEW x \in done, Covers(kept, x, c) PROVE x <= n
        <4>1. Conflict(n, x)
          BY <2>2, <3>6 DEF Covers, Conflict, IsDma, Cells
        <4>2. x < n
          BY <1>1, <4>1, NoLaterConflict
        <4>3. x \in Nat /\ n \in Nat
          BY <1>1 DEF Closed
        <4> QED
          BY <4>2, <4>3
      <3>7. n <= n
        BY <1>1
      <3>8. LastOf(done \cup {n}, c, n)
        BY <3>5, <3>6, <3>7 DEF LastOf
      <3> QED
        BY <3>4, <3>8
    <2>3. CASE c \notin Range(i.range)
      <3>1. s.memory[c] = m.memory[c]
        BY <2>1, <2>3 DEF Range
      <3>2. PICK w \in {0} \cup done : LastOf(done, c, w) /\ m.memory[c] = Held(kept, source.values, w, c)
        BY DEF Ran, MemoryRan
      <3>3. ~ Covers(kept, n, c)
        BY <2>3 DEF Covers
      <3>4. LastOf(done \cup {n}, c, w)
        BY <3>2, <3>3 DEF LastOf
      <3> QED
        BY <3>1, <3>2, <3>4
    <2> QED
      BY <2>2, <2>3
  <1>7. MemoryRan(s, done \cup {n})
    BY <1>6 DEF MemoryRan
  <1>8. ModulusRan(s, done \cup {n})
    BY <1>2, <1>4 DEF Ran, ModulusRan
  <1> QED
    BY <1>3, <1>4, <1>5, <1>7, <1>8 DEF Ran

\* An operation that computes has the operands and the modulus it has in the
\* source program.
LEMMA KernelRuns ==
    ASSUME Ordered, NEW done, NEW n, Free(done, n), NEW m, Ran(m, done), Computes(kept[n])
    PROVE  /\ Ran(Materialized(m, n), done \cup {n})
           /\ Materialized(m, n).seen = m.seen
  <1> DEFINE i == kept[n]
             p == IF Computes(i) /\ i.mod # None /\ m.selected # i.mod THEN Selecting(m, i.mod) ELSE m
             s == After(p, i, i.origin)
             x == Result(i.origin, Len(p.values[i.inputs[1]]), [k \in DOMAIN i.inputs |-> p.values[i.inputs[k]]], p.modulus)
  <1>1. /\ NodeOK(kept, source.values, code, n)
        /\ \A k \in DOMAIN i.inputs : m.values[i.inputs[k]] = source.values[i.inputs[k]]
        /\ i.implicit # None => m.table = TableContents(code)
    BY OperandsRan
  <1>2. /\ i.output \in Values /\ 1 \in DOMAIN i.inputs /\ Machine(m) /\ ~ IsTable(i) /\ i.op # "store"
    <2>1. i.inputs \in Seq(Values) /\ i.inputs # << >> /\ i.output \in Values
      BY <1>1 DEF NodeOK, Typed
    <2> QED
      BY <2>1 DEF Computes, IsTable, Ran
  <1>3. /\ source.values[i.output] = Outcome(i, source.values, code)
        /\ i.mod # None => i.implicit # None
        /\ Modeless(code) <=> i.mod = None
    BY <1>1 DEF NodeOK, Computed
  <1>4. ModulusRan(m, done)
    BY DEF Ran
  <1>5. /\ Machine(p) /\ p.values = m.values /\ p.memory = m.memory /\ p.table = m.table /\ p.seen = m.seen
        /\ p.modulus = IF i.mod = None THEN None ELSE <<TableContents(code), i.mod>>
        /\ p.selected # None => p.modulus = <<TableContents(code), p.selected>>
    <2>1. CASE i.mod = None
      <3>1. p = m
        BY <2>1
      <3>2. m.modulus = None
        BY <1>3, <1>4, <2>1 DEF ModulusRan
      <3> QED
        BY <1>2, <1>4, <2>1, <3>1, <3>2 DEF ModulusRan
    <2>2. CASE i.mod # None /\ m.selected = i.mod
      <3>1. p = m
        BY <2>2
      <3> QED
        BY <1>2, <1>4, <2>2, <3>1 DEF ModulusRan
    <2>3. CASE i.mod # None /\ m.selected # i.mod
      <3>1. p = Selecting(m, i.mod)
        BY <2>3
      <3> HIDE DEF p
      <3>2. PICK mod : mod = i.mod
        OBVIOUS
      <3>3. PICK q : q = Selecting(m, mod)
        OBVIOUS
      <3>4. /\ Machine(q) /\ q.values = m.values /\ q.memory = m.memory /\ q.table = m.table /\ q.seen = m.seen
            /\ q.modulus = <<m.table, mod>> /\ q.selected = mod
        BY <1>2, <3>3, SelectingMachine
      <3> QED
        BY <1>1, <1>3, <2>3, <3>1, <3>2, <3>3, <3>4
    <2> QED
      BY <2>1, <2>2, <2>3
  <1>6. Materialized(m, n) = s
    BY DEF Materialized
  <1> HIDE DEF p
  <1>7. /\ Machine(s) /\ s.values = [p.values EXCEPT ![i.output] = x]
        /\ s.memory = p.memory /\ s.seen = p.seen /\ s.modulus = p.modulus
        /\ s.table = p.table /\ s.selected = p.selected
    BY <1>2, <1>5, KernelMachine
  <1>8. x = source.values[i.output]
    <2>1. \A k \in DOMAIN i.inputs : p.values[i.inputs[k]] = source.values[i.inputs[k]]
      BY <1>1, <1>5
    <2> QED
      BY <1>2, <1>3, <1>5, <2>1 DEF Outcome
  <1> HIDE DEF s, x
  <1>9. s.values = [m.values EXCEPT ![i.output] = source.values[i.output]]
    BY <1>5, <1>7, <1>8
  <1>10. ValuesRan(s, done \cup {n})
    BY <1>2, <1>9, ValuesGrow DEF Ran
  <1>11. MemoryRan(s, done \cup {n})
    BY <1>2, <1>5, <1>7, MemoryKept DEF Ran
  <1>12. ModulusRan(s, done \cup {n})
    <2>1. \A y \in done \cup {n} : IsTable(kept[y]) => s.table = TableContents(code)
      BY <1>2, <1>4, <1>5, <1>7 DEF ModulusRan
    <2>2. Modeless(code) => s.modulus = None
      BY <1>3, <1>5, <1>7
    <2>3. s.selected # None => s.modulus = <<TableContents(code), s.selected>>
      BY <1>5, <1>7
    <2> QED
      BY <2>1, <2>2, <2>3 DEF ModulusRan
  <1> QED
    BY <1>5, <1>6, <1>7, <1>10, <1>11, <1>12 DEF Ran

\* A synchronisation comes after all before it, and before all after it: it sees
\* of observable memory what it sees in the source program.
LEMMA SyncRuns ==
    ASSUME Ordered, NEW done, NEW n, Free(done, n), NEW m, Ran(m, done), kept[n].op = "sync",
           NEW at, Synced(at), Saw(m, done, at)
    PROVE  /\ Ran(Materialized(m, n), done \cup {n})
           /\ Saw(Materialized(m, n), done \cup {n}, at)
  <1> DEFINE i   == kept[n]
             s   == After(m, i, i.origin)
             now == [c \in Observable |-> m.memory[c]]
  <1>1. /\ n \in 1 .. Len(kept) /\ n \in live /\ live \subseteq 1 .. Len(kept) /\ Closed(done) /\ n \notin done
        /\ Predecessors(n) \subseteq done /\ NodeOK(kept, source.values, code, n) /\ observed \subseteq live
        /\ DOMAIN kept = 1 .. Len(kept)
    BY OperandsRan, KeptFacts DEF Ordered, Whole, Free, Analysed
  <1>2. ~ Computes(i) /\ i.output = None /\ ~ IsTable(i) /\ i.op # "store" /\ Machine(m)
    BY <1>1 DEF NodeOK, Typed, Computes, IsTable, Ran
  <1>3. Materialized(m, n) = s
    BY <1>2 DEF Materialized
  <1>4. /\ Machine(s) /\ s.seen = Append(m.seen, now)
        /\ s.values = m.values /\ s.memory = m.memory /\ s.modulus = m.modulus
        /\ s.table = m.table /\ s.selected = m.selected
    BY <1>2, SyncMachine
  <1> HIDE DEF s
  <1>5. ValuesRan(s, done \cup {n})
    BY <1>2, <1>4, ValuesStay, ProgramAssumption DEF Ran
  <1>6. MemoryRan(s, done \cup {n})
    BY <1>2, <1>4, MemoryKept DEF Ran
  <1>7. ModulusRan(s, done \cup {n})
    BY <1>2, <1>4 DEF Ran, ModulusRan
  <1>8. Ran(s, done \cup {n})
    BY <1>4, <1>5, <1>6, <1>7 DEF Ran
  <1>9. /\ IsTuple(at) /\ Len(at) = Len(source.seen)
        /\ \A j \in 1 .. Len(at) : at[j] \in 1 .. Len(kept) /\ kept[at[j]].op = "sync"
        /\ \E j \in 1 .. Len(at) : at[j] = n
        /\ \A j, l \in 1 .. Len(at) : j < l => at[j] < at[l]
        /\ \A j \in 1 .. Len(at) : source.seen[j] = [c \in Observable |-> source.seen[j][c]]
        /\ \A j \in 1 .. Len(at) : \A c \in Observable : \E w \in {0} \cup observed :
              LastStore(kept, at[j], c, w) /\ source.seen[j][c] = Held(kept, source.values, w, c)
    BY <1>1 DEF Synced, SyncsOK
  <1>10. PICK size \in Nat : size = Len(at)
    BY <1>9 DEF IsTuple
  <1>11. PICK j \in 1 .. size : at[j] = n
    BY <1>9, <1>10
  <1>12. PICK k \in Nat : k = Len(m.seen) /\ k <= size
    BY <1>2, <1>10 DEF Machine, IsTuple, Saw
  <1>13. \A l \in 1 .. size : at[l] \in done <=> l <= k
    BY <1>10, <1>12 DEF Saw
  <1>14. \A l \in 1 .. size : l < j => l <= k
    <2>1. ASSUME NEW l \in 1 .. size, l < j PROVE at[l] \in done
      <3>1. PICK a : a = at[l]
        OBVIOUS
      <3>2. a \in 1 .. Len(kept) /\ kept[a].op = "sync" /\ a < n
        BY <1>9, <1>10, <1>11, <2>1, <3>1
      <3>3. a \in live
        BY <3>2 DEF Ordered, Whole
      <3>4. Conflict(a, n)
        BY DEF Conflict
      <3>5. a \in done
        BY <1>1, <3>2, <3>3, <3>4, ConflictsStay
      <3> QED
        BY <3>1, <3>5
    <2> QED
      BY <1>13, <2>1
  <1>15. j = k + 1
    <2>1. ~ (j <= k)
      BY <1>1, <1>11, <1>13
    <2>2. j > k + 1 => k + 1 \in 1 .. size /\ k + 1 < j
      BY <1>11, <1>12
    <2> QED
      BY <1>11, <1>12, <1>14, <2>1, <2>2
  <1>16. now = source.seen[j]
    <2>1. ASSUME NEW c \in Observable PROVE m.memory[c] = source.seen[j][c]
      <3>1. c \in ImageCells
        BY InputFacts DEF Ordered
      <3>2. PICK w \in {0} \cup observed :
               LastStore(kept, n, c, w) /\ source.seen[j][c] = Held(kept, source.values, w, c)
        BY <1>9, <1>10, <1>11
      <3>3. w \in {0} \cup live
        BY <1>1, <3>2
      <3>4. m.memory[c] = Held(kept, source.values, w, c)
        BY <3>1, <3>2, <3>3, SameStore
      <3> QED
        BY <3>2, <3>4
    <2>2. source.seen[j] = [c \in Observable |-> source.seen[j][c]]
      BY <1>9, <1>10, <1>11
    <2> QED
      BY <2>1, <2>2
  <1> HIDE DEF now
  <1>17. Len(s.seen) = k + 1 /\ s.seen[k + 1] = now /\ \A l \in 1 .. k : s.seen[l] = m.seen[l]
    BY <1>2, <1>4, <1>12, TupleAppend DEF Machine
  <1>18. \A l \in 1 .. size : at[l] \in done \cup {n} <=> l <= k + 1
    <2>1. ASSUME NEW l \in 1 .. size PROVE at[l] = n <=> l = k + 1
      <3>1. l < j => at[l] < n
        BY <1>9, <1>10, <1>11, <2>1
      <3>2. j < l => n < at[l]
        BY <1>9, <1>10, <1>11, <2>1
      <3>3. n \in Nat /\ l \in Nat /\ j \in Nat
        BY <1>1
      <3>4. at[l] = n => ~ (l < j) /\ ~ (j < l)
        BY <3>1, <3>2, <3>3
      <3>5. at[l] = n => l = j
        BY <3>3, <3>4
      <3> QED
        BY <1>11, <1>15, <3>5
    <2>2. ASSUME NEW l \in 1 .. size PROVE l <= k + 1 <=> l <= k \/ l = k + 1
      BY <1>12
    <2> QED
      BY <1>13, <2>1, <2>2
  <1>19. k + 1 <= size
    BY <1>11, <1>15
  <1>20. \A l \in 1 .. k + 1 : s.seen[l] = source.seen[l]
    <2>1. \A l \in 1 .. k : m.seen[l] = source.seen[l]
      BY <1>12 DEF Saw
    <2>2. s.seen[k + 1] = source.seen[k + 1]
      BY <1>15, <1>16, <1>17
    <2>3. ASSUME NEW l \in 1 .. k + 1 PROVE s.seen[l] = source.seen[l]
      <3>1. l = k + 1 \/ l \in 1 .. k
        BY <1>12
      <3> QED
        BY <1>17, <2>1, <2>2, <3>1
    <2> QED
      BY <2>3
  <1>21. Saw(s, done \cup {n}, at)
    BY <1>10, <1>17, <1>18, <1>19, <1>20 DEF Saw
  <1> QED
    BY <1>3, <1>8, <1>21

\* So does everything else that waits for nothing.
LEMMA Runs ==
    ASSUME Ordered, NEW done, NEW n, Free(done, n), NEW m, Ran(m, done),
           NEW at, Synced(at), Saw(m, done, at)
    PROVE  /\ Ran(Materialized(m, n), done \cup {n})
           /\ Saw(Materialized(m, n), done \cup {n}, at)
  <1>1. kept[n].op \in {"load", "store", "arith", "stage", "mac", "sync"}
    BY OperandsRan DEF NodeOK, Typed
  <1>2. CASE kept[n].op = "sync"
    BY <1>2, SyncRuns
  <1>3. CASE kept[n].op # "sync"
    <2>1. Ran(Materialized(m, n), done \cup {n}) /\ Materialized(m, n).seen = m.seen
      <3>1. kept[n].op = "load" \/ kept[n].op = "store" \/ Computes(kept[n])
        BY <1>1, <1>3 DEF Computes
      <3> QED
        BY <3>1, LoadRuns, StoreRuns, KernelRuns
    <2> QED
      BY <1>3, <2>1, SawKept
  <1> QED
    BY <1>2, <1>3

-----------------------------------------------------------------------------
(* What is emitted next.                                                   *)

\* Only operations that wait for nothing still keep one from being emitted.
Reaches(done, goal) ==
    /\ goal \in live \ done
    /\ \A m \in Predecessors(goal) \ done : Predecessors(m) \subseteq done

\* What is known while the result is emitted.
Emission ==
    /\ before = [n \in live |-> Predecessors(n)]
    /\ Closed(emitted) /\ Ran(target, emitted)
    /\ chosen # 0 => Reaches(emitted, chosen)

\* Whatever is chosen can be reached.
LEMMA GoalReached ==
    ASSUME Ordered, Emission, Waiting # {},
           NEW goal, goal \in IF chosen = 0 THEN Candidates ELSE {chosen}
    PROVE  Reaches(emitted, goal)
  <1>1. live \subseteq Nat /\ Waiting = live \ emitted
    BY KeptFacts DEF Ordered, Analysed, Whole, Waiting
  <1>2. \A n \in live : before[n] = Predecessors(n)
    BY DEF Emission
  <1>3. CASE chosen # 0
    BY <1>3 DEF Emission
  <1>4. CASE chosen = 0 /\ mode # "reorder"
    <2>1. goal = Min(Waiting)
      BY <1>4 DEF Candidates
    <2>2. goal \in Waiting /\ \A n \in Waiting : goal <= n
      BY <1>1, <2>1, MinIn
    <2>3. ASSUME NEW m \in Predecessors(goal) PROVE m \in emitted
      <3>1. m \in live /\ m < goal
        BY <1>1, <2>2, PredecessorFacts
      <3>2. m \in Nat /\ goal \in Nat
        BY <1>1, <2>2, <3>1
      <3> QED
        BY <1>1, <2>2, <3>1, <3>2
    <2> QED
      BY <1>1, <2>2, <2>3 DEF Reaches
  <1>5. CASE chosen = 0 /\ mode = "reorder"
    <2>1. goal \in Ready \/ goal \in Available
      BY <1>5 DEF Candidates
    <2>2. \A n \in Available : n \in Waiting /\ Predecessors(n) \subseteq emitted
      BY <1>1, <1>2 DEF Available
    <2>3. CASE goal \in Available
      BY <1>1, <2>2, <2>3 DEF Reaches
    <2>4. CASE goal \in Ready
      <3>1. goal \in Waiting /\ Predecessors(goal) \subseteq emitted \cup Available
        BY <1>1, <1>2, <2>4 DEF Ready
      <3> QED
        BY <1>1, <2>2, <3>1 DEF Reaches
    <2> QED
      BY <2>1, <2>3, <2>4
  <1> QED
    BY <1>3, <1>4, <1>5

\* The next operation waits for nothing, and still leads to the one chosen.
LEMMA NextIsFree ==
    ASSUME Ordered, Emission, NEW goal, Reaches(emitted, goal),
           NEW n, n = Min((before[goal] \ emitted) \cup {goal})
    PROVE  /\ Free(emitted, n) /\ Closed(emitted \cup {n})
           /\ n # goal => Reaches(emitted \cup {n}, goal)
  <1> DEFINE T == (before[goal] \ emitted) \cup {goal}
  <1>1. live \subseteq Nat /\ goal \in live /\ goal \notin emitted
    BY KeptFacts DEF Ordered, Analysed, Whole, Reaches
  <1>2. before[goal] = Predecessors(goal)
    BY <1>1 DEF Emission
  <1>3. Predecessors(goal) \subseteq live /\ \A m \in Predecessors(goal) : m < goal
    BY <1>1, PredecessorFacts
  <1>4. T \subseteq Nat /\ T # {}
    BY <1>1, <1>2, <1>3
  <1>5. n \in T /\ \A m \in T : n <= m
    <2> HIDE DEF T
    <2>1. n = Min(T)
      BY DEF T
    <2> QED
      BY <1>4, <2>1, MinIn
  <1>6. n \in live /\ n \notin emitted
    BY <1>1, <1>2, <1>3, <1>5
  <1>7. Predecessors(n) \subseteq emitted
    <2>1. CASE n # goal
      BY <1>2, <1>5, <2>1 DEF Reaches
    <2>2. CASE n = goal
      <3>1. ASSUME NEW m \in Predecessors(goal), m \notin emitted PROVE FALSE
        <4>1. m \in T /\ m < goal
          BY <1>2, <1>3, <3>1
        <4>2. m \in Nat /\ goal \in Nat
          BY <1>1, <1>4, <4>1
        <4> HIDE DEF T
        <4>3. goal <= m
          BY <1>5, <2>2, <4>1
        <4> QED
          BY <4>1, <4>2, <4>3
      <3> QED
        BY <2>2, <3>1
    <2> QED
      BY <2>1, <2>2
  <1>8. Closed(emitted)
    BY DEF Emission
  <1>9. Closed(emitted \cup {n})
    BY <1>6, <1>7, <1>8 DEF Closed
  <1>10. n # goal => Reaches(emitted \cup {n}, goal)
    BY DEF Reaches
  <1> QED
    BY <1>6, <1>7, <1>8, <1>9, <1>10 DEF Free

-----------------------------------------------------------------------------
(* The inductive invariant.                                                *)

\* The result is emitted.
Emitting == status \in {"emit", "done"}

\* What holds in each phase.
Phases ==
    /\ status \in {"new", "rejected", "eliminate", "schedule", "emit", "done"}
    /\ status \notin {"new", "rejected"} => Consistent
    /\ status \in {"new", "rejected", "eliminate"} => live = {}
    /\ status \in {"schedule", "emit", "done"} => Whole
    /\ ~ Emitting => emitted = {} /\ target = Started /\ chosen = 0
    /\ Emitting => Emission
    /\ status = "done" => Waiting = {}

\* The inductive invariant: what the analysis knows, and beside it how far the
\* emission has come, with the synchronisations that both sides see.
IInv ==
    /\ Inputs /\ Phases /\ Analysed
    /\ \E at : Synced(at) /\ (Emitting => Saw(target, emitted, at))

\* What is left alone while the result is emitted.
Unread ==
    /\ UNCHANGED <<code, mode, required>>
    /\ UNCHANGED <<pos, context, kept, replacement, shapes, reads, writes, lastWriters, observed, table>>
    /\ UNCHANGED source

\* Then what the analysis knows stays.
LEMMA UnreadKeeps ==
    ASSUME Unread
    PROVE  /\ Inputs' = Inputs /\ Analysed' = Analysed /\ Consistent' = Consistent
           /\ \A at : Synced(at)' = Synced(at)
           /\ live' = live => Whole' = Whole
  <1>1. Observable' = Observable
    BY DEF Unread, Observable
  <1>2. Inputs' = Inputs /\ Consistent' = Consistent
    BY DEF Unread, Inputs, Consistent
  <1>3. TablesOK' = TablesOK
    BY DEF Unread, TablesOK
  <1>4. Analysed' = Analysed
    BY <1>3 DEF Unread, Analysed
  <1>5. \A at : Synced(at)' = Synced(at)
    BY <1>1 DEF Unread, Synced
  <1>6. live' = live => Whole' = Whole
    BY <1>1 DEF Unread, Whole, WritersOf
  <1> QED
    BY <1>2, <1>4, <1>5, <1>6

\* Predecessors and what the machine has run depend on nothing else.
LEMMA UnreadRuns ==
    ASSUME Unread, live' = live
    PROVE  /\ \A n : Predecessors(n)' = Predecessors(n)
           /\ \A m, done : Ran(m, done)' = Ran(m, done)
           /\ \A m, done, at : Saw(m, done, at)' = Saw(m, done, at)
           /\ \A done : Closed(done)' = Closed(done)
           /\ \A done, goal : Reaches(done, goal)' = Reaches(done, goal)
  <1>1. kept' = kept /\ live' = live /\ code' = code /\ source' = source
    BY DEF Unread
  <1>2. \A n, ops : Earlier(n, ops)' = Earlier(n, ops)
    BY <1>1 DEF Earlier
  <1>3. \A n : Barrier(n)' = Barrier(n)
    BY <1>2 DEF Barrier
  <1>4. \A n, ops : Since(n, ops)' = Since(n, ops)
    BY <1>2, <1>3 DEF Since
  <1>5. \A n : Accesses(n)' = Accesses(n)
    BY <1>1, <1>4 DEF Accesses
  <1>6. \A n : ContextUsers(n)' = ContextUsers(n)
    BY <1>1, <1>2 DEF ContextUsers
  <1>7. \A values : Producers(values)' = Producers(values)
    BY <1>1 DEF Producers
  <1>8. \A n : Predecessors(n)' = Predecessors(n)
    BY <1>1, <1>3, <1>5, <1>6, <1>7 DEF Predecessors
  <1>9. \A m, done : ValuesRan(m, done)' = ValuesRan(m, done)
    BY <1>1 DEF ValuesRan
  <1>10. \A m, done : MemoryRan(m, done)' = MemoryRan(m, done)
    BY <1>1 DEF MemoryRan, LastOf
  <1>11. \A m, done : ModulusRan(m, done)' = ModulusRan(m, done)
    BY <1>1 DEF ModulusRan
  <1>12. \A m, done : Ran(m, done)' = Ran(m, done)
    BY <1>9, <1>10, <1>11 DEF Ran
  <1>13. \A m, done, at : Saw(m, done, at)' = Saw(m, done, at)
    BY <1>1 DEF Saw
  <1>14. \A done : Closed(done)' = Closed(done)
    BY <1>1, <1>8 DEF Closed
  <1>15. \A done, goal : Reaches(done, goal)' = Reaches(done, goal)
    BY <1>1, <1>8 DEF Reaches
  <1> QED
    BY <1>8, <1>12, <1>13, <1>14, <1>15

\* The invariant holds at the start.
LEMMA InitIInv ==
    ASSUME Init
    PROVE  IInv
  <1>1. /\ code \in Programs /\ mode \in Modes /\ required \in RequiredSets /\ status = "new"
        /\ pos = 1 /\ context = None /\ table = None /\ kept = << >>
        /\ replacement = [v \in Values |-> v] /\ shapes = [v \in Values |-> None]
        /\ reads = {} /\ writes = {} /\ lastWriters = [c \in ImageCells |-> 0]
        /\ observed = {} /\ live = {} /\ chosen = 0 /\ emitted = {}
        /\ source = Started /\ target = Started
    BY DEF Init
  <1>2. Inputs
    BY <1>1 DEF Inputs
  <1>3. Phases
    BY <1>1 DEF Phases, Emitting
  <1>4. IsTuple(<< >>) /\ Len(<< >>) = 0
    BY DEF IsTuple
  <1>5. /\ Started.values = [v \in Values |-> None]
        /\ Started.memory = [c \in ImageCells |-> InitialAtom(c)]
        /\ Started.table = None /\ Started.modulus = None /\ Started.seen = << >>
    BY DEF Started
  <1>6. Defined(kept) = {} /\ DefinedBefore(code, pos) = {}
    BY <1>1 DEF Defined, DefinedBefore
  <1>7. Kept(kept, source.values, code)
    BY <1>1, <1>4 DEF Kept
  <1>8. MemoryOK(kept, lastWriters, source.values, source.memory)
    <2>1. \A c \in ImageCells : /\ LastStore(<< >>, 0 + 1, c, 0)
                                /\ source.memory[c] = Held(<< >>, source.values, 0, c)
      BY <1>1, <1>5 DEF LastStore, Held
    <2>2. lastWriters = [c \in ImageCells |-> lastWriters[c]] /\ \A c \in ImageCells : lastWriters[c] = 0
      BY <1>1
    <2> QED
      BY <1>1, <1>4, <2>1, <2>2 DEF MemoryOK
  <1>9. ReplacementOK(kept, source.values, replacement, DefinedBefore(code, pos))
    BY <1>1, <1>6 DEF ReplacementOK
  <1>10. ShapesOK(kept, source.values, shapes)
    BY <1>1, <1>6 DEF ShapesOK
  <1>11. TablesOK
    BY <1>1, <1>5 DEF TablesOK
  <1>12. pos \in 1 .. Len(code) + 1
    BY <1>1, <1>2, InputFacts
  <1>13. Machine(source) /\ reads \cup writes = {} /\ observed \subseteq DOMAIN kept
    BY <1>1, StartedMachine
  <1>14. Analysed
    BY <1>7, <1>8, <1>9, <1>10, <1>11, <1>12, <1>13 DEF Analysed
  <1>15. Synced(<< >>)
    BY <1>1, <1>4, <1>5 DEF Synced, SyncsOK
  <1>16. ~ Emitting
    BY <1>1 DEF Emitting
  <1> QED
    BY <1>2, <1>3, <1>14, <1>15, <1>16 DEF IInv

\* A step of the analysis leaves the rest as it is.
LEMMA AnalysisSteps ==
    ASSUME IInv, Drop \/ Merge \/ KeepLoad \/ KeepStore \/ KeepKernel \/ KeepSync
    PROVE  IInv'
  <1>1. PICK ops : Step(ops)
    BY DEF Drop, Merge, KeepLoad, KeepStore, KeepKernel, KeepSync
  <1>2. /\ status = "eliminate" /\ status' = "eliminate"
        /\ code' = code /\ mode' = mode /\ required' = required
        /\ live' = live /\ chosen' = chosen /\ emitted' = emitted /\ target' = target
    BY <1>1 DEF Step, inputs
  <1>3. Inputs /\ Consistent /\ Analysed /\ ~ Emitting
    BY <1>2 DEF IInv, Phases, Emitting
  <1>4. PICK at : Synced(at)
    BY DEF IInv
  <1>5. Analysed' /\ \E longer : Synced(longer)'
    <2>1. CASE Drop
      BY <1>3, <1>4, <2>1, DropSafe DEF AnalysisKept
    <2>2. CASE Merge
      BY <1>3, <1>4, <2>2, MergeSafe DEF AnalysisKept
    <2>3. CASE KeepLoad
      BY <1>3, <1>4, <2>3, KeepLoadSafe DEF AnalysisKept
    <2>4. CASE KeepStore
      BY <1>3, <1>4, <2>4, KeepStoreSafe DEF AnalysisKept
    <2>5. CASE KeepKernel
      BY <1>3, <1>4, <2>5, KeepKernelSafe DEF AnalysisKept
    <2>6. CASE KeepSync
      BY <1>3, <1>4, <2>6, KeepSyncSafe
    <2> QED
      BY <2>1, <2>2, <2>3, <2>4, <2>5, <2>6
  <1>6. Inputs'
    BY <1>2, <1>3 DEF Inputs
  <1>7. Consistent'
    BY <1>2, <1>3 DEF Consistent
  <1>8. ~ Emitting'
    BY <1>2 DEF Emitting
  <1>9. live = {} /\ emitted = {} /\ target = Started /\ chosen = 0
    BY <1>2, <1>3 DEF IInv, Phases
  <1>10. Started' = Started
    BY DEF Started
  <1>11. Phases'
    BY <1>2, <1>7, <1>8, <1>9, <1>10 DEF Phases
  <1> QED
    BY <1>5, <1>6, <1>8, <1>11 DEF IInv

\* Normalize only changes the status, ...
LEMMA NormalizeSteps ==
    ASSUME IInv, Normalize
    PROVE  IInv'
  <1>1. /\ status = "new" /\ status' = IF Consistent THEN "eliminate" ELSE "rejected"
        /\ Unread /\ live' = live /\ chosen' = chosen /\ emitted' = emitted /\ target' = target
    BY DEF Normalize, Unread, analysis, inputs, caches, memory
  <1>2. ~ Emitting /\ ~ Emitting'
    BY <1>1 DEF Emitting
  <1>3. Inputs /\ Analysed /\ live = {} /\ emitted = {} /\ target = Started /\ chosen = 0
    BY <1>1, <1>2 DEF IInv, Phases
  <1>4. Inputs' = Inputs /\ Analysed' = Analysed /\ Consistent' = Consistent /\ \A at : Synced(at)' = Synced(at)
    BY <1>1, UnreadKeeps
  <1>5. Started' = Started
    BY DEF Started
  <1>6. Phases'
    BY <1>1, <1>2, <1>3, <1>4, <1>5 DEF Phases
  <1>7. PICK at : Synced(at)
    BY DEF IInv
  <1> QED
    BY <1>2, <1>3, <1>4, <1>6, <1>7 DEF IInv

\* ... Prune what is live, ...
LEMMA PruneSteps ==
    ASSUME IInv, Prune
    PROVE  IInv'
  <1>1. /\ status = "eliminate" /\ status' = "schedule"
        /\ Unread /\ chosen' = chosen /\ emitted' = emitted /\ target' = target
    BY DEF Prune, Unread, analysis, inputs, caches, memory
  <1>2. ~ Emitting /\ ~ Emitting'
    BY <1>1 DEF Emitting
  <1>3. Inputs /\ Analysed /\ Consistent /\ emitted = {} /\ target = Started /\ chosen = 0
    BY <1>1, <1>2 DEF IInv, Phases
  <1>4. Inputs' = Inputs /\ Analysed' = Analysed /\ Consistent' = Consistent /\ \A at : Synced(at)' = Synced(at)
    BY <1>1, UnreadKeeps
  <1>5. Started' = Started
    BY DEF Started
  <1>6. Whole'
    BY <1>3, PruneKeepsWhole
  <1>7. Phases'
    BY <1>1, <1>2, <1>3, <1>4, <1>5, <1>6 DEF Phases
  <1>8. PICK at : Synced(at)
    BY DEF IInv
  <1> QED
    BY <1>2, <1>3, <1>4, <1>7, <1>8 DEF IInv

\* ... and Schedule starts the emission.
LEMMA ScheduleSteps ==
    ASSUME IInv, Schedule
    PROVE  IInv'
  <1>1. /\ status = "schedule" /\ status' = "emit" /\ before' = [n \in live |-> Predecessors(n)]
        /\ Unread /\ live' = live /\ chosen' = chosen /\ emitted' = emitted /\ target' = target
    BY DEF Schedule, Unread, analysis, inputs, caches, memory
  <1>2. ~ Emitting
    BY <1>1 DEF Emitting
  <1>3. Inputs /\ Analysed /\ Consistent /\ Whole /\ emitted = {} /\ target = Started /\ chosen = 0
    BY <1>1, <1>2 DEF IInv, Phases
  <1>4. /\ Inputs' = Inputs /\ Analysed' = Analysed /\ Consistent' = Consistent /\ Whole' = Whole
        /\ \A at : Synced(at)' = Synced(at)
    BY <1>1, UnreadKeeps
  <1>5. PICK t : t = Started
    OBVIOUS
  <1>6. Ran(t, {}) /\ Closed({})
    BY <1>5, StartedRan DEF Closed
  <1>7. Ran(t, {})' /\ Closed({})' /\ \A n : Predecessors(n)' = Predecessors(n)
    BY <1>1, <1>6, UnreadRuns
  <1>8. target' = t /\ emitted' = {} /\ chosen' = 0
    BY <1>1, <1>3, <1>5
  <1>9. before' = [n \in live' |-> Predecessors(n)']
    BY <1>1, <1>7
  <1>10. Emission'
    BY <1>7, <1>8, <1>9 DEF Emission
  <1>11. Phases'
    BY <1>1, <1>3, <1>4, <1>10 DEF Phases, Emitting
  <1>12. PICK at : Synced(at)
    BY DEF IInv
  <1>13. Saw(t, {}, at)
    BY <1>3, <1>5, <1>12, StartedSaw
  <1>14. Saw(t, {}, at)'
    BY <1>1, <1>13, UnreadRuns
  <1>15. Saw(target, emitted, at)'
    BY <1>8, <1>14 DEF Saw
  <1> QED
    BY <1>3, <1>4, <1>11, <1>12, <1>15 DEF IInv

\* One operation is emitted that waits for nothing.
LEMMA EmitSteps ==
    ASSUME IInv, Emit
    PROVE  IInv'
  <1>1. /\ status = "emit" /\ status' = "emit" /\ Waiting # {} /\ before' = before
        /\ Unread /\ live' = live
    BY DEF Emit, Unread, analysis, inputs, caches, memory
  <1>2. Inputs /\ Analysed /\ Consistent /\ Whole /\ Emission
    BY <1>1 DEF IInv, Phases, Emitting
  <1>3. Ordered
    BY <1>2 DEF Ordered
  <1>4. PICK at : Synced(at) /\ Saw(target, emitted, at)
    BY <1>1 DEF IInv, Emitting
  <1>5. PICK goal \in IF chosen = 0 THEN Candidates ELSE {chosen} :
           LET n == Min((before[goal] \ emitted) \cup {goal})
           IN  /\ target' = Materialized(target, n)
               /\ emitted' = emitted \cup {n}
               /\ chosen' = IF n = goal THEN 0 ELSE goal
    BY DEF Emit
  <1>6. PICK n : n = Min((before[goal] \ emitted) \cup {goal})
    OBVIOUS
  <1>7. /\ target' = Materialized(target, n) /\ emitted' = emitted \cup {n}
        /\ chosen' = IF n = goal THEN 0 ELSE goal
    BY <1>5, <1>6
  <1>8. Reaches(emitted, goal)
    BY <1>1, <1>2, <1>3, <1>5, GoalReached
  <1>9. /\ Free(emitted, n) /\ Closed(emitted \cup {n})
        /\ n # goal => Reaches(emitted \cup {n}, goal)
    BY <1>2, <1>3, <1>6, <1>8, NextIsFree
  <1>10. Ran(target, emitted)
    BY <1>2 DEF Emission
  <1>11. PICK t, done : t = Materialized(target, n) /\ done = emitted \cup {n}
    OBVIOUS
  <1>12. Ran(t, done) /\ Saw(t, done, at)
    BY <1>3, <1>4, <1>9, <1>10, <1>11, Runs
  <1>13. Closed(done) /\ (n # goal => Reaches(done, goal))
    BY <1>9, <1>11
  <1>14. /\ Ran(t, done)' /\ Saw(t, done, at)' /\ Closed(done)' /\ (n # goal => Reaches(done, goal)')
         /\ \A x : Predecessors(x)' = Predecessors(x)
    BY <1>1, <1>12, <1>13, UnreadRuns
  <1>15. target' = t /\ emitted' = done /\ chosen' = IF n = goal THEN 0 ELSE goal
    BY <1>7, <1>11
  <1>16. before' = [x \in live' |-> Predecessors(x)']
    BY <1>1, <1>2, <1>14 DEF Emission
  <1>17. Emission'
    BY <1>14, <1>15, <1>16 DEF Emission
  <1>18. /\ Inputs' = Inputs /\ Analysed' = Analysed /\ Consistent' = Consistent /\ Whole' = Whole
         /\ Synced(at)' = Synced(at)
    BY <1>1, UnreadKeeps
  <1>19. Phases'
    BY <1>1, <1>2, <1>17, <1>18 DEF Phases, Emitting
  <1>20. Saw(target, emitted, at)'
    BY <1>14, <1>15 DEF Saw
  <1> QED
    BY <1>2, <1>4, <1>18, <1>19, <1>20 DEF IInv

\* Nothing is left to emit.
LEMMA ReturnSteps ==
    ASSUME IInv, Return
    PROVE  IInv'
  <1>1. /\ status = "emit" /\ status' = "done" /\ Waiting = {} /\ before' = before /\ Unread
        /\ live' = live /\ chosen' = chosen /\ emitted' = emitted /\ target' = target
    BY DEF Return, Unread, analysis, inputs, caches, memory
  <1>2. Inputs /\ Analysed /\ Consistent /\ Whole /\ Emission
    BY <1>1 DEF IInv, Phases, Emitting
  <1>3. PICK at : Synced(at) /\ Saw(target, emitted, at)
    BY <1>1 DEF IInv, Emitting
  <1>4. PICK t, done, goal : t = target /\ done = emitted /\ goal = chosen
    OBVIOUS
  <1>5. Ran(t, done) /\ Saw(t, done, at) /\ Closed(done) /\ (goal # 0 => Reaches(done, goal))
    BY <1>2, <1>3, <1>4 DEF Emission
  <1>6. /\ Ran(t, done)' /\ Saw(t, done, at)' /\ Closed(done)' /\ (goal # 0 => Reaches(done, goal)')
        /\ \A x : Predecessors(x)' = Predecessors(x)
    BY <1>1, <1>5, UnreadRuns
  <1>7. target' = t /\ emitted' = done /\ chosen' = goal
    BY <1>1, <1>4
  <1>8. before' = [x \in live' |-> Predecessors(x)']
    BY <1>1, <1>2, <1>6 DEF Emission
  <1>9. Emission'
    BY <1>6, <1>7, <1>8 DEF Emission
  <1>10. /\ Inputs' = Inputs /\ Analysed' = Analysed /\ Consistent' = Consistent /\ Whole' = Whole
         /\ Synced(at)' = Synced(at)
    BY <1>1, UnreadKeeps
  <1>11. Waiting' = {}
    BY <1>1 DEF Waiting
  <1>12. Phases'
    BY <1>1, <1>2, <1>9, <1>10, <1>11 DEF Phases, Emitting
  <1>13. Saw(target, emitted, at)'
    BY <1>6, <1>7 DEF Saw
  <1> QED
    BY <1>2, <1>3, <1>10, <1>12, <1>13 DEF IInv

\* Nothing happens.
LEMMA StutterSteps ==
    ASSUME IInv, UNCHANGED vars
    PROVE  IInv'
  <1>1. /\ status' = status /\ before' = before /\ Unread
        /\ live' = live /\ chosen' = chosen /\ emitted' = emitted /\ target' = target
    BY DEF vars, Unread, analysis, inputs, caches, memory
  <1>2. /\ Inputs' = Inputs /\ Analysed' = Analysed /\ Consistent' = Consistent /\ Whole' = Whole
        /\ \A at : Synced(at)' = Synced(at)
    BY <1>1, UnreadKeeps
  <1>3. PICK t, done, goal : t = target /\ done = emitted /\ goal = chosen
    OBVIOUS
  <1>4. target' = t /\ emitted' = done /\ chosen' = goal
    BY <1>1, <1>3
  <1>5. /\ Ran(t, done)' = Ran(t, done) /\ Closed(done)' = Closed(done)
        /\ \A at : Saw(t, done, at)' = Saw(t, done, at)
        /\ Reaches(done, goal)' = Reaches(done, goal) /\ \A x : Predecessors(x)' = Predecessors(x)
    BY <1>1, UnreadRuns
  <1>6. Emission => Emission'
    <2> SUFFICES ASSUME Emission PROVE Emission'
      OBVIOUS
    <2>1. Ran(t, done) /\ Closed(done) /\ (goal # 0 => Reaches(done, goal))
      BY <1>3 DEF Emission
    <2>2. before' = [x \in live' |-> Predecessors(x)']
      BY <1>1, <1>5 DEF Emission
    <2> QED
      BY <1>4, <1>5, <2>1, <2>2 DEF Emission
  <1>7. Started' = Started /\ Waiting' = Waiting
    BY <1>1 DEF Started, Waiting
  <1>8. Phases'
    BY <1>1, <1>2, <1>6, <1>7 DEF IInv, Phases, Emitting
  <1>9. PICK at : Synced(at) /\ (Emitting => Saw(target, emitted, at))
    BY DEF IInv
  <1>10. Emitting => Saw(t, done, at)
    BY <1>3, <1>9
  <1>11. Emitting' => Saw(t, done, at)'
    BY <1>1, <1>5, <1>10 DEF Emitting
  <1>12. Emitting' => Saw(target, emitted, at)'
    BY <1>4, <1>11 DEF Saw
  <1> QED
    BY <1>2, <1>8, <1>9, <1>12 DEF IInv

\* The invariant holds of every run of the optimizer, whatever it merges, drops
\* or moves.
THEOREM Invariance ==
    Spec => []IInv
  <1>1. Init => IInv
    BY InitIInv
  <1>2. IInv /\ [Next]_vars => IInv'
    <2> SUFFICES ASSUME IInv, [Next]_vars PROVE IInv'
      OBVIOUS
    <2>1. CASE Normalize
      BY <2>1, NormalizeSteps
    <2>2. CASE Drop \/ Merge \/ KeepLoad \/ KeepStore \/ KeepKernel \/ KeepSync
      BY <2>2, AnalysisSteps
    <2>3. CASE Prune
      BY <2>3, PruneSteps
    <2>4. CASE Schedule
      BY <2>4, ScheduleSteps
    <2>5. CASE Emit
      BY <2>5, EmitSteps
    <2>6. CASE Return
      BY <2>6, ReturnSteps
    <2>7. CASE UNCHANGED vars
      BY <2>7, StutterSteps
    <2> QED
      BY <2>1, <2>2, <2>3, <2>4, <2>5, <2>6, <2>7 DEF Next
  <1> QED
    BY <1>1, <1>2, PTL DEF Spec

-----------------------------------------------------------------------------
(* What follows.                                                           *)

\* Operands, tables and stores are there, also after pruning, ...
LEMMA TypesFollow ==
    ASSUME IInv
    PROVE  TypeOK
  <1>1. /\ status \in {"new", "rejected", "eliminate", "schedule", "emit", "done"}
        /\ pos \in 1 .. Len(code) + 1
    BY DEF IInv, Phases, Analysed
  <1>2. /\ DOMAIN kept = 1 .. Len(kept) /\ Len(kept) \in Nat
        /\ \A n \in 1 .. Len(kept) : Supplied(kept, n) /\ Coned(kept, n)
    BY KeptFacts DEF IInv, Analysed, NodeOK
  <1>3. live = {} \/ Whole
    BY DEF IInv, Phases
  <1>4. live \subseteq DOMAIN kept
    BY <1>2, <1>3 DEF Whole
  <1>5. emitted \subseteq live
    BY DEF IInv, Phases, Emission, Closed, Emitting
  <1>6. ASSUME NEW n \in DOMAIN kept,
               NEW v \in Range(kept[n].inputs) \cup {kept[n].implicit}, v # None
        PROVE  \E m \in 1 .. n - 1 : kept[m].output = v /\ (n \in live => m \in live)
    <2>0. Supplied(kept, n)
      BY <1>2
    <2>1. PICK m \in 1 .. n - 1 : kept[m].output = v
      <3>1. CASE v \in Range(kept[n].inputs)
        BY <2>0, <3>1 DEF Supplied
      <3>2. CASE v = kept[n].implicit
        BY <1>6, <2>0, <3>2 DEF Supplied
      <3> QED
        BY <1>6, <3>1, <3>2
    <2>2. v \in Needs(kept[n].inputs, kept[n].implicit)
      BY <1>6 DEF Needs
    <2>3. n \in live => m \in live
      BY <1>3, <2>1, <2>2 DEF Whole
    <2> QED
      BY <2>1, <2>3
  <1>7. ASSUME NEW n \in live, NEW m \in kept[n].after PROVE m < n /\ m \in live
    <2>1. n \in 1 .. Len(kept) /\ m \in 1 .. n - 1
      BY <1>2, <1>4 DEF Coned
    <2> QED
      BY <1>2, <1>3, <2>1 DEF Whole
  <1> QED
    BY <1>1, <1>4, <1>5, <1>6, <1>7 DEF TypeOK

\* ... values are those of the source program, ...
LEMMA ValuesFollow ==
    ASSUME IInv
    PROVE  ValuesAgree
  <1>1. ASSUME NEW v \in Values PROVE source.values[replacement[v]] = source.values[v]
    <2>1. ReplacementOK(kept, source.values, replacement, DefinedBefore(code, pos))
      BY DEF IInv, Analysed
    <2> QED
      BY <2>1 DEF ReplacementOK
  <1>2. ASSUME NEW v \in Values, target.values[v] # None PROVE target.values[v] = source.values[v]
    <2>1. CASE Emitting
      BY <1>2, <2>1 DEF IInv, Phases, Emission, Ran, ValuesRan
    <2>2. CASE ~ Emitting
      <3>1. target = Started
        BY <2>2 DEF IInv, Phases
      <3> QED
        BY <1>2, <3>1 DEF Started
    <2> QED
      BY <2>1, <2>2
  <1> QED
    BY <1>1, <1>2, TypesFollow DEF ValuesAgree

\* ... and so is all that is observed: of each observable cell the last store is
\* live, so it is the last that was emitted.
LEMMA OutputsFollow ==
    ASSUME IInv
    PROVE  OutputsAgree
  <1>1. PICK at : Synced(at) /\ (Emitting => Saw(target, emitted, at))
    BY DEF IInv
  <1>2. Len(at) = Len(source.seen) /\ IsTuple(source.seen) /\ IsTuple(at)
    BY <1>1 DEF Synced, SyncsOK, IInv, Analysed, Machine
  <1>3. ASSUME Emitting PROVE IsTuple(target.seen) /\ Len(target.seen) <= Len(at)
    BY <1>1, <1>3 DEF Saw, IInv, Phases, Emission, Ran, Machine
  <1>4. ASSUME status = "emit" PROVE IsPrefix(target.seen, source.seen)
    <2>1. Emitting
      BY <1>4 DEF Emitting
    <2>2. PICK k \in Nat, size \in Nat : k = Len(target.seen) /\ size = Len(source.seen)
      BY <1>2, <1>3, <2>1 DEF IsTuple
    <2>3. k <= size /\ \A j \in 1 .. k : target.seen[j] = source.seen[j]
      BY <1>1, <1>2, <1>3, <2>1, <2>2 DEF Saw
    <2>4. /\ SubSeq(target.seen, 1, k) = [j \in 1 .. k |-> target.seen[j]]
          /\ SubSeq(source.seen, 1, k) = [j \in 1 .. k |-> source.seen[j]]
      <3>1. target.seen \in Seq(Range(target.seen)) /\ source.seen \in Seq(Range(source.seen))
        BY <1>2, <1>3, <2>1, TupleSeq
      <3>2. k - 1 + 1 = k
        BY <2>2
      <3> QED
        BY <2>2, <2>3, <3>1, <3>2
    <2>5. SubSeq(target.seen, 1, k) = SubSeq(source.seen, 1, k)
      BY <2>3, <2>4
    <2> QED
      BY <2>2, <2>3, <2>5 DEF IsPrefix
  <1>5. ASSUME status = "done"
        PROVE  /\ target.seen = source.seen
               /\ \A c \in Observable : target.memory[c] = source.memory[c]
    <2>1. Emitting /\ Whole /\ Emission /\ live \subseteq emitted /\ Inputs /\ Analysed
      BY <1>5 DEF Emitting, IInv, Phases, Waiting
    <2>2. emitted = live
      BY <2>1 DEF Emission, Closed
    <2>3. PICK k \in Nat, size \in Nat : k = Len(target.seen) /\ size = Len(at)
      BY <1>2, <1>3, <2>1 DEF IsTuple
    <2>4. /\ DOMAIN kept = 1 .. Len(kept) /\ Len(kept) \in Nat
          /\ \A j \in 1 .. size : at[j] \in 1 .. Len(kept) /\ kept[at[j]].op = "sync"
      BY <1>1, <2>1, <2>3, KeptFacts DEF Analysed, Synced, SyncsOK
    <2>5. \A j \in 1 .. size : at[j] \in emitted
      BY <2>1, <2>4 DEF Whole
    <2>6. \A j \in 1 .. size : j <= k
      BY <1>1, <2>1, <2>3, <2>5 DEF Saw
    <2>7. k = size
      <3>1. k <= size
        BY <1>3, <2>1, <2>3
      <3>2. size # 0 => size \in 1 .. size
        OBVIOUS
      <3> QED
        BY <2>6, <3>1, <3>2
    <2>8. target.seen = source.seen
      <3>1. \A j \in 1 .. k : target.seen[j] = source.seen[j]
        BY <1>1, <2>1, <2>3 DEF Saw
      <3>2. target.seen = [j \in 1 .. k |-> target.seen[j]] /\ source.seen = [j \in 1 .. k |-> source.seen[j]]
        BY <1>2, <1>3, <2>1, <2>3, <2>7 DEF IsTuple
      <3> QED
        BY <3>1, <3>2
    <2>9. ASSUME NEW c \in Observable PROVE target.memory[c] = source.memory[c]
      <3>1. c \in ImageCells
        BY <2>1, InputFacts
      <3>2. PICK m \in {0} \cup emitted : LastOf(emitted, c, m) /\ target.memory[c] = Held(kept, source.values, m, c)
        BY <2>1, <3>1 DEF Emission, Ran, MemoryRan
      <3>3. PICK w : w = lastWriters[c]
        OBVIOUS
      <3>4. LastStore(kept, Len(kept) + 1, c, w) /\ source.memory[c] = Held(kept, source.values, w, c)
        BY <2>1, <3>1, <3>3 DEF Analysed, MemoryOK
      <3>5. w \in {0} \cup live
        BY <2>1, <3>3 DEF Whole, WritersOf
      <3>6. m \in 0 .. Len(kept) /\ w \in 0 .. Len(kept)
        BY <2>1, <2>2, <2>4, <3>2, <3>5 DEF Whole
      <3>7. w # 0 => w <= m
        <4>1. w # 0 => Covers(kept, w, c)
          BY <3>4 DEF LastStore
        <4> QED
          BY <2>2, <3>2, <3>5, <4>1 DEF LastOf
      <3>8. m # 0 => m <= w
        <4>1. m # 0 => Covers(kept, m, c)
          BY <3>2 DEF LastOf
        <4>2. \A x \in w + 1 .. Len(kept) : ~ Covers(kept, x, c)
          BY <2>4, <3>4 DEF LastStore
        <4> QED
          BY <2>4, <3>6, <4>1, <4>2
      <3>9. m = w
        BY <3>6, <3>7, <3>8
      <3> QED
        BY <3>2, <3>4, <3>9
    <2> QED
      BY <2>8, <2>9
  <1> QED
    BY <1>4, <1>5 DEF OutputsAgree, IInv, Phases

\* A merged load would have found the value that takes its place, and every value
\* that the result loads or computes is the one the source program has.
THEOREM ValuesKept ==
    Spec => []ValuesAgree
  BY Invariance, ValuesFollow, PTL

\* At every PSYNC, and at the end, observable memory is as the source program leaves
\* it, whatever eliminate_io() and schedule() did.
THEOREM OutputsKept ==
    Spec => []OutputsAgree
  BY Invariance, OutputsFollow, PTL

=============================================================================
