-------------------------- MODULE Scheduler_proofs --------------------------
(***************************************************************************)
(* Proofs about the scheduler for any number of slots, banks and objects,  *)
(* and any programs that the importers make.  Consistency, VersionsKept:   *)
(* in both modes the states, the allocator and the machine never disagree, *)
(* and no live value is ever left without a copy.  Backings and            *)
(* Implementation: in automatic mode, or for programs whose own stores     *)
(* leave the memory of live objects alone, no write changes what an object *)
(* would be reloaded from, and the emitted instructions do what the        *)
(* program means.  CapacityErrors: no search for room gives up while there *)
(* is something that may be evicted and would help.                        *)
(***************************************************************************)
EXTENDS Scheduler, FiniteSetTheorems, SequenceTheorems, WellFoundedInduction, TLAPS

-----------------------------------------------------------------------------
(* What the allocator answers.  The first lemmas are those of              *)
(* BankAllocator_proofs.                                                   *)

\* The naturals are well founded, so a nonempty set of them has a least element.
LEMMA LeastNatural ==
    ASSUME NEW S \in SUBSET Nat, S # {}
    PROVE  \E n \in S : \A m \in S : n <= m
<1> DEFINE less == OpToRel(<, Nat)
<1>1. PICK n \in S : \A m \in S : ~ (<<m, n>> \in less)
    BY NatLessThanWellFounded, WFMin
<1>2. \A m \in S : <<m, n>> \in less <=> m < n
    BY DEF OpToRel
<1> HIDE DEF less
<1>3. ASSUME NEW m \in S
      PROVE  n <= m
  <2>1. ~ (m < n)
    BY <1>1, <1>2, Zenon
  <2>2. m \in Nat /\ n \in Nat
    OBVIOUS
  <2> QED
    BY <2>1, <2>2
<1> QED
    BY <1>3

\* The first-fit loops of find() return a base they have tried.
LEMMA SmallestInSet ==
    ASSUME NEW S \in SUBSET Nat, S # {}
    PROVE  Smallest(S) \in S
BY LeastNatural DEF Smallest

\* The cheapest-then-nearest bank is one of the banks that have room.
LEMMA BestBankInSet ==
    ASSUME NEW banks \in SUBSET RegularBanks, banks # {},
           NEW preference \in 0 .. 4,
           NEW cost \in [RegularBanks -> Nat]
    PROVE  BestBank(banks, preference, cost) \in banks
<1> DEFINE K == {Key(b, preference, cost) : b \in banks}
<1>1. \A b \in banks : Key(b, preference, cost) \in Nat
    BY DEF Key, RegularBanks
<1>2. K \in SUBSET Nat /\ K # {}
    BY <1>1
<1>3. PICK k \in K : \A m \in K : k <= m
    BY <1>2, LeastNatural
<1>4. PICK b \in banks : k = Key(b, preference, cost)
    BY <1>3
<1>5. \A c \in banks : Key(b, preference, cost) <= Key(c, preference, cost)
    BY <1>3, <1>4
<1> QED
    BY <1>5 DEF BestBank

\* A region as it was asked for.
Suits(answer, lines, type) ==
    answer.outcome = "ok" =>
        answer.region \in Allocation /\ answer.region.lines = lines /\ answer.region.type = type

\* find() returns a region of the length and the type that it was asked for.
LEMMA FindSuits ==
    ASSUME NEW where, NEW lines \in Nat, NEW type \in {0, 1},
           NEW allowed \in SUBSET (0 .. 5), NEW preference \in 0 .. 4,
           NEW cost \in [RegularBanks -> Nat]
    PROVE  Suits(Find(where, lines, type, allowed, preference, cost), lines, type)
<1> DEFINE answer == Find(where, lines, type, allowed, preference, cost)
           region == answer.region
<1> SUFFICES ASSUME answer.outcome = "ok"
             PROVE  region \in Allocation /\ region.lines = lines /\ region.type = type
  BY DEF Suits
<1>1. lines # 0
  BY DEF Find, Refused
<1>2. CASE type = 1
  <2>1. answer = FindTable(where, lines, allowed)
    BY <1>1, <1>2 DEF Find
  <2>2. /\ answer = Placed(Region(SmallBank, 0, ModTableLines, lines, 1))
        /\ lines <= ModTableLines
    BY <2>1, OptionsAssumption DEF FindTable, Refused
  <2>3. region = Region(SmallBank, 0, ModTableLines, lines, 1)
    BY <2>2 DEF Placed
  <2> QED
    BY <1>1, <1>2, <2>2, <2>3, OptionsAssumption DEF Region, Allocation, SmallBank, RegularLines
<1>3. CASE type = 0 /\ SmallBank \in allowed /\ FreeSmallBases(where, lines) # {}
  <2> DEFINE bases == FreeSmallBases(where, lines)
  <2>1. answer = Placed(Region(SmallBank, Smallest(bases), lines, lines, 0))
    BY <1>1, <1>3 DEF Find, FindOrdinary
  <2>2. bases \in SUBSET Nat
    BY OptionsAssumption DEF FreeSmallBases, SmallBases, FirstOrdinaryLine, SmallLines
  <2>3. Smallest(bases) \in bases
    BY <1>3, <2>2, SmallestInSet
  <2>4. Smallest(bases) \in FirstOrdinaryLine .. SmallLines /\ lines <= SmallLines - Smallest(bases)
    BY <2>3 DEF FreeSmallBases, SmallBases
  <2>5. region = Region(SmallBank, Smallest(bases), lines, lines, 0)
    BY <2>1 DEF Placed
  <2> QED
    BY <1>1, <1>3, <2>4, <2>5, OptionsAssumption
    DEF Region, Allocation, SmallBank, RegularLines, SmallLines, FirstOrdinaryLine
<1>4. CASE type = 0 /\ ~ (SmallBank \in allowed /\ FreeSmallBases(where, lines) # {})
  <2> DEFINE rooms == BanksWithRoom(where, lines, allowed)
             bank == BestBank(rooms, preference, cost)
             bases == FreeRegularBases(where, bank, lines)
             capacity == RegularCapacity(lines)
  <2>1. /\ rooms # {}
        /\ answer = Placed(Region(bank, Smallest(bases), capacity, lines, 0))
    BY <1>1, <1>4 DEF Find, FindOrdinary, Refused
  <2>2. rooms \in SUBSET RegularBanks
    BY DEF BanksWithRoom
  <2>3. bank \in rooms
    BY <2>1, <2>2, BestBankInSet
  <2>4. bank \in RegularBanks /\ bank < RegularBankCount /\ lines <= RegularLines /\ bases # {}
    BY <2>3 DEF BanksWithRoom
  <2>5. capacity \in {128, 256, 512, 1024} /\ lines <= capacity
    BY <2>4 DEF RegularCapacity, RegularLines
  <2>6. bases \in SUBSET Nat
    BY DEF FreeRegularBases, RegularBases, Granule
  <2>7. Smallest(bases) \in bases
    BY <2>4, <2>6, SmallestInSet
  <2>8. Smallest(bases) \in Nat /\ Smallest(bases) + capacity <= RegularLines
    BY <2>6, <2>7 DEF FreeRegularBases, RegularBases
  <2>9. region = Region(bank, Smallest(bases), capacity, lines, 0)
    BY <2>1 DEF Placed
  <2> HIDE DEF capacity, bases, bank, answer
  <2>10. Region(bank, Smallest(bases), capacity, lines, 0) \in Allocation
    BY <1>1, <2>4, <2>5, <2>8 DEF Region, Allocation, RegularBanks, RegularLines
  <2> QED
    BY <1>4, <2>9, <2>10 DEF Region
<1> QED
  BY <1>2, <1>3, <1>4

\* Stream counts are numbers, one for each bank of the preference domain.
LEMMA ReadCostType ==
    ASSUME NEW where, NEW sources \in Seq(Slots)
    PROVE  ReadCost(where, sources) \in [RegularBanks -> Nat]
<1>1. ASSUME NEW bank \in RegularBanks
      PROVE  Cardinality({k \in DOMAIN sources : where[sources[k]].bank = bank}) \in Nat
  <2>1. IsFiniteSet(1 .. Len(sources))
    BY FS_Interval
  <2>2. IsFiniteSet({k \in DOMAIN sources : where[sources[k]].bank = bank})
    BY <2>1, FS_Subset
  <2> QED
    BY <2>2, FS_CardinalityType
<1> QED
    BY <1>1 DEF ReadCost

\* load() and ntt() count no streams.
LEMMA NoCostType == NoCost \in [RegularBanks -> Nat]
BY DEF NoCost

\* load() places an object as its shape says.
LEMMA LoadSuits ==
    ASSUME NEW where, NEW id \in Slots, NEW lines \in Nat, NEW mod \in {0, 1}, NEW mask \in SUBSET (0 .. 5)
    PROVE  Suits(LoadRequest(where, id, lines, mod, mask), lines, mod)
<1> DEFINE banks == IF mask # {} THEN mask ELSE IF mod = 1 THEN {SmallBank} ELSE RegularBanks
<1>1. banks \in SUBSET (0 .. 5) /\ id % 5 \in 0 .. 4
  BY SlotsAssumption DEF SmallBank, RegularBanks
<1> HIDE DEF banks
<1>2. Suits(Find(Without(where, id), lines, mod, banks, id % 5, NoCost), lines, mod)
  BY <1>1, FindSuits, NoCostType
<1>3. CASE mod = 1 /\ mask \notin {{}, {SmallBank}}
  BY <1>3 DEF LoadRequest, Suits, Refused
<1>4. CASE ~ (mod = 1 /\ mask \notin {{}, {SmallBank}})
  BY <1>2, <1>4 DEF LoadRequest, banks
<1> QED
  BY <1>3, <1>4

\* A kernel's result is ordinary, and as long as its first source; so was an
\* accumulator.
LEMMA ArithmeticSuits ==
    ASSUME NEW where \in Layout, NEW dst \in Slots, NEW sources \in Seq(Slots), sources # << >>,
           NEW accumulate \in BOOLEAN,
           NEW answer, answer = ArithmeticRequest(where, dst, sources, accumulate),
           answer.outcome = "ok"
    PROVE  /\ Suits(answer, where[sources[1]].lines, 0)
           /\ where[sources[1]] # None /\ where[sources[1]].type = 0
           /\ accumulate => /\ where[dst] # None /\ where[dst].type = 0
                            /\ where[dst].lines = where[sources[1]].lines
<1>1. ~ ArithmeticInvalid(where, dst, sources, accumulate)
  BY DEF ArithmeticRequest, Refused
<1>2. 1 \in DOMAIN sources /\ sources[1] \in Slots
  OBVIOUS
<1>3. where[sources[1]] # None /\ where[sources[1]].type # 1
  BY <1>1, <1>2 DEF ArithmeticInvalid
<1>4. where[sources[1]] \in Allocation /\ (where[dst] # None => where[dst] \in Allocation)
  BY <1>2, <1>3 DEF Layout
<1>5. where[sources[1]].lines \in Nat /\ where[sources[1]].type = 0
  BY <1>3, <1>4 DEF Allocation
<1> DEFINE lines == where[sources[1]].lines
<1>6. RegularBanks \in SUBSET (0 .. 5) /\ 0 \in {0, 1} /\ dst % 5 \in 0 .. 4
  BY SlotsAssumption DEF RegularBanks
<1>7. CASE accumulate
  <2>1. where[dst] # None /\ where[dst].type # 1 /\ where[dst].lines = lines
    BY <1>1, <1>7 DEF ArithmeticInvalid
  <2>2. where[dst].type = 0 /\ (where[dst].bank + 1) % 5 \in 0 .. 4
    BY <1>4, <2>1 DEF Allocation
  <2>3. Append(sources, dst) \in Seq(Slots)
    OBVIOUS
  <2>4. ReadCost(where, Append(sources, dst)) \in [RegularBanks -> Nat]
    BY <2>3, ReadCostType
  <2>5. answer = Find(where, lines, 0, RegularBanks, (where[dst].bank + 1) % 5,
                      ReadCost(where, Append(sources, dst)))
    BY <1>1, <1>7 DEF ArithmeticRequest
  <2> HIDE DEF lines
  <2>6. lines \in Nat
    BY <1>5 DEF lines
  <2>7. Suits(answer, lines, 0)
    BY <1>6, <2>2, <2>4, <2>5, <2>6, FindSuits
  <2> QED
    BY <1>3, <1>5, <2>1, <2>2, <2>7 DEF lines
<1>8. CASE ~ accumulate /\ where[dst] # None /\ where[dst].lines = lines
  <2>1. where[dst].type = 0
    BY <1>1, <1>4, <1>8 DEF ArithmeticInvalid, Allocation
  <2>2. answer = Placed(where[dst])
    BY <1>1, <1>8 DEF ArithmeticRequest
  <2> QED
    BY <1>3, <1>4, <1>5, <1>8, <2>1, <2>2 DEF Placed, Suits
<1>9. CASE ~ accumulate /\ ~ (where[dst] # None /\ where[dst].lines = lines)
  <2>1. ReadCost(where, sources) \in [RegularBanks -> Nat]
    BY ReadCostType
  <2>2. answer = Find(Without(where, dst), lines, 0, RegularBanks, dst % 5, ReadCost(where, sources))
    BY <1>1, <1>9 DEF ArithmeticRequest
  <2> HIDE DEF lines
  <2>3. lines \in Nat
    BY <1>5 DEF lines
  <2>4. Suits(answer, lines, 0)
    BY <1>6, <2>1, <2>2, <2>3, FindSuits
  <2> QED
    BY <1>3, <1>5, <1>9, <2>4 DEF lines
<1> QED
  BY <1>7, <1>8, <1>9

\* A stage's result is ordinary and as long as its data.
LEMMA NttSuits ==
    ASSUME NEW where \in Layout, NEW data \in Slots,
           NEW answer, answer = NttRequest(where, data), answer.outcome = "ok"
    PROVE  /\ where[data] # None /\ where[data].type = 0
           /\ Suits(answer, where[data].lines, 0)
<1>1. where[data] # None /\ where[data].type # 1
  BY DEF NttRequest, Refused
<1>2. where[data] \in Allocation
  BY <1>1 DEF Layout
<1>3. /\ where[data].type = 0 /\ where[data].lines \in Nat
      /\ (IF where[data].bank = SmallBank THEN 0 ELSE (where[data].bank + 1) % 5) \in 0 .. 4
      /\ RegularBanks \ {where[data].bank} \in SUBSET (0 .. 5) /\ 0 \in {0, 1}
  BY <1>1, <1>2 DEF Allocation, RegularBanks
<1>4. answer = Find(where, where[data].lines, 0, RegularBanks \ {where[data].bank},
                    IF where[data].bank = SmallBank THEN 0 ELSE (where[data].bank + 1) % 5, NoCost)
  BY <1>1 DEF NttRequest
<1>5. Suits(answer, where[data].lines, 0)
  <2> DEFINE lines == where[data].lines
             banks == RegularBanks \ {where[data].bank}
             preference == IF where[data].bank = SmallBank THEN 0 ELSE (where[data].bank + 1) % 5
  <2>1. lines \in Nat /\ banks \in SUBSET (0 .. 5) /\ preference \in 0 .. 4
    BY <1>3
  <2>2. answer = Find(where, lines, 0, banks, preference, NoCost)
    BY <1>4
  <2> HIDE DEF lines, banks, preference
  <2>3. Suits(answer, lines, 0)
    BY <2>1, <2>2, NoCostType, FindSuits
  <2> QED
    BY <2>3 DEF lines
<1> QED
  BY <1>1, <1>3, <1>5

-----------------------------------------------------------------------------
(* The slots of objects, the regions of slots and the contents of slots.   *)

\* No function is the absence of a value.
NoneIsNoFunction == None # [x \in DOMAIN None |-> None[x]]

Slotted(where) == where \in [Objects -> Slots \cup {None}]

Apart(where) == \A o, q \in Objects : where[o] # None /\ o # q => where[o] # where[q]

Filled(what, contents) == \A s \in Slots : (what[s] = None) = (contents[s] = None)

\* Every region belongs to a resident object and is shaped like it.
Owned(where, what) ==
    \A s \in Slots : what[s] # None =>
        \E o \in Objects : where[o] = s /\ what[s].lines = Shape[o].lines /\ what[s].type = Shape[o].type

OneTable(where, what) ==
    \A o, q \in Objects :
        /\ where[o] # None /\ what[where[o]] # None /\ Shape[o].type = 1
        /\ where[q] # None /\ what[where[q]] # None /\ Shape[q].type = 1
        => o = q

Sound(where, what, contents) ==
    /\ Slotted(where) /\ what \in Layout /\ contents = [s \in Slots |-> contents[s]]
    /\ Apart(where) /\ Filled(what, contents) /\ Owned(where, what) /\ OneTable(where, what)

\* The shape of an object.
LEMMA Shapes ==
    ASSUME NEW o \in Objects
    PROVE  /\ o \in Nat \ {0} /\ Shape[o].lines \in 1 .. RegularLines /\ Shape[o].lines \in Nat
           /\ Shape[o].type \in {0, 1} /\ Shape[o].mask \in SUBSET (0 .. 5)
           /\ Shape[o].width \in Nat \ {0}
<1>1. Shape[o] \in [lines : 1 .. RegularLines, type : {0, 1}, mask : SUBSET (0 .. 5), width : Nat \ {0}]
  BY ShapeAssumption
<1>2. RegularLines \in Nat
  BY DEF RegularLines
<1> QED
  BY <1>1, <1>2, ShapeAssumption

LEMMA NoneApart == None \notin Slots /\ None \notin Objects /\ None \notin Allocation
BY NoneAssumption

\* Taking objects off the chip, whatever the order, leaves the rest as it was.
LEMMA ClearSound ==
    ASSUME NEW where, NEW what, NEW contents, Sound(where, what, contents),
           NEW gone, NEW freed,
           \A o \in Objects : o \in gone /\ where[o] # None => where[o] \in freed,
           NEW where2, where2 = [o \in Objects |-> where2[o]],
           \A o \in Objects : where2[o] = IF o \in gone THEN None ELSE where[o],
           NEW what2, what2 = [s \in Slots |-> what2[s]],
           \A s \in Slots : what2[s] = IF s \in freed THEN None ELSE what[s],
           NEW contents2, contents2 = [s \in Slots |-> contents2[s]],
           \A s \in Slots : contents2[s] = IF s \in freed THEN None ELSE contents[s]
    PROVE  Sound(where2, what2, contents2)
<1>1. Slotted(where2) /\ what2 \in Layout
  BY DEF Sound, Slotted, Layout
<1>2. Apart(where2)
  BY DEF Sound, Apart
<1>3. Filled(what2, contents2)
  BY DEF Sound, Filled
<1>4. \A s \in Slots : what2[s] # None => s \notin freed /\ what2[s] = what[s] /\ what[s] # None
  OBVIOUS
<1>5. ASSUME NEW s \in Slots, what2[s] # None
      PROVE  \E o \in Objects : where2[o] = s /\ what2[s].lines = Shape[o].lines /\ what2[s].type = Shape[o].type
  <2>1. PICK o \in Objects : where[o] = s /\ what[s].lines = Shape[o].lines /\ what[s].type = Shape[o].type
    BY <1>4, <1>5 DEF Sound, Owned
  <2>2. where2[o] = s
    BY <1>4, <1>5, <2>1, NoneApart
  <2> QED
    BY <1>4, <1>5, <2>1, <2>2
<1>6. Owned(where2, what2)
  BY <1>5 DEF Owned
<1>7. \A o \in Objects : where2[o] # None => where2[o] = where[o] /\ where[o] \in Slots
  BY DEF Sound, Slotted
<1>8. OneTable(where2, what2)
  BY <1>4, <1>7 DEF Sound, OneTable
<1> QED
  BY <1>1, <1>2, <1>3, <1>6, <1>8 DEF Sound

\* A free slot holds nothing.
LEMMA FreeSlot ==
    ASSUME NEW where, NEW what, NEW contents, Sound(where, what, contents),
           NEW s \in Slots, \A o \in Objects : where[o] # s
    PROVE  what[s] = None
BY DEF Sound, Owned

LEMMA TakeSound ==
    ASSUME NEW where, NEW what, NEW contents, Sound(where, what, contents),
           NEW o \in Objects, where[o] = None, NEW s \in Slots, \A q \in Objects : where[q] # s,
           NEW where2, where2 = [where EXCEPT ![o] = s]
    PROVE  Sound(where2, what, contents)
<1>1. what[s] = None
  BY FreeSlot
<1>2. \A q \in Objects : where2[q] = IF q = o THEN s ELSE where[q]
  BY DEF Sound, Slotted
<1>3. Slotted(where2)
  BY DEF Sound, Slotted
<1>4. Apart(where2)
  BY <1>2, NoneApart DEF Sound, Apart
<1>5. ASSUME NEW r \in Slots, what[r] # None
      PROVE  \E q \in Objects : where2[q] = r /\ what[r].lines = Shape[q].lines /\ what[r].type = Shape[q].type
  <2>1. PICK q \in Objects : where[q] = r /\ what[r].lines = Shape[q].lines /\ what[r].type = Shape[q].type
    BY <1>5 DEF Sound, Owned
  <2>2. q # o
    BY <2>1, NoneApart
  <2> QED
    BY <1>2, <2>1, <2>2
<1>6. Owned(where2, what)
  BY <1>5 DEF Owned
<1>7. OneTable(where2, what)
  BY <1>1, <1>2 DEF Sound, OneTable
<1> QED
  BY <1>3, <1>4, <1>6, <1>7 DEF Sound

\* A region and a value are put into slot s for object o: where2, what2 and
\* contents2 differ from where, what and contents in nothing else, but that o
\* may have taken the slot over from another object.
Put(where, what, contents, o, s, region, value, where2, what2, contents2) ==
    /\ o \in Objects /\ s \in Slots /\ region \in Allocation /\ value # None
    /\ region.lines = Shape[o].lines /\ region.type = Shape[o].type
    /\ Slotted(where2) /\ where[o] \in {s, None} /\ where2[o] = s
    /\ \A q \in Objects : q # o =>
          /\ where2[q] # s
          /\ where2[q] = where[q] \/ (where2[q] = None /\ where[q] = s)
          /\ Shape[o].type = 1 /\ where2[q] # None => Shape[q].type # 1
    /\ what2 = [what EXCEPT ![s] = region]
    /\ contents2 = [contents EXCEPT ![s] = value]

LEMMA PlaceSound ==
    ASSUME NEW where, NEW what, NEW contents, Sound(where, what, contents),
           NEW o, NEW s, NEW region, NEW value, NEW where2, NEW what2, NEW contents2,
           Put(where, what, contents, o, s, region, value, where2, what2, contents2)
    PROVE  Sound(where2, what2, contents2)
<1> USE DEF Put
<1>1. \A r \in Slots : /\ what2[r] = IF r = s THEN region ELSE what[r]
                       /\ contents2[r] = IF r = s THEN value ELSE contents[r]
  BY DEF Sound, Layout
<1>2. what2 \in Layout /\ contents2 = [r \in Slots |-> contents2[r]]
  BY DEF Sound, Layout
<1>3. Apart(where2)
  <2> SUFFICES ASSUME NEW p \in Objects, NEW q \in Objects, where2[p] # None, p # q
               PROVE  where2[p] # where2[q]
    BY DEF Apart
  <2>1. CASE p = o \/ q = o
    BY <2>1
  <2>2. CASE p # o /\ q # o
    BY <2>2 DEF Sound, Apart
  <2> QED
    BY <2>1, <2>2
<1>4. Filled(what2, contents2)
  BY <1>1, NoneApart DEF Sound, Filled
<1>5. ASSUME NEW r \in Slots, what2[r] # None
      PROVE  \E q \in Objects : where2[q] = r /\ what2[r].lines = Shape[q].lines /\ what2[r].type = Shape[q].type
  <2>1. CASE r = s
    BY <1>1, <2>1
  <2>2. CASE r # s
    <3>1. what2[r] = what[r]
      BY <1>1, <2>2
    <3>2. PICK q \in Objects : where[q] = r /\ what[r].lines = Shape[q].lines /\ what[r].type = Shape[q].type
      BY <1>5, <3>1 DEF Sound, Owned
    <3>3. q # o
      BY <2>2, <3>2, NoneApart
    <3>4. where2[q] = r
      BY <2>2, <3>2, <3>3
    <3> QED
      BY <3>1, <3>2, <3>4
  <2> QED
    BY <2>1, <2>2
<1>6. Owned(where2, what2)
  BY <1>5 DEF Owned
<1>7. OneTable(where2, what2)
  <2> SUFFICES ASSUME NEW p \in Objects, NEW q \in Objects,
                      where2[p] # None, what2[where2[p]] # None, Shape[p].type = 1,
                      where2[q] # None, what2[where2[q]] # None, Shape[q].type = 1
               PROVE  p = q
    BY DEF OneTable
  <2>1. CASE p = o \/ q = o
    BY <2>1
  <2>2. CASE p # o /\ q # o
    <3>1. /\ where2[p] = where[p] /\ where2[p] # s /\ where2[p] \in Slots
          /\ where2[q] = where[q] /\ where2[q] # s /\ where2[q] \in Slots
      BY <2>2 DEF Slotted
    <3>2. what2[where2[p]] = what[where[p]] /\ what2[where2[q]] = what[where[q]]
      BY <1>1, <3>1
    <3> QED
      BY <3>1, <3>2 DEF Sound, OneTable
  <2> QED
    BY <2>1, <2>2
<1> QED
  BY <1>2, <1>3, <1>4, <1>6, <1>7 DEF Sound

\* The region in the slot of an object on chip is shaped like the object.
LEMMA OwnRegion ==
    ASSUME NEW where, NEW what, NEW contents, Sound(where, what, contents),
           NEW o \in Objects, where[o] # None, what[where[o]] # None
    PROVE  /\ where[o] \in Slots
           /\ what[where[o]].lines = Shape[o].lines /\ what[where[o]].type = Shape[o].type
<1>1. where[o] \in Slots
  BY DEF Sound, Slotted
<1>2. PICK q \in Objects : /\ where[q] = where[o] /\ what[where[o]].lines = Shape[q].lines
                           /\ what[where[o]].type = Shape[q].type
  BY <1>1 DEF Sound, Owned
<1>3. q = o
  BY <1>2 DEF Sound, Apart
<1> QED
  BY <1>1, <1>2, <1>3

-----------------------------------------------------------------------------
(* The inductive invariant.                                                *)

Types ==
    /\ code \in Seq(VirtualInstructions) /\ cursor \in 1 .. Len(code) + 1
    /\ home = [o \in Objects |-> home[o]]
    /\ \A o \in Objects : home[o] # None => Len(home[o]) = Shape[o].width
    /\ dirty \in [Objects -> BOOLEAN] /\ initialized \in [Objects -> BOOLEAN]
    /\ modulus \in Objects \cup {None} /\ automatic \in BOOLEAN /\ loading \in BOOLEAN
    /\ ddr = [cell \in ImageCells \cup SpillCells |-> ddr[cell]]
    /\ status \in {"running", "done", "capacity", "invalid", "logic_error"}

IInv == Types /\ Sound(slot, layout, regs)

\* What an instruction has.
LEMMA InstructionFields ==
    ASSUME NEW i \in VirtualInstructions
    PROVE  /\ i.op \in {"load", "store", "arith", "mac", "stage", "online", "modld", "free", "sync"}
           /\ i.sources \in Seq(Objects) /\ i.def \in Objects \cup {None} /\ i.range \in Views
           /\ i.required \in BOOLEAN /\ i.retained \in BOOLEAN /\ i.release \in BOOLEAN
           /\ i.op = "load" \/ IsKernel(i) => i.def \in Objects
           /\ i.op \in {"store", "free"} \/ IsKernel(i) => i.sources # << >> /\ i.sources[1] \in Objects
           /\ i.op = "load" => Len(i.range) = Shape[i.def].width
           /\ i.op = "store" => Len(i.range) = Shape[i.sources[1]].width
           /\ i.op = "online" => Len(i.sources) = 2
           /\ i.op \in {"arith", "online"} => /\ Shape[i.def].lines = Shape[i.sources[1]].lines
                                             /\ Shape[i.def].type = Shape[i.sources[1]].type
<1> DEFINE Fields == [op : {"load", "store", "arith", "mac", "stage", "online", "modld", "free", "sync"},
                      sources : Seq(Objects), def : Objects \cup {None}, range : Views,
                      required : BOOLEAN, retained : BOOLEAN, release : BOOLEAN]
<1>1. i \in Fields
  BY DEF VirtualInstructions
<1>2. /\ i.op \in {"load", "store", "arith", "mac", "stage", "online", "modld", "free", "sync"}
      /\ i.sources \in Seq(Objects) /\ i.def \in Objects \cup {None} /\ i.range \in Views
      /\ i.required \in BOOLEAN /\ i.retained \in BOOLEAN /\ i.release \in BOOLEAN
  BY <1>1
<1>3. /\ i.op = "load" \/ IsKernel(i) => i.def # None
      /\ i.op \in {"store", "free"} \/ IsKernel(i) => i.sources # << >>
      /\ i.op = "load" => Len(i.range) = Shape[i.def].width
      /\ i.op = "store" => Len(i.range) = Shape[i.sources[1]].width
      /\ i.op = "online" => Len(i.sources) = 2
      /\ i.op \in {"arith", "online"} => Shape[i.def].lines = Shape[i.sources[1]].lines
      /\ IsKernel(i) => Shape[i.def].type = 0
      /\ \A o \in Uses(i) : i.op # "free" => Shape[o].type = 0
  BY DEF VirtualInstructions
<1>4. i.sources # << >> => i.sources[1] \in Objects /\ i.sources[1] \in Uses(i)
  BY <1>2 DEF Uses, SourceSet
<1>5. i.op \in {"arith", "online"} => IsKernel(i) /\ i.op # "free"
  BY DEF IsKernel
<1> QED
  BY <1>2, <1>3, <1>4, <1>5

\* What it may and may not do.
LEMMA InstructionRules ==
    ASSUME NEW i \in VirtualInstructions
    PROVE  /\ i.def # None => i.op = "load" \/ IsKernel(i)
           /\ i.retained => i.op = "load" /\ Shape[i.def].type = 0
           /\ i.op = "store" => \A k \in DOMAIN i.range : i.range[k] \notin ReadOnly
           /\ i.op = "load" /\ Shape[i.def].type = 1 =>
                 \A k \in DOMAIN i.range : i.range[k] \in ReadOnly
           /\ \A o \in Uses(i) : i.op # "free" => Shape[o].type = 0
           /\ IsKernel(i) => Shape[i.def].type = 0
BY DEF VirtualInstructions

LEMMA CurrentInstruction ==
    ASSUME Types, Running
    PROVE  cursor \in 1 .. Len(code) /\ cursor \in DOMAIN code /\ Current \in VirtualInstructions
<1>1. cursor \in 1 .. Len(code)
  BY DEF Types, Running
<1> QED
  BY <1>1 DEF Types, Current

\* ensure() skips what is on chip.
LEMMA MissingFirst ==
    ASSUME NEW list \in Seq(Objects), NEW o, o = FirstMissing(list), o # None
    PROVE  o \in Objects /\ ~ OnChip(o) /\ \E k \in DOMAIN list : o = list[k]
<1> DEFINE missing == {k \in DOMAIN list : ~ OnChip(list[k])}
<1>1. missing # {} /\ o = list[Smallest(missing)]
  BY DEF FirstMissing
<1>2. missing \in SUBSET Nat
  OBVIOUS
<1>3. Smallest(missing) \in missing
  BY <1>1, <1>2, SmallestInSet
<1>4. PICK k \in DOMAIN list : k = Smallest(missing) /\ ~ OnChip(list[k])
  BY <1>3
<1>5. o = list[k] /\ list[k] \in Objects
  BY <1>1, <1>4
<1> QED
  BY <1>4, <1>5

\* When nothing of a list is missing all of it is on chip.
LEMMA NothingMissing ==
    ASSUME NEW list \in Seq(Objects), FirstMissing(list) = None
    PROVE  \A k \in DOMAIN list : OnChip(list[k])
<1> DEFINE missing == {k \in DOMAIN list : ~ OnChip(list[k])}
<1> SUFFICES ASSUME missing # {}
             PROVE  FALSE
  OBVIOUS
<1>1. list[Smallest(missing)] = None
  BY DEF FirstMissing
<1>2. missing \in SUBSET Nat
  OBVIOUS
<1>3. Smallest(missing) \in missing
  BY <1>2, SmallestInSet
<1> QED
  BY <1>1, <1>3, NoneApart

LEMMA FreezeObject ==
    ASSUME ToFreeze # {}
    PROVE  Smallest(ToFreeze) \in ToFreeze /\ Smallest(ToFreeze) \in Objects
<1>1. ToFreeze \in SUBSET Nat
  BY ShapeAssumption DEF ToFreeze
<1> QED
  BY <1>1, SmallestInSet DEF ToFreeze

LEMMA ReadsTyped ==
    ASSUME Types, Running, IsKernel(Current)
    PROVE  /\ KernelReads \in Seq(Objects)
           /\ \A k \in DOMAIN Current.sources : k \in DOMAIN KernelReads /\ KernelReads[k] = Current.sources[k]
           /\ Current.op = "mac" => \E k \in DOMAIN KernelReads : KernelReads[k] = Current.def
<1>1. Current \in VirtualInstructions
  BY CurrentInstruction
<1>2. Current.sources \in Seq(Objects) /\ Current.def \in Objects
  BY <1>1, InstructionFields
<1>3. CASE Current.op = "mac"
  <2> DEFINE reads == Append(Current.sources, Current.def)
  <2>1. /\ reads \in Seq(Objects) /\ Len(reads) = Len(Current.sources) + 1
        /\ \A k \in 1 .. Len(Current.sources) : reads[k] = Current.sources[k]
        /\ reads[Len(Current.sources) + 1] = Current.def
    BY <1>2, AppendProperties
  <2>2. KernelReads = reads
    BY <1>3 DEF KernelReads
  <2>3. Len(Current.sources) \in Nat /\ DOMAIN Current.sources = 1 .. Len(Current.sources)
    BY <1>2
  <2>4. DOMAIN reads = 1 .. Len(Current.sources) + 1
    BY <2>1
  <2> HIDE DEF reads
  <2> QED
    BY <2>1, <2>2, <2>3, <2>4
<1>4. CASE Current.op # "mac"
  BY <1>2, <1>4 DEF KernelReads
<1> QED
  BY <1>3, <1>4

\* What an instruction waits for, by the handler that waits.
LEMMA TargetKernel ==
    ASSUME IsKernel(Current)
    PROVE  Target = FirstMissing(KernelReads)
<1>1. Current.op # "store" /\ Current.op # "load" /\ Current.op # "modld"
  BY DEF IsKernel
<1> QED
  BY <1>1, Zenon DEF Target

LEMMA TargetStore ==
    ASSUME Current.op = "store"
    PROVE  Target = IF Current.required
                    THEN IF ToFreeze # {} THEN FirstMissing(<<Smallest(ToFreeze)>>)
                                          ELSE FirstMissing(Current.sources)
                    ELSE None
<1>1. ~ IsKernel(Current) /\ Current.op # "load" /\ Current.op # "modld"
  BY DEF IsKernel
<1> QED
  BY <1>1, Zenon DEF Target

LEMMA TargetLoad ==
    ASSUME Current.op = "load"
    PROVE  Target = IF Current.retained \/ loading THEN FirstMissing(<<Current.def>>) ELSE None
<1>1. ~ IsKernel(Current) /\ Current.op # "store" /\ Current.op # "modld"
  BY DEF IsKernel
<1> QED
  BY <1>1, Zenon DEF Target

LEMMA TargetModulus ==
    ASSUME Current.op = "modld"
    PROVE  Target = IF modulus # None THEN FirstMissing(<<modulus>>) ELSE None
<1>1. ~ IsKernel(Current) /\ Current.op # "store" /\ Current.op # "load"
  BY DEF IsKernel
<1> QED
  BY <1>1, Zenon DEF Target

LEMMA TargetOther ==
    ASSUME Current.op \in {"free", "sync"}
    PROVE  Target = None
<1>1. ~ IsKernel(Current) /\ Current.op # "store" /\ Current.op # "load" /\ Current.op # "modld"
  BY DEF IsKernel
<1> QED
  BY <1>1, Zenon DEF Target

\* Only objects that are not on chip are placed.
LEMMA ToPlaceTyped ==
    ASSUME Types, NEW o \in ToPlace
    PROVE  Running /\ o = Target /\ o \in Objects /\ ~ OnChip(o)
<1>1. Running /\ o = Target /\ o # None
  BY DEF ToPlace
<1>2. Current \in VirtualInstructions
  BY <1>1, CurrentInstruction
<1>3. /\ Current.op \in {"load", "store", "arith", "mac", "stage", "online", "modld", "free", "sync"}
      /\ Current.sources \in Seq(Objects)
      /\ Current.op = "load" => Current.def \in Objects
  BY <1>2, InstructionFields
<1>4. CASE IsKernel(Current)
  BY <1>1, <1>4, ReadsTyped, TargetKernel, MissingFirst
<1>5. CASE Current.op = "store"
  <2>1. CASE ToFreeze # {}
    <3>1. o = FirstMissing(<<Smallest(ToFreeze)>>)
      BY <1>1, <1>5, <2>1, TargetStore
    <3>2. <<Smallest(ToFreeze)>> \in Seq(Objects)
      BY <2>1, FreezeObject
    <3> QED
      BY <1>1, <3>1, <3>2, MissingFirst
  <2>2. CASE ToFreeze = {}
    <3>1. o = FirstMissing(Current.sources)
      BY <1>1, <1>5, <2>2, TargetStore
    <3> QED
      BY <1>1, <1>3, <3>1, MissingFirst
  <2> QED
    BY <2>1, <2>2
<1>6. CASE Current.op = "load"
  <2>1. o = FirstMissing(<<Current.def>>) /\ <<Current.def>> \in Seq(Objects)
    BY <1>1, <1>3, <1>6, TargetLoad
  <2> QED
    BY <1>1, <2>1, MissingFirst
<1>7. CASE Current.op = "modld"
  <2>1. o = FirstMissing(<<modulus>>) /\ modulus # None
    BY <1>1, <1>7, TargetModulus
  <2>2. <<modulus>> \in Seq(Objects)
    BY <2>1 DEF Types
  <2> QED
    BY <1>1, <2>1, <2>2, MissingFirst
<1>8. CASE Current.op \in {"free", "sync"}
  BY <1>1, <1>8, TargetOther
<1>9. IsKernel(Current) \/ Current.op \in {"store", "load", "modld", "free", "sync"}
  BY <1>3 DEF IsKernel
<1> QED
  BY <1>1, <1>4, <1>5, <1>6, <1>7, <1>8, <1>9

\* What load() and evict() make a home is as long as the object.
LEMMA SpillLength ==
    ASSUME NEW o \in Objects
    PROVE  Len(SpillRange(o)) = Shape[o].width
<1>1. Shape[o].width \in Nat
  BY Shapes
<1> QED
  BY <1>1 DEF SpillRange

-----------------------------------------------------------------------------
(* The steps.                                                              *)

LEMMA InitIInv == Init => IInv
<1> SUFFICES ASSUME Init
             PROVE  IInv
  OBVIOUS
<1>1. PICK suite \in Programs : code \in suite.codes /\ automatic = suite.automatic
  BY DEF Init
<1>2. code \in Seq(VirtualInstructions) /\ automatic \in BOOLEAN
  BY <1>1, ProgramsAssumption, ModeAssumption
<1>3. cursor \in 1 .. Len(code) + 1
  BY <1>2 DEF Init
<1>4. /\ home = [o \in Objects |-> home[o]] /\ \A o \in Objects : home[o] = None
      /\ dirty \in [Objects -> BOOLEAN] /\ initialized \in [Objects -> BOOLEAN]
      /\ modulus = None /\ loading \in BOOLEAN /\ status = "running"
  BY DEF Init
<1>5. ddr = [cell \in ImageCells \cup SpillCells |-> ddr[cell]]
  BY DEF Init
<1>6. Types
  BY <1>2, <1>3, <1>4, <1>5 DEF Types
<1>7. /\ \A o \in Objects : slot[o] = None
      /\ \A s \in Slots : layout[s] = None /\ regs[s] = None
      /\ Slotted(slot) /\ layout \in Layout /\ regs = [s \in Slots |-> regs[s]]
  BY DEF Init, EmptyLayout, Layout, Slotted
<1>8. Sound(slot, layout, regs)
  BY <1>7 DEF Sound, Apart, Filled, Owned, OneTable
<1> QED
  BY <1>6, <1>8 DEF IInv

\* evict(), whatever the victims.
LEMMA EvictStep ==
    ASSUME IInv, NEW victims, NEW preserve, Evict(victims, preserve)
    PROVE  IInv'
<1> DEFINE spilled == Spilled(victims, preserve)
           freed == {slot[o] : o \in victims}
<1>1. Types'
  <2>1. /\ home' = [o \in Objects |-> IF o \in spilled THEN SpillRange(o) ELSE home[o]]
        /\ dirty' = [o \in Objects |-> dirty[o] /\ o \notin spilled]
        /\ UNCHANGED <<code, automatic, cursor, initialized, modulus, loading, context, status>>
    BY DEF Evict
  <2>2. home' = [o \in Objects |-> home'[o]] /\ dirty' \in [Objects -> BOOLEAN]
    BY <2>1
  <2>3. \A o \in Objects : home'[o] # None => Len(home'[o]) = Shape[o].width
    BY <2>1, SpillLength DEF IInv, Types
  <2>4. ddr' = [cell \in ImageCells \cup SpillCells |-> ddr'[cell]]
    <3>1. DOMAIN ddr = ImageCells \cup SpillCells
      BY DEF IInv, Types
    <3> QED
      BY <3>1 DEF Evict
  <2> QED
    BY <2>1, <2>2, <2>3, <2>4 DEF IInv, Types
<1>2. Sound(slot', layout', regs')
  <2>1. /\ slot' = [o \in Objects |-> slot'[o]]
        /\ \A o \in Objects : slot'[o] = IF o \in victims THEN None ELSE slot[o]
        /\ layout' = [s \in Slots |-> layout'[s]]
        /\ \A s \in Slots : layout'[s] = IF s \in freed THEN None ELSE layout[s]
        /\ regs' = [s \in Slots |-> regs'[s]]
        /\ \A s \in Slots : regs'[s] = IF s \in freed THEN None ELSE regs[s]
    BY DEF Evict
  <2>2. \A o \in Objects : o \in victims /\ slot[o] # None => slot[o] \in freed
    OBVIOUS
  <2>3. Sound(slot, layout, regs)
    BY DEF IInv
  <2> HIDE DEF freed
  <2> QED
    BY <2>1, <2>2, <2>3, ClearSound
<1> QED
  BY <1>1, <1>2 DEF IInv

\* The frees at the end of an instruction.
LEMMA CompleteSound ==
    ASSUME NEW where, NEW what, NEW contents, Sound(where, what, contents),
           NEW freed, Complete(freed, where, what, contents)
    PROVE  Sound(slot', layout', regs')
<1> DEFINE gone == freed \cup Dead(where)
           slots == {where[o] : o \in gone} \ {None}
<1>1. /\ slot' = [o \in Objects |-> slot'[o]]
      /\ \A o \in Objects : slot'[o] = IF o \in gone THEN None ELSE where[o]
      /\ layout' = [s \in Slots |-> layout'[s]]
      /\ \A s \in Slots : layout'[s] = IF s \in slots THEN None ELSE what[s]
      /\ regs' = [s \in Slots |-> regs'[s]]
      /\ \A s \in Slots : regs'[s] = IF s \in slots THEN None ELSE contents[s]
  BY DEF Complete
<1>2. \A o \in Objects : o \in gone /\ where[o] # None => where[o] \in slots
  OBVIOUS
<1> HIDE DEF gone, slots
<1> QED
  BY <1>1, <1>2, ClearSound

LEMMA CompleteTypes ==
    ASSUME Types, Running, NEW freed, NEW where, NEW what, NEW contents,
           Complete(freed, where, what, contents)
    PROVE  /\ code' = code /\ automatic' = automatic /\ status' = status
           /\ cursor' = cursor + 1 /\ cursor' \in 1 .. Len(code') + 1
<1>1. cursor \in 1 .. Len(code) /\ cursor' = cursor + 1 /\ code' = code /\ automatic' = automatic
      /\ status' = status
  BY CurrentInstruction DEF Complete
<1> QED
  BY <1>1 DEF Types

\* An instruction that leaves the chip alone until its operands are freed.
LEMMA PassStep ==
    ASSUME IInv, Running, NEW freed, Complete(freed, slot, layout, regs),
           home' = [o \in Objects |-> home'[o]],
           \A o \in Objects : home'[o] # None => Len(home'[o]) = Shape[o].width,
           dirty' \in [Objects -> BOOLEAN], initialized' \in [Objects -> BOOLEAN],
           modulus' \in Objects \cup {None}, loading' \in BOOLEAN,
           ddr' = [cell \in ImageCells \cup SpillCells |-> ddr'[cell]]
    PROVE  IInv'
<1>1. PICK where, what, contents : where = slot /\ what = layout /\ contents = regs
  OBVIOUS
<1>2. Sound(where, what, contents) /\ Complete(freed, where, what, contents)
  BY <1>1 DEF IInv
<1>3. Sound(slot', layout', regs')
  BY <1>2, CompleteSound
<1>4. /\ code' = code /\ automatic' = automatic /\ status' = status
      /\ cursor' \in 1 .. Len(code') + 1
  BY <1>2, CompleteTypes DEF IInv
<1>5. Types'
  BY <1>4 DEF IInv, Types
<1> QED
  BY <1>3, <1>5 DEF IInv

LEMMA StartLoadStep ==
    ASSUME IInv, StartLoad
    PROVE  IInv'
<1> DEFINE id == Current.def
<1>1. Running /\ Current.op = "load"
  BY DEF StartLoad
<1>2. id \in Objects /\ Len(Current.range) = Shape[id].width
  BY <1>1, CurrentInstruction, InstructionFields DEF IInv
<1>3. /\ home' = [home EXCEPT ![id] = Current.range] /\ initialized' = [initialized EXCEPT ![id] = TRUE]
      /\ dirty' = [dirty EXCEPT ![id] = FALSE] /\ modulus' = IF Shape[id].type = 1 THEN id ELSE modulus
      /\ UNCHANGED <<ddr, context>>
  BY DEF StartLoad
<1> HIDE DEF id
<1>4. /\ home' = [o \in Objects |-> home'[o]]
      /\ \A o \in Objects : home'[o] = IF o = id THEN Current.range ELSE home[o]
  BY <1>3 DEF IInv, Types
<1>5. \A o \in Objects : home'[o] # None => Len(home'[o]) = Shape[o].width
  BY <1>2, <1>4 DEF IInv, Types
<1>6. /\ dirty' \in [Objects -> BOOLEAN] /\ initialized' \in [Objects -> BOOLEAN]
      /\ modulus' \in Objects \cup {None} /\ ddr' = [cell \in ImageCells \cup SpillCells |-> ddr'[cell]]
  BY <1>2, <1>3 DEF IInv, Types
<1>7. CASE Lazy
  <2>1. Complete({}, slot, layout, regs) /\ loading' = loading
    BY <1>7 DEF StartLoad
  <2>2. loading' \in BOOLEAN
    BY <2>1 DEF IInv, Types
  <2> QED
    BY <1>1, <1>4, <1>5, <1>6, <2>1, <2>2, PassStep
<1>8. CASE ~ Lazy
  <2>1. /\ loading' = TRUE /\ slot' = [slot EXCEPT ![id] = None]
        /\ layout' = [s \in Slots |-> IF s = slot[id] THEN None ELSE layout[s]]
        /\ regs' = [s \in Slots |-> IF s = slot[id] THEN None ELSE regs[s]]
        /\ UNCHANGED <<code, automatic, cursor, status>>
    BY <1>8 DEF StartLoad, id
  <2>2. Types'
    BY <1>4, <1>5, <1>6, <2>1 DEF IInv, Types
  <2> DEFINE freed == {slot[id]}
             gone == {id}
  <2>3. /\ slot' = [o \in Objects |-> slot'[o]]
        /\ \A o \in Objects : slot'[o] = IF o \in gone THEN None ELSE slot[o]
        /\ layout' = [s \in Slots |-> layout'[s]]
        /\ \A s \in Slots : layout'[s] = IF s \in freed THEN None ELSE layout[s]
        /\ regs' = [s \in Slots |-> regs'[s]]
        /\ \A s \in Slots : regs'[s] = IF s \in freed THEN None ELSE regs[s]
    BY <2>1 DEF IInv, Sound, Slotted
  <2>4. \A o \in Objects : o \in gone /\ slot[o] # None => slot[o] \in freed
    OBVIOUS
  <2>5. Sound(slot, layout, regs)
    BY DEF IInv
  <2> HIDE DEF freed, gone
  <2>6. Sound(slot', layout', regs')
    BY <2>3, <2>4, <2>5, ClearSound
  <2> QED
    BY <2>2, <2>6 DEF IInv
<1> QED
  BY <1>7, <1>8

\* Placement.
LEMMA TakeSlotStep ==
    ASSUME IInv, NEW o \in Objects, slot[o] = None, FreeSlots # {},
           slot' = [slot EXCEPT ![o] = ChosenSlot(o)],
           UNCHANGED <<code, automatic, cursor, home, dirty, initialized, modulus, layout, loading,
                       regs, ddr, context, status>>
    PROVE  IInv'
<1>0. FreeSlots \in SUBSET Slots
  BY DEF FreeSlots
<1>1. FreeSlots \in SUBSET Nat /\ FreeSlots \in SUBSET Slots
  BY <1>0, SlotsAssumption
<1>2. Smallest(FreeSlots) \in FreeSlots
  BY <1>1, SmallestInSet
<1>3. PICK s : s = ChosenSlot(o)
  OBVIOUS
<1>4. s \in FreeSlots /\ s \in Slots
  BY <1>1, <1>2, <1>3 DEF ChosenSlot
<1>5. \A q \in Objects : slot[q] # s
  BY <1>4, NoneApart DEF FreeSlots, Resident
<1>6. slot' = [slot EXCEPT ![o] = s] /\ layout' = layout /\ regs' = regs
  BY <1>3
<1>7. PICK where, what, contents : where = slot /\ what = layout /\ contents = regs
  OBVIOUS
<1>8. Sound(slot', layout, regs)
  <2>1. /\ Sound(where, what, contents) /\ where[o] = None /\ \A q \in Objects : where[q] # s
        /\ slot' = [where EXCEPT ![o] = s]
    BY <1>5, <1>6, <1>7 DEF IInv
  <2>2. Sound(slot', what, contents)
    BY <1>4, <2>1, TakeSound
  <2> QED
    BY <1>7, <2>2
<1>9. Types'
  BY DEF IInv, Types
<1> QED
  BY <1>6, <1>8, <1>9 DEF IInv

LEMMA FillStep ==
    ASSUME NoneIsNoFunction, IInv, NEW o \in ToPlace, Fill(o)
    PROVE  IInv'
<1>1. o \in Objects
  BY ToPlaceTyped DEF IInv
<1>2. /\ OtherTables(o) = {} /\ slot[o] # None /\ LoadAnswer(o, layout).outcome = "ok"
      /\ layout' = [layout EXCEPT ![slot[o]] = LoadAnswer(o, layout).region]
      /\ regs' = [regs EXCEPT ![slot[o]] = Read(ddr, home[o])]
      /\ UNCHANGED <<code, automatic, cursor, slot, home, dirty, initialized, modulus, loading,
                     ddr, context, status>>
  BY DEF Fill
<1>3. PICK s \in Slots : s = slot[o]
  BY <1>1, <1>2 DEF IInv, Sound, Slotted
<1>4. PICK region, value : region = LoadAnswer(o, layout).region /\ value = Read(ddr, home[o])
  OBVIOUS
<1>5. /\ Shape[o].lines \in Nat /\ Shape[o].type \in {0, 1} /\ Shape[o].mask \in SUBSET (0 .. 5)
  BY <1>1, Shapes
<1>6. Suits(LoadAnswer(o, layout), Shape[o].lines, Shape[o].type)
  <2>1. PICK what : what = layout
    OBVIOUS
  <2>2. LoadAnswer(o, layout) = LoadRequest(what, s, Shape[o].lines, Shape[o].type, Shape[o].mask)
    BY <1>3, <2>1 DEF LoadAnswer
  <2> QED
    BY <1>3, <1>5, <2>2, LoadSuits
<1>7. region \in Allocation /\ region.lines = Shape[o].lines /\ region.type = Shape[o].type
  BY <1>2, <1>4, <1>6 DEF Suits
<1>8. value # None
  BY <1>4 DEF Read, NoneIsNoFunction
<1>9. layout' = [layout EXCEPT ![s] = region] /\ regs' = [regs EXCEPT ![s] = value] /\ slot' = slot
  BY <1>2, <1>3, <1>4
<1>10. Shape[o].type = 1 => \A q \in Objects \ {o} : slot[q] # None => Shape[q].type # 1
  BY <1>2 DEF OtherTables, Resident
<1>11. PICK where : where = slot
  OBVIOUS
<1>12. PICK what, contents : what = layout /\ contents = regs
  OBVIOUS
<1>13. Sound(where, what, contents)
  BY <1>11, <1>12 DEF IInv
<1>14. Slotted(where) /\ where[o] = s /\ where[o] \in {s, None}
  BY <1>3, <1>11, <1>13 DEF Sound
<1>15. \A q \in Objects \ {o} : where[q] # s
  BY <1>1, <1>3, <1>13, <1>14, NoneApart DEF Sound, Apart
<1>16. layout' = [what EXCEPT ![s] = region] /\ regs' = [contents EXCEPT ![s] = value]
  BY <1>9, <1>12
<1>17. Shape[o].type = 1 => \A q \in Objects \ {o} : where[q] # None => Shape[q].type # 1
  BY <1>10, <1>11
<1>18. Put(where, what, contents, o, s, region, value, where, layout', regs')
  BY <1>1, <1>3, <1>7, <1>8, <1>14, <1>15, <1>16, <1>17 DEF Put
<1>19. Sound(where, layout', regs')
  BY <1>13, <1>18, PlaceSound
<1>20. Types'
  BY <1>2 DEF IInv, Types
<1> QED
  BY <1>9, <1>11, <1>19, <1>20 DEF IInv

LEMMA WrittenDomain ==
    ASSUME NEW contents, NEW S, contents = [cell \in S |-> contents[cell]], NEW range, NEW value,
           NEW result, result = Written(contents, range, value)
    PROVE  result = [cell \in S |-> result[cell]]
<1>1. DOMAIN contents = S
  OBVIOUS
<1> QED
  BY <1>1 DEF Written

LEMMA YieldStep ==
    ASSUME IInv, NEW o \in ToPlace, YieldPlace(o)
    PROVE  IInv'
<1> DEFINE id == Current.sources[1]
<1>1. /\ Running /\ o \in Objects /\ ~ OnChip(o)
  BY ToPlaceTyped DEF IInv
<1>2. Current.op = "store" /\ o # id /\ slot[id] # None
  BY DEF YieldPlace, Yields
<1>3. id \in Objects
  BY <1>1, <1>2, CurrentInstruction, InstructionFields DEF IInv
<1>4. /\ slot' = [slot EXCEPT ![o] = None, ![id] = None]
      /\ layout' = [layout EXCEPT ![slot[id]] = None]
      /\ regs' = [regs EXCEPT ![slot[id]] = None]
      /\ home' = [home EXCEPT ![id] = IF dirty[id] THEN SpillRange(id) ELSE @]
      /\ dirty' = [dirty EXCEPT ![id] = FALSE]
      /\ ddr' = IF dirty[id] THEN Written(ddr, SpillRange(id), regs[slot[id]]) ELSE ddr
      /\ UNCHANGED <<code, automatic, cursor, initialized, modulus, loading, context, status>>
  BY DEF YieldPlace
<1> HIDE DEF id
<1>5. Types'
  <2>1. /\ home' = [p \in Objects |-> home'[p]] /\ dirty' \in [Objects -> BOOLEAN]
        /\ \A p \in Objects : home'[p] = home[p] \/ (p = id /\ home'[p] = SpillRange(id))
    BY <1>3, <1>4 DEF IInv, Types
  <2>2. \A p \in Objects : home'[p] # None => Len(home'[p]) = Shape[p].width
    BY <1>3, <2>1, SpillLength DEF IInv, Types
  <2>3. ddr' = [cell \in ImageCells \cup SpillCells |-> ddr'[cell]]
    <3>1. ddr = [cell \in ImageCells \cup SpillCells |-> ddr[cell]]
      BY DEF IInv, Types
    <3>2. PICK before, after : before = ddr /\ after = ddr'
      OBVIOUS
    <3>3. PICK range, value : range = SpillRange(id) /\ value = regs[slot[id]]
      OBVIOUS
    <3>4. CASE dirty[id]
      <4>1. after = Written(before, range, value) /\ before = [cell \in ImageCells \cup SpillCells |-> before[cell]]
        BY <1>4, <3>1, <3>2, <3>3, <3>4
      <4>2. after = [cell \in ImageCells \cup SpillCells |-> after[cell]]
        BY <4>1, WrittenDomain
      <4> QED
        BY <3>2, <4>2
    <3>5. CASE ~ dirty[id]
      BY <1>4, <3>1, <3>5
    <3> QED
      BY <3>4, <3>5
  <2> QED
    BY <1>4, <2>1, <2>2, <2>3 DEF IInv, Types
<1>6. slot[id] \in Slots
  BY <1>2, <1>3 DEF IInv, Sound, Slotted
<1> DEFINE gone == {o, id}
           freed == {slot[o], slot[id]} \ {None}
<1>7. slot[o] \in Slots => layout[slot[o]] = None /\ regs[slot[o]] = None
  BY <1>1, NoneApart DEF OnChip, IInv, Sound, Filled
<1>8. /\ slot' = [p \in Objects |-> slot'[p]]
      /\ \A p \in Objects : slot'[p] = IF p \in gone THEN None ELSE slot[p]
  BY <1>1, <1>3, <1>4 DEF IInv, Sound, Slotted
<1>9. /\ layout' = [s \in Slots |-> layout'[s]]
      /\ \A s \in Slots : layout'[s] = IF s \in freed THEN None ELSE layout[s]
  BY <1>4, <1>6, <1>7, NoneApart DEF IInv, Sound, Layout
<1>10. /\ regs' = [s \in Slots |-> regs'[s]]
       /\ \A s \in Slots : regs'[s] = IF s \in freed THEN None ELSE regs[s]
  BY <1>4, <1>6, <1>7, NoneApart DEF IInv, Sound
<1>11. \A p \in Objects : p \in gone /\ slot[p] # None => slot[p] \in freed
  OBVIOUS
<1>12. Sound(slot, layout, regs)
  BY DEF IInv
<1> HIDE DEF gone, freed
<1>13. Sound(slot', layout', regs')
  BY <1>8, <1>9, <1>10, <1>11, <1>12, ClearSound
<1> QED
  BY <1>5, <1>13 DEF IInv

\* The exceptions and the end of run().
LEMMA RaiseStep ==
    ASSUME IInv, NEW what \in {"done", "capacity", "invalid", "logic_error"}, RaiseError(what)
    PROVE  IInv'
<1>1. /\ status' = what
      /\ UNCHANGED <<code, automatic, cursor, slot, home, dirty, initialized, modulus, layout,
                     loading, regs, ddr, context>>
  BY DEF RaiseError
<1>2. Types'
  BY <1>1 DEF IInv, Types
<1>3. Sound(slot', layout', regs')
  BY <1>1 DEF IInv
<1> QED
  BY <1>2, <1>3 DEF IInv

LEMMA PlaceStep ==
    ASSUME NoneIsNoFunction, IInv, Place
    PROVE  IInv'
<1>1. PICK o \in ToPlace :
        \/ NoDefinition(o) \/ EvictTable(o)
        \/ EvictForSlot(o) \/ TakeSlot(o)
        \/ EvictForLoad(o) \/ Fill(o)
        \/ YieldPlace(o) \/ CapacityError(o) \/ InvalidLoad(o)
  BY DEF Place
<1>2. o \in Objects
  BY ToPlaceTyped DEF IInv
<1>3. CASE NoDefinition(o) \/ CapacityError(o) \/ InvalidLoad(o)
  BY <1>3, RaiseStep DEF NoDefinition, CapacityError, InvalidLoad
<1>4. CASE EvictTable(o)
  BY <1>4, EvictStep DEF EvictTable
<1>5. CASE EvictForSlot(o)
  BY <1>5, EvictStep DEF EvictForSlot
<1>6. CASE EvictForLoad(o)
  BY <1>6, EvictStep DEF EvictForLoad
<1>7. CASE TakeSlot(o)
  BY <1>2, <1>7, TakeSlotStep DEF TakeSlot
<1>8. CASE Fill(o)
  BY <1>8, FillStep
<1>9. CASE YieldPlace(o)
  BY <1>9, YieldStep
<1> QED
  BY <1>1, <1>3, <1>4, <1>5, <1>6, <1>7, <1>8, <1>9

LEMMA FreezeStep ==
    ASSUME IInv, Freeze
    PROVE  IInv'
<1>1. PICK o \in Objects :
        /\ dirty' = [dirty EXCEPT ![o] = TRUE] /\ home' = [home EXCEPT ![o] = None]
        /\ UNCHANGED <<code, automatic, cursor, slot, initialized, modulus, layout, loading,
                       regs, ddr, context, status>>
  BY FreezeObject DEF Freeze
<1>2. home' = [p \in Objects |-> home'[p]] /\ \A p \in Objects : home'[p] # None => home'[p] = home[p]
  BY <1>1 DEF IInv, Types
<1>3. Types'
  BY <1>1, <1>2 DEF IInv, Types
<1>4. Sound(slot', layout', regs')
  BY <1>1 DEF IInv
<1> QED
  BY <1>3, <1>4 DEF IInv

LEMMA StoreStep ==
    ASSUME IInv, Store
    PROVE  IInv'
<1> DEFINE id == Current.sources[1]
<1>1. Running /\ Current.op = "store"
  BY DEF Store, Executes
<1>2. id \in Objects /\ Len(Current.range) = Shape[id].width
  BY <1>1, CurrentInstruction, InstructionFields DEF IInv
<1>3. PICK freed : Complete(freed, slot, layout, regs)
  BY DEF Store
<1>4. /\ home' = [home EXCEPT ![id] = Current.range] /\ dirty' = [dirty EXCEPT ![id] = FALSE]
      /\ ddr' = Written(ddr, Current.range, regs[slot[id]])
      /\ UNCHANGED <<modulus, initialized, loading, context>>
  BY DEF Store
<1> HIDE DEF id
<1>5. /\ home' = [o \in Objects |-> home'[o]]
      /\ \A o \in Objects : home'[o] = IF o = id THEN Current.range ELSE home[o]
  BY <1>4 DEF IInv, Types
<1>6. \A o \in Objects : home'[o] # None => Len(home'[o]) = Shape[o].width
  BY <1>2, <1>5 DEF IInv, Types
<1>7. ddr' = [cell \in ImageCells \cup SpillCells |-> ddr'[cell]]
  <2>1. PICK before, after, range, value :
          before = ddr /\ after = ddr' /\ range = Current.range /\ value = regs[slot[id]]
    OBVIOUS
  <2>2. after = Written(before, range, value) /\ before = [cell \in ImageCells \cup SpillCells |-> before[cell]]
    BY <1>4, <2>1 DEF IInv, Types
  <2>3. after = [cell \in ImageCells \cup SpillCells |-> after[cell]]
    BY <2>2, WrittenDomain
  <2> QED
    BY <2>1, <2>3
<1>8. /\ dirty' \in [Objects -> BOOLEAN] /\ initialized' \in [Objects -> BOOLEAN]
      /\ modulus' \in Objects \cup {None} /\ loading' \in BOOLEAN
  BY <1>2, <1>4 DEF IInv, Types
<1> QED
  BY <1>1, <1>3, <1>5, <1>6, <1>7, <1>8, PassStep

\* The other instructions that leave all state of the objects alone.
LEMMA OtherStep ==
    ASSUME IInv, EndLoad \/ DeferStore \/ Free \/ LoadModulus \/ Sync
    PROVE  IInv'
<1>1. Running
  BY DEF EndLoad, DeferStore, Free, LoadModulus, Sync, Executes
<1>2. PICK freed : Complete(freed, slot, layout, regs)
  BY DEF EndLoad, DeferStore, Free, LoadModulus, Sync
<1>3. /\ UNCHANGED <<modulus, home, initialized, dirty, ddr>>
      /\ loading' = loading \/ loading' = FALSE
  BY DEF EndLoad, DeferStore, Free, LoadModulus, Sync
<1>4. /\ home' = [o \in Objects |-> home'[o]]
      /\ \A o \in Objects : home'[o] # None => Len(home'[o]) = Shape[o].width
      /\ dirty' \in [Objects -> BOOLEAN] /\ initialized' \in [Objects -> BOOLEAN]
      /\ modulus' \in Objects \cup {None} /\ loading' \in BOOLEAN
      /\ ddr' = [cell \in ImageCells \cup SpillCells |-> ddr'[cell]]
  BY <1>3 DEF IInv, Types
<1> QED
  BY <1>1, <1>2, <1>4, PassStep

-----------------------------------------------------------------------------
(* Kernels.                                                                *)

\* All that a kernel reads is on chip, and where.
LEMMA KernelOperands ==
    ASSUME IInv, KernelReady
    PROVE  /\ Running /\ IsKernel(Current) /\ Current \in VirtualInstructions
           /\ Current.def \in Objects /\ Current.sources \in Seq(Objects) /\ Current.sources # << >>
           /\ \A k \in DOMAIN Current.sources :
                /\ Current.sources[k] \in Objects /\ slot[Current.sources[k]] \in Slots
                /\ layout[slot[Current.sources[k]]] # None
           /\ Current.op = "mac" => slot[Current.def] \in Slots /\ layout[slot[Current.def]] # None
<1>1. Running /\ IsKernel(Current) /\ Target = None
  BY DEF KernelReady
<1>2. Current \in VirtualInstructions
  BY <1>1, CurrentInstruction DEF IInv
<1>3. Current.def \in Objects /\ Current.sources \in Seq(Objects) /\ Current.sources # << >>
  BY <1>1, <1>2, InstructionFields
<1>4. FirstMissing(KernelReads) = None
  BY <1>1, TargetKernel
<1>5. /\ KernelReads \in Seq(Objects)
      /\ \A k \in DOMAIN Current.sources : k \in DOMAIN KernelReads /\ KernelReads[k] = Current.sources[k]
      /\ Current.op = "mac" => \E k \in DOMAIN KernelReads : KernelReads[k] = Current.def
  BY <1>1, ReadsTyped DEF IInv
<1>6. \A k \in DOMAIN KernelReads : OnChip(KernelReads[k])
  BY <1>4, <1>5, NothingMissing
<1>7. \A o \in Objects : OnChip(o) => slot[o] \in Slots /\ layout[slot[o]] # None
  BY DEF OnChip, IInv, Sound, Slotted
<1>8. \A k \in DOMAIN Current.sources : Current.sources[k] \in Objects /\ OnChip(Current.sources[k])
  BY <1>3, <1>5, <1>6
<1>9. Current.op = "mac" => OnChip(Current.def)
  BY <1>5, <1>6
<1> QED
  BY <1>1, <1>2, <1>3, <1>7, <1>8, <1>9

\* The slots of the sources.
LEMMA SourceSlotsTyped ==
    ASSUME IInv, KernelReady
    PROVE  /\ SourceSlots \in Seq(Slots) /\ SourceSlots # << >> /\ SourceSlots[1] \in Slots
           /\ DOMAIN SourceSlots = DOMAIN Current.sources
           /\ \A k \in DOMAIN Current.sources : SourceSlots[k] = slot[Current.sources[k]]
<1>1. PICK sources : sources = Current.sources
  OBVIOUS
<1>2. sources \in Seq(Objects) /\ sources # << >>
  BY <1>1, KernelOperands
<1>3. SourceSlots = [k \in 1 .. Len(sources) |-> slot[sources[k]]]
  BY <1>1, <1>2 DEF SourceSlots
<1>4. \A k \in 1 .. Len(sources) : slot[sources[k]] \in Slots
  BY <1>1, <1>2, KernelOperands
<1>5. Len(sources) \in Nat /\ Len(sources) # 0 /\ DOMAIN sources = 1 .. Len(sources)
  BY <1>2
<1>6. SourceSlots \in Seq(Slots) /\ Len(SourceSlots) = Len(sources)
  BY <1>3, <1>4, <1>5
<1> QED
  BY <1>1, <1>3, <1>4, <1>5, <1>6

\* The slot that the result goes to.
LEMMA Destination ==
    ASSUME IInv, KernelReady, DestinationSlot # None
    PROVE  /\ DestinationSlot \in Slots
           /\ Transfers => /\ Donor \in Objects /\ DestinationSlot = slot[Donor]
                           /\ Current.def \in Objects /\ slot[Current.def] = None
                           /\ Current.op \in {"arith", "online"}
           /\ ~ Transfers => DestinationSlot = slot[Current.def]
<1>1. CASE Transfers
  <2>1. Transferable # {} /\ Transferable \in SUBSET Nat
    BY <1>1, KernelOperands DEF Transfers, Transferable
  <2>2. Smallest(Transferable) \in Transferable
    BY <2>1, SmallestInSet
  <2>3. Smallest(Transferable) \in DOMAIN Current.sources
    BY <2>2 DEF Transferable
  <2>4. Donor \in Objects /\ slot[Donor] \in Slots
    BY <2>3, KernelOperands DEF Donor
  <2> QED
    BY <1>1, <2>4, KernelOperands DEF DestinationSlot, Transfers
<1>2. CASE ~ Transfers
  <2>1. DestinationSlot = slot[Current.def]
    BY <1>2 DEF DestinationSlot
  <2> QED
    BY <1>2, <2>1, KernelOperands DEF IInv, Sound, Slotted
<1> QED
  BY <1>1, <1>2

LEMMA AnswerStage ==
    ASSUME Current.op = "stage"
    PROVE  \A where : KernelAnswer(where) = NttRequest(where, DestinationSlot)
<1>1. Current.op # "online"
  OBVIOUS
<1> QED
  BY <1>1, Zenon DEF KernelAnswer

LEMMA AnswerOnline ==
    ASSUME Current.op = "online"
    PROVE  \A where : KernelAnswer(where) =
              OnlineMultiplyRequest(where, DestinationSlot, SourceSlots[1], SourceSlots[2])
<1>1. Current.op # "stage"
  OBVIOUS
<1> QED
  BY <1>1, Zenon DEF KernelAnswer

LEMMA AnswerOther ==
    ASSUME Current.op # "online", Current.op # "stage"
    PROVE  \A where : KernelAnswer(where) =
              ArithmeticRequest(where, DestinationSlot, SourceSlots, Current.op = "mac")
BY Zenon DEF KernelAnswer

\* Whatever the kernel, its result has the shape of its object.
LEMMA ResultShape ==
    ASSUME IInv, KernelReady, DestinationSlot # None, KernelAnswer(layout).outcome = "ok"
    PROVE  /\ KernelAnswer(layout).region \in Allocation
           /\ KernelAnswer(layout).region.lines = Shape[Current.def].lines
           /\ KernelAnswer(layout).region.type = 0 /\ Shape[Current.def].type = 0
<1>1. PICK where, what, contents : where = slot /\ what = layout /\ contents = regs
  OBVIOUS
<1>2. Sound(where, what, contents) /\ what \in Layout
  BY <1>1 DEF IInv, Sound
<1>3. PICK dst \in Slots : dst = DestinationSlot
  BY Destination
<1>4. PICK sources : sources = SourceSlots
  OBVIOUS
<1>5. PICK answer : answer = KernelAnswer(layout)
  OBVIOUS
<1>6. PICK i : i = Current
  OBVIOUS
<1>7. answer.outcome = "ok"
  BY <1>5
<1>8. /\ sources \in Seq(Slots) /\ sources # << >> /\ sources[1] \in Slots /\ sources[1] = where[i.sources[1]]
  BY <1>1, <1>4, <1>6, SourceSlotsTyped, KernelOperands
<1>9. /\ i.def \in Objects /\ i.sources[1] \in Objects /\ IsKernel(i)
      /\ where[i.sources[1]] # None /\ what[where[i.sources[1]]] # None
  BY <1>1, <1>6, KernelOperands, NoneApart
<1>10. /\ what[sources[1]].lines = Shape[i.sources[1]].lines
       /\ what[sources[1]].type = Shape[i.sources[1]].type
  BY <1>2, <1>8, <1>9, OwnRegion
<1>11. CASE i.op = "stage"
  <2>1. answer = NttRequest(what, dst)
    BY <1>1, <1>3, <1>5, <1>6, <1>11, AnswerStage
  <2>2. what[dst] # None /\ what[dst].type = 0 /\ Suits(answer, what[dst].lines, 0)
    BY <1>2, <1>7, <2>1, NttSuits
  <2>3. dst = where[i.def]
    BY <1>1, <1>3, <1>6, <1>11, Destination
  <2>4. where[i.def] # None /\ what[where[i.def]] # None
    BY <2>2, <2>3, NoneApart
  <2>5. what[dst].lines = Shape[i.def].lines /\ what[dst].type = Shape[i.def].type
    BY <1>2, <1>9, <2>3, <2>4, OwnRegion
  <2> QED
    BY <1>5, <1>6, <1>7, <2>2, <2>5 DEF Suits
<1>12. CASE i.op = "mac"
  <2>1. answer = ArithmeticRequest(what, dst, sources, TRUE)
    BY <1>1, <1>3, <1>4, <1>5, <1>6, <1>12, AnswerOther
  <2>2. /\ Suits(answer, what[sources[1]].lines, 0)
        /\ what[dst] # None /\ what[dst].type = 0 /\ what[dst].lines = what[sources[1]].lines
    <3>1. PICK accumulate \in BOOLEAN : accumulate = TRUE
      OBVIOUS
    <3>2. answer = ArithmeticRequest(what, dst, sources, accumulate)
      BY <2>1, <3>1
    <3>3. /\ Suits(answer, what[sources[1]].lines, 0)
          /\ accumulate => /\ what[dst] # None /\ what[dst].type = 0
                            /\ what[dst].lines = what[sources[1]].lines
      BY <1>2, <1>7, <1>8, <3>2, ArithmeticSuits
    <3> QED
      BY <3>1, <3>3
  <2>3. dst = where[i.def]
    BY <1>1, <1>3, <1>6, <1>12, Destination
  <2>4. where[i.def] # None /\ what[where[i.def]] # None
    BY <2>2, <2>3, NoneApart
  <2>5. what[dst].lines = Shape[i.def].lines /\ what[dst].type = Shape[i.def].type
    BY <1>2, <1>9, <2>3, <2>4, OwnRegion
  <2> QED
    BY <1>5, <1>6, <1>7, <2>2, <2>5 DEF Suits
<1>13. CASE i.op \in {"arith", "online"}
  <2>1. answer.outcome = "ok" /\ \E list \in Seq(Slots) :
          /\ list # << >> /\ list[1] = sources[1]
          /\ answer = ArithmeticRequest(what, dst, list, FALSE)
    <3>1. CASE i.op = "arith"
      <4>1. answer = ArithmeticRequest(what, dst, sources, FALSE)
        BY <1>1, <1>3, <1>4, <1>5, <1>6, <3>1, AnswerOther
      <4> QED
        BY <1>7, <1>8, <4>1
    <3>2. CASE i.op = "online"
      <4>1. answer = OnlineMultiplyRequest(what, dst, sources[1], sources[2])
        BY <1>1, <1>3, <1>4, <1>5, <1>6, <3>2, AnswerOnline
      <4>2. ~ OnlineMultiplyInvalid(what, dst, sources[1], sources[2])
        BY <1>7, <4>1 DEF OnlineMultiplyRequest, Refused
      <4>3. answer = ArithmeticRequest(what, dst, <<sources[1]>>, FALSE)
        BY <4>1, <4>2 DEF OnlineMultiplyRequest
      <4>4. <<sources[1]>> \in Seq(Slots) /\ <<sources[1]>> # << >> /\ <<sources[1]>>[1] = sources[1]
        BY <1>8
      <4> QED
        BY <1>7, <4>3, <4>4
    <3> QED
      BY <1>13, <3>1, <3>2
  <2>2. PICK list \in Seq(Slots) :
          /\ list # << >> /\ list[1] = sources[1]
          /\ answer = ArithmeticRequest(what, dst, list, FALSE)
    BY <2>1
  <2>3. Suits(answer, what[list[1]].lines, 0) /\ what[list[1]].type = 0
    BY <1>2, <1>7, <2>2, ArithmeticSuits
  <2>4. Shape[i.def].lines = Shape[i.sources[1]].lines /\ Shape[i.def].type = Shape[i.sources[1]].type
    BY <1>6, <1>13, KernelOperands, InstructionFields
  <2> QED
    BY <1>5, <1>6, <1>7, <1>10, <2>2, <2>3, <2>4 DEF Suits
<1> QED
  BY <1>9, <1>11, <1>12, <1>13 DEF IsKernel

\* What a kernel computes, the contents of its operands.
Computed == Result(cursor, Shape[Current.def].width,
                   [k \in DOMAIN KernelReads |-> regs[slot[KernelReads[k]]]], context)

\* The slots, the layout and the registers right after the kernel: the result is
\* in its slot, which a dying source may have handed over.
Executed(where2, what2, contents2) ==
    /\ Sound(where2, what2, contents2) /\ Complete({}, where2, what2, contents2)
    /\ DestinationSlot \in Slots /\ where2[Current.def] = DestinationSlot
    /\ \A q \in Objects \ {Current.def} :
          /\ where2[q] # DestinationSlot
          /\ where2[q] = slot[q] \/ (where2[q] = None /\ Transfers /\ q = Donor)
    /\ \A s \in Slots \ {DestinationSlot} : what2[s] = layout[s] /\ contents2[s] = regs[s]
    /\ what2[DestinationSlot] # None /\ contents2[DestinationSlot] = Computed

LEMMA ExecuteEffect ==
    ASSUME NoneIsNoFunction, IInv, Execute
    PROVE  \E where2, what2, contents2 : Executed(where2, what2, contents2)
<1> DEFINE id == Current.def
           reads == [k \in DOMAIN KernelReads |-> regs[slot[KernelReads[k]]]]
           handed == IF Transfers THEN [slot EXCEPT ![Donor] = None] ELSE slot
<1>1. /\ KernelReady /\ DestinationSlot # None /\ KernelAnswer(layout).outcome = "ok"
      /\ initialized' = [initialized EXCEPT ![id] = TRUE] /\ dirty' = [dirty EXCEPT ![id] = TRUE]
      /\ UNCHANGED <<modulus, home, loading, ddr, context>>
      /\ Complete({}, [handed EXCEPT ![id] = DestinationSlot],
                  [layout EXCEPT ![DestinationSlot] = KernelAnswer(layout).region],
                  [regs EXCEPT ![DestinationSlot] = Result(cursor, Shape[id].width, reads, context)])
  BY DEF Execute
<1>2. Running /\ id \in Objects
  BY <1>1, KernelOperands
<1>3. PICK s \in Slots : s = DestinationSlot
  BY <1>1, Destination
<1>4. PICK region : region = KernelAnswer(layout).region
  OBVIOUS
<1>5. region \in Allocation /\ region.lines = Shape[id].lines /\ region.type = 0 /\ Shape[id].type = 0
  BY <1>1, <1>4, ResultShape
<1>6. PICK value : value = Result(cursor, Shape[id].width, reads, context) /\ value = Computed
  BY DEF Computed
<1>7. value # None
  BY <1>6 DEF Result, NoneIsNoFunction
<1>8. PICK where : where = slot
  OBVIOUS
<1>9. PICK what, contents : what = layout /\ contents = regs
  OBVIOUS
<1>10. Sound(where, what, contents)
  BY <1>8, <1>9 DEF IInv
<1>11. PICK where2 : where2 = [handed EXCEPT ![id] = DestinationSlot]
  OBVIOUS
<1>12. PICK what2, contents2 : what2 = [what EXCEPT ![s] = region] /\ contents2 = [contents EXCEPT ![s] = value]
  OBVIOUS
<1>13. Complete({}, where2, what2, contents2)
  BY <1>1, <1>3, <1>4, <1>6, <1>9, <1>11, <1>12
<1>14. /\ Slotted(where2) /\ where2[id] = s /\ where[id] \in {s, None}
       /\ \A q \in Objects \ {id} : where2[q] = where[q] \/ (where2[q] = None /\ where[q] = s)
       /\ \A q \in Objects \ {id} : where2[q] = where[q] \/ (where2[q] = None /\ Transfers /\ q = Donor)
       /\ \A q \in Objects \ {id} : where2[q] # s
  <2>1. CASE Transfers
    <3>1. /\ Donor \in Objects /\ s = where[Donor] /\ where[id] = None
      BY <1>1, <1>3, <1>8, <2>1, Destination
    <3>2. where2 = [o \in Objects |-> IF o = id THEN s ELSE IF o = Donor THEN None ELSE where[o]]
      BY <1>2, <1>3, <1>8, <1>10, <1>11, <2>1, <3>1 DEF Sound, Slotted
    <3>3. \A q \in Objects : q # Donor => where[q] # s
      BY <3>1, <1>10, NoneApart DEF Sound, Apart
    <3>4. \A q \in Objects \ {id} : where2[q] = where[q] \/ (where2[q] = None /\ q = Donor)
      BY <3>1, <3>2
    <3>5. /\ Slotted(where2) /\ where2[id] = s /\ where[id] \in {s, None}
          /\ \A q \in Objects \ {id} : where2[q] = where[q] \/ (where2[q] = None /\ where[q] = s)
          /\ \A q \in Objects \ {id} : where2[q] # s
      BY <1>2, <1>10, <3>1, <3>2, <3>3, NoneApart DEF Sound, Slotted
    <3> QED
      BY <2>1, <3>4, <3>5
  <2>2. CASE ~ Transfers
    <3>1. s = where[id]
      BY <1>1, <1>3, <1>8, <2>2, Destination
    <3>2. where2 = where
      BY <1>2, <1>3, <1>8, <1>10, <1>11, <2>2, <3>1 DEF Sound, Slotted
    <3>3. \A q \in Objects \ {id} : where[q] # s
      BY <1>2, <3>1, <1>10, NoneApart DEF Sound, Apart
    <3> QED
      BY <1>10, <3>1, <3>2, <3>3 DEF Sound
  <2> QED
    BY <2>1, <2>2
<1> HIDE DEF id, reads, handed
<1>15. PICK o \in Objects : o = id
  BY <1>2
<1>16. Sound(where2, what2, contents2)
  <2>1. Put(where, what, contents, o, s, region, value, where2, what2, contents2)
    BY <1>5, <1>7, <1>12, <1>14, <1>15 DEF Put
  <2> QED
    BY <1>10, <2>1, PlaceSound
<1>17. /\ \A r \in Slots \ {s} : what2[r] = what[r] /\ contents2[r] = contents[r]
       /\ what2[s] = region /\ contents2[s] = value
  BY <1>3, <1>10, <1>12 DEF Sound, Layout
<1>18. region # None
  BY <1>5, NoneApart
<1>19. Executed(where2, what2, contents2)
  BY <1>3, <1>6, <1>8, <1>9, <1>13, <1>14, <1>16, <1>17, <1>18 DEF Executed, id
<1> QED
  BY <1>19

LEMMA ExecuteStep ==
    ASSUME NoneIsNoFunction, IInv, Execute
    PROVE  IInv'
<1> DEFINE id == Current.def
<1>1. /\ KernelReady /\ UNCHANGED <<modulus, home, loading, ddr>>
      /\ initialized' = [initialized EXCEPT ![id] = TRUE] /\ dirty' = [dirty EXCEPT ![id] = TRUE]
  BY DEF Execute
<1>2. Running /\ id \in Objects
  BY <1>1, KernelOperands
<1>3. PICK where2, what2, contents2 : Executed(where2, what2, contents2)
  BY ExecuteEffect
<1>4. Sound(where2, what2, contents2) /\ Complete({}, where2, what2, contents2)
  BY <1>3 DEF Executed
<1>5. Sound(slot', layout', regs')
  BY <1>4, CompleteSound
<1>6. /\ code' = code /\ automatic' = automatic /\ status' = status
      /\ cursor' \in 1 .. Len(code') + 1
  BY <1>2, <1>4, CompleteTypes DEF IInv
<1>7. Types'
  BY <1>1, <1>2, <1>6 DEF IInv, Types
<1> QED
  BY <1>5, <1>7 DEF IInv

LEMMA KernelStep ==
    ASSUME NoneIsNoFunction, IInv, Kernel
    PROVE  IInv'
<1>1. CASE EvictForDestinationSlot
  BY <1>1, EvictStep DEF EvictForDestinationSlot
<1>2. CASE TakeDestinationSlot
  <2>1. KernelReady /\ DestinationSlot = None /\ FreeSlots # {}
    BY <1>2 DEF TakeDestinationSlot
  <2>2. Current.def \in Objects
    BY <2>1, KernelOperands
  <2>3. slot[Current.def] = None
    BY <2>1 DEF DestinationSlot, Transfers
  <2> QED
    BY <1>2, <2>1, <2>2, <2>3, TakeSlotStep DEF TakeDestinationSlot
<1>3. CASE EvictForResult
  BY <1>3, EvictStep DEF EvictForResult
<1>4. CASE Execute
  BY <1>4, ExecuteStep
<1>5. CASE KernelCapacityError \/ InvalidKernel
  BY <1>5, RaiseStep DEF KernelCapacityError, InvalidKernel
<1> QED
  BY <1>1, <1>2, <1>3, <1>4, <1>5 DEF Kernel

LEMMA NextIInv ==
    ASSUME NoneIsNoFunction, IInv, [Next]_vars
    PROVE  IInv'
<1>1. CASE StartLoad
  BY <1>1, StartLoadStep
<1>2. CASE EndLoad \/ DeferStore \/ Free \/ LoadModulus \/ Sync
  BY <1>2, OtherStep
<1>3. CASE Freeze
  BY <1>3, FreezeStep
<1>4. CASE Store
  BY <1>4, StoreStep
<1>5. CASE Place
  BY <1>5, PlaceStep
<1>6. CASE Kernel
  BY <1>6, KernelStep
<1>7. CASE Return
  BY <1>7, RaiseStep DEF Return
<1>8. CASE UNCHANGED vars
  <2>1. Types'
    BY <1>8 DEF IInv, Types, vars
  <2>2. Sound(slot', layout', regs')
    BY <1>8 DEF IInv, vars
  <2> QED
    BY <2>1, <2>2 DEF IInv
<1> QED
  BY <1>1, <1>2, <1>3, <1>4, <1>5, <1>6, <1>7, <1>8 DEF Next, Terminated

LEMMA Invariance ==
    ASSUME NoneIsNoFunction
    PROVE  Spec => []IInv
BY InitIInv, NextIInv, PTL DEF Spec

LEMMA IInvConsistent ==
    ASSUME IInv
    PROVE  SlotsConsistent
<1>1. TypeOK
  <2>1. DOMAIN regs = Slots /\ DOMAIN ddr = ImageCells \cup SpillCells
    BY DEF IInv, Types, Sound
  <2> QED
    BY <2>1 DEF IInv, Types, Sound, Slotted, TypeOK
<1>2. \A o, q \in Resident : o # q => slot[o] # slot[q]
  BY DEF IInv, Sound, Apart, Resident
<1>3. \A s \in Slots : (layout[s] = None) = (regs[s] = None)
  BY DEF IInv, Sound, Filled
<1>4. ASSUME NEW s \in Slots, layout[s] # None
      PROVE  \E o \in Resident : slot[o] = s /\ layout[s].lines = Shape[o].lines
  <2>1. PICK o \in Objects : slot[o] = s /\ layout[s].lines = Shape[o].lines
    BY <1>4 DEF IInv, Sound, Owned
  <2> QED
    BY <2>1, NoneApart DEF Resident
<1>5. \A o, q \in {t \in Objects : OnChip(t) /\ Shape[t].type = 1} : o = q
  BY DEF IInv, Sound, OneTable, OnChip
<1> QED
  BY <1>1, <1>2, <1>3, <1>4, <1>5 DEF SlotsConsistent

\* The slots of objects, the allocator's regions and the machine's registers
\* never disagree, whatever is evicted, spilled, handed over, freed or refused.
THEOREM Consistency ==
    ASSUME NoneIsNoFunction
    PROVE  Spec => []SlotsConsistent
BY Invariance, IInvConsistent, PTL

-----------------------------------------------------------------------------
(* Uses and liveness.                                                      *)

\* UseIndex::next finds a use exactly if there is one.
LEMMA NeverUsed ==
    ASSUME Types, NEW o \in Objects
    PROVE  (NextUse(o) = Never) <=> ~ UsedFrom(code, o, cursor + 1)
<1> DEFINE positions == UsePositions(code, o, cursor + 1)
<1>1. Len(code) \in Nat /\ cursor \in Nat
  BY DEF Types
<1>2. positions \in SUBSET (cursor + 1 .. Len(code))
  BY DEF UsePositions
<1>3. CASE positions # {}
  <2>1. positions \in SUBSET Nat
    BY <1>1, <1>2
  <2>2. Smallest(positions) \in positions
    BY <1>3, <2>1, SmallestInSet
  <2>3. Smallest(positions) \in cursor + 1 .. Len(code)
    BY <1>2, <2>2
  <2>4. NextUse(o) = Smallest(positions)
    BY <1>3 DEF NextUse, UsedFrom
  <2> HIDE DEF positions
  <2> QED
    BY <1>1, <1>3, <2>3, <2>4 DEF Never, UsedFrom, positions
<1>4. CASE positions = {}
  BY <1>4 DEF NextUse, UsedFrom
<1> QED
  BY <1>3, <1>4

\* An object is used by the current instruction or later.
LEMMA UsedNow ==
    ASSUME Types, cursor <= Len(code), NEW o
    PROVE  UsedFrom(code, o, cursor) <=> UsedBy(o, Current) \/ UsedFrom(code, o, cursor + 1)
<1>1. Len(code) \in Nat /\ cursor \in Nat
  BY DEF Types
<1>2. \A p : p \in cursor .. Len(code) <=> p = cursor \/ p \in cursor + 1 .. Len(code)
  BY <1>1
<1> QED
  BY <1>2 DEF UsedFrom, UsePositions, Current

LEMMA UsesAreOperands ==
    ASSUME Types, cursor <= Len(code), NEW o \in Objects, UsedBy(o, Current)
    PROVE  o \in Operands /\ Shape[o].type = 0
<1>1. Current \in VirtualInstructions
  BY DEF Types, Current
<1>2. o \in Uses(Current) \/ o = Current.def
  BY DEF UsedBy
<1>3. o \in Operands
  BY <1>2, NoneApart DEF Operands
<1>4. Shape[o].type = 0
  BY <1>1, InstructionRules DEF UsedBy
<1> QED
  BY <1>3, <1>4

-----------------------------------------------------------------------------
(* What is known of each object and its contents.                          *)

\* The contents of an object are still needed; tables are, for PMODLD.
Live(o) == initialized[o] /\ (UsedFrom(code, o, Position) \/ Shape[o].type = 1)

\* Memory that objects have as their home is not written while they need it.
Safe == automatic \/ Undisturbed(code)

LEMMA SafeStays ==
    ASSUME automatic' = automatic, code' = code
    PROVE  Safe' = Safe
BY DEF Safe, Undisturbed, UsedFrom, UsePositions, HomeAt, Recomputed

\* A home is a part of the image or the object's own spill buffer.  A live
\* object is dirty and on chip, or has a home; without stores that nothing
\* guards, the home of a clean object has what the chip has.
Good(o) ==
    /\ home[o] # None => home[o] \in Views \cup {SpillRange(o)}
    /\ Shape[o].type = 1 =>
          ~ dirty[o] /\ (home[o] # None => \A k \in DOMAIN home[o] : home[o][k] \in ReadOnly)
    /\ OnChip(o) =>
          initialized[o] /\ regs[slot[o]] = [k \in 1 .. Shape[o].width |-> regs[slot[o]][k]]
    /\ Live(o) => IF dirty[o] THEN OnChip(o) ELSE home[o] # None
    /\ Safe /\ Live(o) /\ OnChip(o) /\ ~ dirty[o] => regs[slot[o]] = Read(ddr, home[o])

\* What a step does for an object that it does not define.
Carried(o) == Good(o)' /\ (Safe /\ Live(o)' => Denoted(o)' = Denoted(o))

LEMMA StaySame ==
    ASSUME NEW o \in Objects, Types, Good(o), automatic' = automatic, code' = code, Live(o)' => Live(o),
           OnChip(o)' = OnChip(o), OnChip(o) => regs'[slot'[o]] = regs[slot[o]],
           home'[o] = home[o], dirty'[o] = dirty[o], initialized'[o] = initialized[o],
           Safe /\ Live(o)' /\ ~ dirty[o] /\ home[o] # None =>
              Read(ddr', home[o]) = Read(ddr, home[o])
    PROVE  Carried(o)
<1>0. Safe' = Safe
  BY SafeStays
<1> USE DEF Good
<1>1. Good(o)'
  BY <1>0
<1>2. Safe /\ Live(o)' => Denoted(o)' = Denoted(o)
  BY DEF Denoted
<1> QED
  BY <1>1, <1>2 DEF Carried

LEMMA DropClean ==
    ASSUME NEW o \in Objects, Types, Good(o), automatic' = automatic, code' = code,
           Live(o)' => Live(o) /\ ~ dirty[o],
           ~ OnChip(o)', home'[o] = home[o], dirty'[o] = dirty[o],
           Safe /\ Live(o)' => Read(ddr', home[o]) = Read(ddr, home[o])
    PROVE  Carried(o)
<1>0. Safe' = Safe
  BY SafeStays
<1> USE DEF Good
<1>1. Good(o)'
  BY <1>0
<1>2. Safe /\ Live(o)' => Denoted(o)' = Denoted(o)
  BY DEF Denoted
<1> QED
  BY <1>1, <1>2 DEF Carried

\* No range is the absence of one.
LEMMA RangesApart ==
    ASSUME NoneIsNoFunction
    PROVE  None \notin Views /\ \A o : SpillRange(o) # None
<1>1. \A n, f : None # [k \in 1 .. n |-> f[k]]
  BY DEF NoneIsNoFunction
<1>2. ASSUME NEW r \in Views
      PROVE  r # None
  <2>1. r \in Seq(ImageCells)
    BY DEF Views
  <2>2. r = [k \in 1 .. Len(r) |-> r[k]]
    BY <2>1
  <2> QED
    BY <1>1, <2>2
<1>3. ASSUME NEW o
      PROVE  SpillRange(o) # None
  <2>1. SpillRange(o) = [k \in 1 .. Shape[o].width |-> SpillRange(o)[k]]
    BY DEF SpillRange
  <2> QED
    BY <1>1, <2>1
<1> QED
  BY <1>2, <1>3

LEMMA SpillMove ==
    ASSUME NEW o \in Objects, Types, NoneIsNoFunction, Good(o), automatic' = automatic, code' = code,
           OnChip(o), dirty[o], ~ OnChip(o)', home'[o] = SpillRange(o), ~ dirty'[o],
           Read(ddr', SpillRange(o)) = regs[slot[o]]
    PROVE  Carried(o)
<1>0. Safe' = Safe
  BY SafeStays
<1>1. SpillRange(o) # None
  BY RangesApart
<1>2. Good(o)'
  BY <1>0, <1>1 DEF Good
<1>3. Denoted(o)' = Denoted(o)
  BY <1>1 DEF Denoted
<1> QED
  BY <1>2, <1>3 DEF Carried

LEMMA HomeLength ==
    ASSUME NEW o \in Objects, Types, Good(o), home[o] # None
    PROVE  DOMAIN home[o] = 1 .. Shape[o].width
<1>1. Len(home[o]) = Shape[o].width
  BY DEF Types
<1>2. CASE home[o] \in Views
  BY <1>1, <1>2 DEF Views
<1>3. CASE home[o] = SpillRange(o)
  BY <1>3 DEF SpillRange
<1> QED
  BY <1>2, <1>3 DEF Good

LEMMA FillMove ==
    ASSUME NEW o \in Objects, Types, Good(o), automatic' = automatic, code' = code, Live(o)' => Live(o),
           ~ OnChip(o), OnChip(o)', initialized[o], home[o] # None,
           regs'[slot'[o]] = Read(ddr, home[o]), ddr' = ddr,
           home'[o] = home[o], dirty'[o] = dirty[o], initialized'[o] = initialized[o]
    PROVE  Carried(o)
<1>0. Safe' = Safe
  BY SafeStays
<1>1. Read(ddr, home[o]) = [k \in 1 .. Shape[o].width |-> Read(ddr, home[o])[k]]
  BY HomeLength DEF Read
<1> HIDE DEF Read
<1>2. Good(o)'
  BY <1>0, <1>1 DEF Good
<1>3. Denoted(o)' = Denoted(o)
  BY DEF Denoted
<1> QED
  BY <1>2, <1>3 DEF Carried

LEMMA FreezeMove ==
    ASSUME NEW o \in Objects, Good(o), automatic' = automatic, code' = code, Shape[o].type # 1,
           OnChip(o), OnChip(o)', regs'[slot'[o]] = regs[slot[o]],
           home'[o] = None, dirty'[o] = TRUE, initialized'[o] = initialized[o]
    PROVE  Carried(o)
<1>0. Safe' = Safe
  BY SafeStays
<1>1. Good(o)'
  BY <1>0 DEF Good
<1>2. Denoted(o)' = Denoted(o)
  BY DEF Denoted
<1> QED
  BY <1>1, <1>2 DEF Carried

LEMMA StoreMove ==
    ASSUME NEW o \in Objects, NoneIsNoFunction, Good(o), automatic' = automatic, code' = code, Shape[o].type # 1,
           OnChip(o), OnChip(o)' => regs'[slot'[o]] = regs[slot[o]],
           NEW range \in Views, home'[o] = range, dirty'[o] = FALSE, initialized'[o] = initialized[o],
           Read(ddr', range) = regs[slot[o]]
    PROVE  Carried(o)
<1>0. Safe' = Safe
  BY SafeStays
<1>1. range # None
  BY RangesApart
<1>2. Good(o)'
  BY <1>0, <1>1 DEF Good
<1>3. Denoted(o)' = Denoted(o)
  BY <1>1 DEF Denoted
<1> QED
  BY <1>2, <1>3 DEF Carried

\* A load in progress has recorded its definition.
Phase == loading => /\ cursor <= Len(code) /\ Current.op = "load" /\ ~ Current.retained
                    /\ initialized[Current.def] /\ home[Current.def] # None

\* An object is initialized exactly if an earlier instruction defined it.
Recorded == \A o \in Objects : initialized[o] <=> DefinedBefore(o, Position)

\* The one use of a slot by an object without contents: the destination of a
\* kernel whose operands are all there.
Destined(o) == cursor <= Len(code) /\ IsKernel(Current) /\ o = Current.def /\ Target = None

Held == \A o \in Objects : slot[o] # None => initialized[o] \/ Destined(o)

TableKnown == modulus # None => initialized[modulus] /\ Shape[modulus].type = 1

Blamed == status = "logic_error" => ~ WellFormed

\* The program is one of those considered.
Imported == \E suite \in Programs : code \in suite.codes /\ automatic = suite.automatic

Versions ==
    /\ Imported /\ Phase /\ Recorded /\ Held /\ TableKnown /\ Blamed
    /\ \A o \in Objects : Good(o)

LEMMA InitVersions == Init => Versions
<1> SUFFICES ASSUME Init
             PROVE  Versions
  OBVIOUS
<1>1. /\ \A o \in Objects : slot[o] = None /\ home[o] = None /\ ~ dirty[o] /\ ~ initialized[o]
      /\ modulus = None /\ loading = FALSE /\ cursor = 1 /\ status = "running"
  BY DEF Init
<1>2. Recorded
  <2>1. \A o \in Objects : ~ DefinedBefore(o, Position)
    BY <1>1 DEF DefinedBefore, Position
  <2> QED
    BY <1>1, <2>1 DEF Recorded
<1>3. \A o \in Objects : ~ OnChip(o) /\ ~ Live(o)
  BY <1>1 DEF OnChip, Live
<1>4. \A o \in Objects : Good(o)
  BY <1>1, <1>3 DEF Good
<1>5. Phase /\ Held /\ TableKnown /\ Blamed
  BY <1>1 DEF Phase, Held, TableKnown, Blamed
<1>6. Imported
  BY DEF Init, Imported
<1> QED
  BY <1>2, <1>4, <1>5, <1>6 DEF Versions

\* Where the program is does not change while objects are moved.
LEMMA SamePlace ==
    ASSUME UNCHANGED <<code, cursor, loading, initialized>>
    PROVE  /\ Position' = Position /\ Current' = Current
           /\ \A o : Live(o)' = Live(o) /\ DefinedBefore(o, Position)' = DefinedBefore(o, Position)
           /\ Recorded' = Recorded
<1>1. Position' = Position /\ Current' = Current
  BY DEF Position, Current
<1>2. \A o : Live(o)' = Live(o) /\ DefinedBefore(o, Position)' = DefinedBefore(o, Position)
  BY <1>1 DEF Live, UsedFrom, UsePositions, DefinedBefore
<1> QED
  BY <1>1, <1>2 DEF Recorded

\* The memory after an eviction.
LEMMA EvictMemory ==
    ASSUME Types, NEW victims, NEW preserve, Evict(victims, preserve),
           Spilled(victims, preserve) \subseteq Objects
    PROVE  /\ \A cell \in ImageCells : ddr'[cell] = ddr[cell]
           /\ \A q \in Objects \ Spilled(victims, preserve) :
                 \A k \in 1 .. Shape[q].width : ddr'[<<-q, k>>] = ddr[<<-q, k>>]
           /\ \A q \in Spilled(victims, preserve) :
                 \A k \in 1 .. Shape[q].width : ddr'[<<-q, k>>] = regs[slot[q]][k]
<1> DEFINE spilled == Spilled(victims, preserve)
<1>1. /\ ddr' = [cell \in DOMAIN ddr |-> IF \E o \in spilled : cell[1] = -o
                    THEN regs[slot[-cell[1]]][cell[2]] ELSE ddr[cell]]
      /\ DOMAIN ddr = ImageCells \cup SpillCells
  BY DEF Evict, Types
<1>0. spilled \subseteq Objects /\ Objects \subseteq Int
  BY ShapeAssumption
<1> HIDE DEF spilled
<1>2. \A cell \in ImageCells : ddr'[cell] = ddr[cell]
  BY <1>0, <1>1, CellsAssumption
<1>3. ASSUME NEW q \in Objects, NEW k \in 1 .. Shape[q].width
      PROVE  /\ <<-q, k>> \in DOMAIN ddr
             /\ q \notin spilled => ddr'[<<-q, k>>] = ddr[<<-q, k>>]
             /\ q \in spilled => ddr'[<<-q, k>>] = regs[slot[q]][k]
  <2>1. q \in Int /\ \A o \in spilled : o \in Int
    BY <1>0
  <2>2. <<-q, k>>[1] = -q /\ <<-q, k>>[2] = k
    OBVIOUS
  <2>3. <<-q, k>> \in SpillCells
    BY DEF SpillCells
  <2>4. <<-q, k>> \in DOMAIN ddr
    BY <1>1, <2>3
  <2>5. q \notin spilled => ~ \E o \in spilled : <<-q, k>>[1] = -o
    BY <2>1, <2>2
  <2>6. q \in spilled => (\E o \in spilled : <<-q, k>>[1] = -o) /\ -(<<-q, k>>[1]) = q
    BY <2>1, <2>2
  <2> QED
    BY <1>1, <2>2, <2>4, <2>5, <2>6
<1> QED
  BY <1>2, <1>3 DEF spilled

\* What is read from memory that stays the same.
LEMMA ReadSame ==
    ASSUME NEW o \in Objects, NEW house \in Views \cup {SpillRange(o)},
           NEW before, NEW after,
           \A cell \in ImageCells : after[cell] = before[cell],
           house \notin Views => \A k \in 1 .. Shape[o].width : after[<<-o, k>>] = before[<<-o, k>>]
    PROVE  Read(after, house) = Read(before, house)
<1>1. CASE house \in Views
  <2>1. house \in Seq(ImageCells)
    BY <1>1 DEF Views
  <2>2. \A k \in DOMAIN house : house[k] \in ImageCells
    BY <2>1
  <2> QED
    BY <2>2 DEF Read
<1>2. CASE house \notin Views
  <2>1. house = SpillRange(o) /\ DOMAIN house = 1 .. Shape[o].width
    BY <1>2 DEF SpillRange
  <2>2. \A k \in DOMAIN house : house[k] = <<-o, k>>
    BY <2>1 DEF SpillRange
  <2> QED
    BY <1>2, <2>1, <2>2 DEF Read
<1> QED
  BY <1>1, <1>2

LEMMA ReadSpill ==
    ASSUME NEW o \in Objects, NEW value, value = [k \in 1 .. Shape[o].width |-> value[k]],
           NEW after, \A k \in 1 .. Shape[o].width : after[<<-o, k>>] = value[k]
    PROVE  Read(after, SpillRange(o)) = value
<1>1. DOMAIN SpillRange(o) = 1 .. Shape[o].width
  BY DEF SpillRange
<1>2. \A k \in DOMAIN SpillRange(o) : SpillRange(o)[k] = <<-o, k>>
  BY DEF SpillRange
<1>3. Read(after, SpillRange(o)) = [k \in 1 .. Shape[o].width |-> value[k]]
  BY <1>1, <1>2 DEF Read
<1> QED
  BY <1>3

-----------------------------------------------------------------------------
(* Objects that are moved.                                                 *)

\* All that a kernel reads is on chip once it waits for nothing.
LEMMA ReadsOnChip ==
    ASSUME Types, cursor <= Len(code), IsKernel(Current), Target = None
    PROVE  /\ KernelReads \in Seq(Objects)
           /\ \A k \in DOMAIN KernelReads : OnChip(KernelReads[k]) /\ KernelReads[k] \in Operands
<1>1. Current \in VirtualInstructions
  BY DEF Types, Current
<1>2. Current.sources \in Seq(Objects) /\ Current.def \in Objects
  BY <1>1, InstructionFields
<1>3. /\ KernelReads \in Seq(Objects)
      /\ \A k \in DOMAIN KernelReads : KernelReads[k] = Current.def \/
            \E j \in DOMAIN Current.sources : KernelReads[k] = Current.sources[j]
  <2>1. CASE Current.op = "mac"
    <3> DEFINE reads == Append(Current.sources, Current.def)
    <3>1. /\ reads \in Seq(Objects) /\ Len(reads) = Len(Current.sources) + 1
          /\ \A k \in 1 .. Len(Current.sources) : reads[k] = Current.sources[k]
          /\ reads[Len(Current.sources) + 1] = Current.def
      BY <1>2, AppendProperties
    <3>2. Len(Current.sources) \in Nat /\ DOMAIN Current.sources = 1 .. Len(Current.sources)
      BY <1>2
    <3>3. DOMAIN reads = 1 .. Len(Current.sources) + 1
      BY <3>1
    <3>4. KernelReads = reads
      BY <2>1 DEF KernelReads
    <3> HIDE DEF reads
    <3> QED
      BY <3>1, <3>2, <3>3, <3>4
  <2>2. CASE Current.op # "mac"
    BY <1>2, <2>2 DEF KernelReads
  <2> QED
    BY <2>1, <2>2
<1>4. FirstMissing(KernelReads) = None
  BY TargetKernel
<1>5. \A k \in DOMAIN KernelReads : OnChip(KernelReads[k])
  BY <1>3, <1>4, NothingMissing
<1>6. \A k \in DOMAIN KernelReads : KernelReads[k] \in Operands
  BY <1>2, <1>3, NoneApart DEF Operands, Uses, SourceSet
<1> QED
  BY <1>3, <1>5, <1>6

\* What it reads it uses.
LEMMA ReadsUsed ==
    ASSUME Types, cursor <= Len(code), IsKernel(Current)
    PROVE  \A k \in DOMAIN KernelReads : KernelReads[k] \in Uses(Current)
<1>1. Current \in VirtualInstructions
  BY DEF Types, Current
<1>2. Current.sources \in Seq(Objects) /\ Current.def \in Objects
  BY <1>1, InstructionFields
<1>3. CASE Current.op = "mac"
  <2> DEFINE reads == Append(Current.sources, Current.def)
  <2>1. /\ Len(reads) = Len(Current.sources) + 1
        /\ reads \in Seq(Objects)
        /\ \A k \in 1 .. Len(Current.sources) : reads[k] = Current.sources[k]
        /\ reads[Len(Current.sources) + 1] = Current.def
    BY <1>2, AppendProperties
  <2>2. Len(Current.sources) \in Nat /\ DOMAIN Current.sources = 1 .. Len(Current.sources)
    BY <1>2
  <2>3. DOMAIN reads = 1 .. Len(Current.sources) + 1
    BY <2>1
  <2>4. KernelReads = reads
    BY <1>3 DEF KernelReads
  <2> HIDE DEF reads
  <2> QED
    BY <1>3, <2>1, <2>2, <2>3, <2>4 DEF Uses, SourceSet
<1>4. CASE Current.op # "mac"
  BY <1>4 DEF KernelReads, Uses, SourceSet
<1> QED
  BY <1>3, <1>4

LEMMA OperandsTyped ==
    ASSUME Types, Running
    PROVE  Operands \subseteq Objects
<1>1. Current \in VirtualInstructions
  BY CurrentInstruction
<1>2. Current.sources \in Seq(Objects) /\ Current.def \in Objects \cup {None}
      /\ (IsKernel(Current) => Current.def \in Objects)
  BY <1>1, InstructionFields
<1>3. \A k \in DOMAIN Current.sources : Current.sources[k] \in Objects
  BY <1>2
<1> QED
  BY <1>2, <1>3 DEF Operands, Uses, SourceSet, IsKernel

\* A kernel goes on waiting for nothing as long as its operands stay.
LEMMA StaysReady ==
    ASSUME Types, cursor <= Len(code), IsKernel(Current), Target = None,
           UNCHANGED <<code, cursor>>,
           \A o \in Operands : OnChip(o) => OnChip(o)'
    PROVE  Target' = None
<1>1. Current' = Current /\ KernelReads' = KernelReads
  BY DEF Current, KernelReads
<1>2. \A k \in DOMAIN KernelReads' : OnChip(KernelReads[k])'
  BY <1>1, ReadsOnChip
<1>3. FirstMissing(KernelReads)' = None
  BY <1>1, <1>2 DEF FirstMissing
<1>4. Target' = FirstMissing(KernelReads)'
  <2>1. IsKernel(Current')
    BY <1>1
  <2>2. Current'.op # "store" /\ Current'.op # "load" /\ Current'.op # "modld"
    BY <2>1 DEF IsKernel
  <2> QED
    BY <2>1, <2>2, Zenon DEF Target
<1> QED
  BY <1>3, <1>4

\* What is known of an object in a slot.
LEMMA ResidentLive ==
    ASSUME Types, Versions, cursor <= Len(code), NEW o \in Objects, slot[o] # None,
           UsedFrom(code, o, cursor + 1), o \notin Operands \/ initialized[o]
    PROVE  initialized[o] /\ Live(o)
<1>1. initialized[o]
  BY NoneApart DEF Versions, Held, Destined, Operands
<1>2. UsedFrom(code, o, cursor)
  BY UsedNow
<1> QED
  BY <1>1, <1>2 DEF Live, Position

\* An object that is live only for the current instruction is its operand.
LEMMA LiveLater ==
    ASSUME Types, Versions, cursor <= Len(code), NEW o \in Objects, Live(o),
           o \notin Operands \/ Shape[o].type = 1
    PROVE  UsedFrom(code, o, cursor + 1) \/ Shape[o].type = 1
<1>1. CASE Shape[o].type = 1
  BY <1>1
<1>2. CASE o \notin Operands
  <2>1. ~ UsedBy(o, Current)
    BY <1>2, UsesAreOperands
  <2> QED
    BY <2>1, UsedNow DEF Live, Position
<1> QED
  BY <1>1, <1>2

LEMMA EvictCarries ==
    ASSUME NoneIsNoFunction, IInv, Versions, cursor <= Len(code),
           NEW victims \in SUBSET Resident, Evict(victims, FALSE),
           \A v \in victims : v \notin Operands \/ Shape[v].type = 1
    PROVE  /\ \A o \in Objects : Carried(o)
           /\ \A o \in Objects \ victims : slot'[o] = slot[o] /\ OnChip(o)' = OnChip(o)
           /\ \A o \in victims : slot'[o] = None
           /\ \A o \in Objects : home'[o] \in {home[o], SpillRange(o)}
           /\ \A cell \in ImageCells : ddr'[cell] = ddr[cell]
           /\ \A o \in Objects : ~ dirty[o] /\ home[o] # None => Read(ddr', home[o]) = Read(ddr, home[o])
           /\ UNCHANGED <<code, automatic, cursor, initialized, modulus, loading, context, status>>
<1> DEFINE spilled == Spilled(victims, FALSE)
           freed == {slot[o] : o \in victims}
<1>1. /\ \A o \in Objects : slot'[o] = IF o \in victims THEN None ELSE slot[o]
      /\ \A s \in Slots : layout'[s] = IF s \in freed THEN None ELSE layout[s]
      /\ \A s \in Slots : regs'[s] = IF s \in freed THEN None ELSE regs[s]
      /\ \A o \in Objects : home'[o] = IF o \in spilled THEN SpillRange(o) ELSE home[o]
      /\ \A o \in Objects : dirty'[o] = (dirty[o] /\ o \notin spilled)
      /\ UNCHANGED <<code, automatic, cursor, initialized, modulus, loading, context, status>>
  BY DEF Evict
<1>2. victims \subseteq Objects /\ \A v \in victims : slot[v] # None
  BY DEF Resident
<1>3. Types /\ Slotted(slot) /\ Apart(slot)
  BY DEF IInv, Sound
<1>4. \A o \in Objects : o \in spilled <=> o \in victims /\ dirty[o] /\ UsedFrom(code, o, cursor + 1)
  BY <1>3, NeverUsed DEF Spilled
<1>5. spilled \subseteq Objects
  BY <1>2 DEF Spilled
<1>6. /\ \A cell \in ImageCells : ddr'[cell] = ddr[cell]
      /\ \A q \in Objects \ spilled : \A k \in 1 .. Shape[q].width : ddr'[<<-q, k>>] = ddr[<<-q, k>>]
      /\ \A q \in spilled : \A k \in 1 .. Shape[q].width : ddr'[<<-q, k>>] = regs[slot[q]][k]
  <2>1. PICK preserve : preserve = FALSE
    OBVIOUS
  <2>2. Evict(victims, preserve) /\ Spilled(victims, preserve) = spilled
    BY <2>1
  <2> HIDE DEF spilled
  <2>3. Spilled(victims, preserve) \subseteq Objects
    BY <1>5, <2>2
  <2>4. /\ \A cell \in ImageCells : ddr'[cell] = ddr[cell]
        /\ \A q \in Objects \ Spilled(victims, preserve) :
              \A k \in 1 .. Shape[q].width : ddr'[<<-q, k>>] = ddr[<<-q, k>>]
        /\ \A q \in Spilled(victims, preserve) :
              \A k \in 1 .. Shape[q].width : ddr'[<<-q, k>>] = regs[slot[q]][k]
    BY <1>3, <2>2, <2>3, EvictMemory
  <2> QED
    BY <2>2, <2>4
<1> HIDE DEF spilled
<1>7. \A o \in Objects : Good(o)
  BY DEF Versions
<1>8. ASSUME NEW o \in Objects, o \notin spilled, home[o] # None
      PROVE  Read(ddr', home[o]) = Read(ddr, home[o])
  <2>1. PICK house, before, after : house = home[o] /\ before = ddr /\ after = ddr'
    OBVIOUS
  <2>2. house \in Views \cup {SpillRange(o)}
    BY <1>7, <1>8, <2>1 DEF Good
  <2>3. \A cell \in ImageCells : after[cell] = before[cell]
    BY <1>6, <2>1
  <2>4. \A k \in 1 .. Shape[o].width : after[<<-o, k>>] = before[<<-o, k>>]
    BY <1>6, <1>8, <2>1
  <2>5. Read(after, house) = Read(before, house)
    BY <2>2, <2>3, <2>4, ReadSame
  <2> QED
    BY <2>1, <2>5
<1>9. ASSUME NEW o \in Objects \ victims
      PROVE  /\ slot'[o] = slot[o] /\ OnChip(o)' = OnChip(o)
             /\ OnChip(o) => regs'[slot'[o]] = regs[slot[o]]
  <2>1. slot'[o] = slot[o]
    BY <1>1, <1>9
  <2>2. slot[o] # None => slot[o] \in Slots \ freed
    BY <1>2, <1>3, <1>9 DEF Slotted, Apart
  <2> QED
    BY <1>1, <2>1, <2>2 DEF OnChip
<1> HIDE DEF freed
<1>10. \A o : Live(o)' = Live(o)
  BY <1>1, SamePlace
<1>11. ASSUME NEW o \in Objects
       PROVE  Carried(o)
  <2>1. CASE o \notin victims
    <3>1. o \notin spilled /\ home'[o] = home[o] /\ dirty'[o] = dirty[o]
      BY <1>1, <1>3, <1>4, <2>1 DEF Types
    <3> QED
      BY <1>1, <1>3, <1>7, <1>8, <1>9, <1>10, <2>1, <3>1, StaySame
  <2>2. CASE o \in spilled
    <3>1. o \in victims /\ dirty[o] /\ UsedFrom(code, o, cursor + 1) /\ slot[o] # None
      BY <1>2, <1>4, <2>2
    <3>2. Shape[o].type # 1
      BY <1>7, <3>1 DEF Good
    <3>3. Live(o)
      BY <1>3, <3>1, <3>2, ResidentLive
    <3>4. OnChip(o)
      BY <1>7, <3>1, <3>3 DEF Good
    <3>5. ~ OnChip(o)' /\ home'[o] = SpillRange(o) /\ ~ dirty'[o]
      BY <1>1, <2>2, <3>1 DEF OnChip
    <3>6. PICK value, after : value = regs[slot[o]] /\ after = ddr'
      OBVIOUS
    <3>7. value = [k \in 1 .. Shape[o].width |-> value[k]]
      BY <1>7, <3>4, <3>6 DEF Good
    <3>8. \A k \in 1 .. Shape[o].width : after[<<-o, k>>] = value[k]
      BY <1>6, <2>2, <3>6
    <3>9. Read(after, SpillRange(o)) = value
      BY <3>7, <3>8, ReadSpill
    <3> QED
      BY <1>1, <1>3, <1>7, <3>1, <3>4, <3>5, <3>6, <3>9, SpillMove
  <2>3. CASE o \in victims /\ o \notin spilled
    <3>1. ~ OnChip(o)' /\ home'[o] = home[o] /\ dirty'[o] = dirty[o]
      BY <1>1, <1>3, <2>3 DEF OnChip, Types
    <3>2. ASSUME Live(o)
          PROVE  ~ dirty[o] /\ home[o] # None
      <4>1. UsedFrom(code, o, cursor + 1) \/ Shape[o].type = 1
        BY <1>3, <2>3, <3>2, LiveLater
      <4>2. ~ dirty[o]
        BY <1>4, <1>7, <2>3, <4>1 DEF Good
      <4> QED
        BY <1>7, <3>2, <4>2 DEF Good
    <3> QED
      BY <1>1, <1>3, <1>7, <1>8, <1>10, <2>3, <3>1, <3>2, DropClean
  <2> QED
    BY <2>1, <2>2, <2>3
<1>12. \A o \in Objects : ~ dirty[o] => o \notin spilled
  BY <1>4
<1> QED
  BY <1>1, <1>2, <1>6, <1>8, <1>9, <1>11, <1>12

-----------------------------------------------------------------------------
(* Moving objects in memory and between slots.                             *)

LEMMA MissingOne ==
    ASSUME NEW q \in Objects, NEW o, o = FirstMissing(<<q>>), o # None
    PROVE  o = q /\ ~ OnChip(q)
<1>1. PICK list : list = <<q>>
  OBVIOUS
<1>2. list \in Seq(Objects) /\ o = FirstMissing(list)
  BY <1>1
<1>3. ~ OnChip(o) /\ \E k \in DOMAIN list : o = list[k]
  BY <1>2, MissingFirst
<1> QED
  BY <1>1, <1>3

\* What is placed is an operand of the instruction, or has a definition already.
LEMMA TargetUsed ==
    ASSUME Types, Versions, NEW o \in ToPlace
    PROVE  \/ UsedBy(o, Current) /\ ~ loading
           \/ initialized[o] /\ home[o] # None
<1>1. Running /\ o = Target /\ o \in Objects /\ ~ OnChip(o)
  BY ToPlaceTyped
<1>2. Current \in VirtualInstructions
  BY <1>1, CurrentInstruction
<1>3. /\ Current.op \in {"load", "store", "arith", "mac", "stage", "online", "modld", "free", "sync"}
      /\ Current.sources \in Seq(Objects)
      /\ Current.op = "load" => Current.def \in Objects
  BY <1>2, InstructionFields
<1>4. loading => Current.op = "load" /\ ~ Current.retained
  BY DEF Versions, Phase
<1>5. o # None
  BY <1>1, NoneApart
<1>6. CASE IsKernel(Current)
  <2>1. PICK k \in DOMAIN KernelReads : o = KernelReads[k]
    BY <1>1, <1>5, <1>6, ReadsTyped, TargetKernel, MissingFirst
  <2>2. o \in Uses(Current)
    BY <1>1, <1>6, <2>1, ReadsUsed DEF Running
  <2> QED
    BY <1>4, <1>6, <2>2 DEF UsedBy, IsKernel
<1>7. CASE Current.op = "store"
  <2>1. CASE ToFreeze # {}
    <3>1. o = FirstMissing(<<Smallest(ToFreeze)>>)
      BY <1>1, <1>5, <1>7, <2>1, TargetStore
    <3>2. PICK q \in Objects : q = Smallest(ToFreeze) /\ q \in ToFreeze
      BY <2>1, FreezeObject
    <3>3. o = q
      BY <1>5, <3>1, <3>2, MissingOne
    <3> QED
      BY <3>2, <3>3 DEF ToFreeze, Endangered
  <2>2. CASE ToFreeze = {}
    <3>1. o = FirstMissing(Current.sources)
      BY <1>1, <1>5, <1>7, <2>2, TargetStore
    <3>2. \E k \in DOMAIN Current.sources : o = Current.sources[k]
      BY <1>3, <1>5, <3>1, MissingFirst
    <3> QED
      BY <1>4, <1>7, <3>2 DEF UsedBy, Uses, SourceSet
  <2> QED
    BY <2>1, <2>2
<1>8. CASE Current.op = "load"
  <2>1. o = FirstMissing(<<Current.def>>) /\ <<Current.def>> \in Seq(Objects)
        /\ (Current.retained \/ loading)
    BY <1>1, <1>3, <1>5, <1>8, TargetLoad
  <2>2. PICK q : q = Current.def
    OBVIOUS
  <2>3. o = q
    BY <1>3, <1>5, <1>8, <2>1, <2>2, MissingOne
  <2> QED
    BY <1>4, <2>1, <2>2, <2>3 DEF UsedBy, Versions, Phase
<1>9. CASE Current.op = "modld"
  <2>1. o = FirstMissing(<<modulus>>) /\ modulus # None
    BY <1>1, <1>5, <1>9, TargetModulus
  <2>2. PICK q : q = modulus
    OBVIOUS
  <2>3. o = q
    BY <1>5, <2>1, <2>2, MissingOne DEF Types
  <2>4. initialized[o] /\ Shape[o].type = 1
    BY <2>1, <2>2, <2>3 DEF Versions, TableKnown
  <2>5. Good(o)
    BY <1>1 DEF Versions
  <2> QED
    BY <1>1, <2>4, <2>5 DEF Good, Live
<1>10. CASE Current.op \in {"free", "sync"}
  BY <1>1, <1>5, <1>10, TargetOther
<1>11. IsKernel(Current) \/ Current.op \in {"store", "load", "modld", "free", "sync"}
  BY <1>3 DEF IsKernel
<1> QED
  BY <1>6, <1>7, <1>8, <1>9, <1>10, <1>11

\* ... so if it has been defined it has a home.
LEMMA TargetHome ==
    ASSUME Types, Versions, NEW o \in ToPlace, initialized[o]
    PROVE  home[o] # None
<1>1. Running /\ o \in Objects /\ ~ OnChip(o)
  BY ToPlaceTyped
<1>2. CASE UsedBy(o, Current) /\ ~ loading
  <2>1. UsedFrom(code, o, cursor)
    BY <1>1, <1>2, UsedNow DEF Running
  <2>2. Live(o)
    BY <1>2, <2>1 DEF Live, Position
  <2> QED
    BY <1>1, <2>2 DEF Versions, Good
<1> QED
  BY <1>2, TargetUsed

\* Only a program with a use before the definition misses one.
LEMMA TargetBlame ==
    ASSUME Types, Versions, NEW o \in ToPlace, ~ initialized[o]
    PROVE  ~ WellFormed
<1>1. Running /\ o \in Objects
  BY ToPlaceTyped
<1>2. UsedBy(o, Current) /\ ~ loading
  BY TargetUsed
<1>3. ~ DefinedBefore(o, cursor)
  BY <1>1, <1>2 DEF Versions, Recorded, Position
<1>4. cursor \in 1 .. Len(code)
  BY <1>1, CurrentInstruction
<1> QED
  BY <1>1, <1>2, <1>3, <1>4 DEF WellFormed, Current

\* Who has a slot while something is still to be placed, or outside of kernels.
LEMMA HeldObjects ==
    ASSUME Versions, Target # None \/ ~ IsKernel(Current), NEW o \in Objects, slot[o] # None
    PROVE  initialized[o]
BY DEF Versions, Held, Destined

-----------------------------------------------------------------------------
(* Steps that only move objects.                                           *)

\* The reader of a program would not notice.
Moved ==
    /\ UNCHANGED <<code, automatic, cursor, loading, initialized, modulus, context>>
    /\ \A cell \in ImageCells : ddr'[cell] = ddr[cell]
    /\ \A o \in Objects :
          /\ Carried(o)
          /\ ~ dirty[o] /\ home[o] # None => Read(ddr', home[o]) = Read(ddr, home[o])

LEMMA MoveVersions ==
    ASSUME Versions, Moved, status' = "logic_error" => ~ WellFormed,
           loading => home'[Current.def] # None,
           \A o \in Objects : slot'[o] # None => initialized[o] \/ Destined(o)'
    PROVE  Versions'
<1> USE DEF Moved
<1>1. Phase'
  BY DEF Versions, Phase, Current
<1>2. Recorded'
  BY SamePlace DEF Versions
<1>3. Held'
  BY DEF Held
<1>4. TableKnown' /\ Blamed'
  BY DEF Versions, TableKnown, Blamed, WellFormed, DefinedBefore
<1>5. \A o \in Objects : Good(o)'
  BY DEF Carried
<1>6. Imported'
  BY DEF Versions, Imported
<1> QED
  BY <1>1, <1>2, <1>3, <1>4, <1>5, <1>6 DEF Versions

LEMMA EvictVersions ==
    ASSUME NoneIsNoFunction, IInv, Versions, Running,
           NEW victims \in SUBSET Resident, Evict(victims, FALSE),
           \A v \in victims : v \notin Operands \/ (Shape[v].type = 1 /\ Target # None)
    PROVE  Versions' /\ Moved
<1>1. /\ \A o \in Objects : Carried(o)
      /\ \A o \in Objects \ victims : slot'[o] = slot[o] /\ OnChip(o)' = OnChip(o)
      /\ \A o \in victims : slot'[o] = None
      /\ \A o \in Objects : home'[o] \in {home[o], SpillRange(o)}
      /\ \A cell \in ImageCells : ddr'[cell] = ddr[cell]
      /\ \A o \in Objects : ~ dirty[o] /\ home[o] # None => Read(ddr', home[o]) = Read(ddr, home[o])
      /\ UNCHANGED <<code, automatic, cursor, initialized, modulus, loading, context, status>>
  BY EvictCarries DEF Running
<1>2. \A o \in Objects : home[o] # None => home'[o] # None
  BY <1>1, RangesApart
<1>3. loading => home'[Current.def] # None
  <2> SUFFICES ASSUME loading
               PROVE  home'[Current.def] # None
    OBVIOUS
  <2>1. Current \in VirtualInstructions /\ Current.op = "load" /\ home[Current.def] # None
    BY CurrentInstruction DEF IInv, Versions, Phase
  <2>2. Current.def \in Objects
    BY <2>1, InstructionFields
  <2> QED
    BY <1>2, <2>1, <2>2
<1>4. ASSUME NEW o \in Objects, slot'[o] # None, ~ initialized[o]
      PROVE  Destined(o)'
  <2>1. slot[o] # None
    BY <1>1, <1>4
  <2>2. Destined(o)
    BY <1>4, <2>1 DEF Versions, Held
  <2>3. \A q \in Operands : OnChip(q) => OnChip(q)'
    <3>1. \A q \in Operands : q \notin victims
      BY <2>2 DEF Destined
    <3>2. Operands \subseteq Objects
      BY OperandsTyped DEF IInv
    <3> QED
      BY <1>1, <3>1, <3>2
  <2>4. Target' = None
    BY <1>1, <2>2, <2>3, StaysReady DEF IInv, Destined
  <2> QED
    BY <1>1, <2>2, <2>4 DEF Destined, Current
<1>5. Moved
  BY <1>1 DEF Moved
<1> QED
  BY <1>1, <1>3, <1>4, <1>5, MoveVersions DEF Running

\* Operands are never evicted for the sake of room.
LEMMA VictimApart ==
    ASSUME NEW o, NEW v \in Victim(o)
    PROVE  v \in Resident /\ v \notin Operands
BY DEF Victim, Victims, Excluded

LEMMA ClearingApart ==
    ASSUME NEW o, NEW victims \in Clearing(o)
    PROVE  victims \in SUBSET Resident /\ \A v \in victims : v \notin Operands
<1>1. CASE automatic
  <2>1. PICK i \in Candidates(o) : victims = Occupants(i)
    BY <1>1 DEF Clearing
  <2>2. Occupants(i) \cap (Excluded(o) \cup {modulus}) = {}
    BY <2>1 DEF Candidates
  <2>3. Occupants(i) \subseteq Resident
    BY DEF Occupants, Resident
  <2> QED
    BY <2>1, <2>2, <2>3 DEF Excluded
<1>2. CASE ~ automatic
  <2>1. PICK v \in Victim(o) : victims = {v}
    BY <1>2 DEF Clearing
  <2> QED
    BY <2>1, VictimApart
<1> QED
  BY <1>1, <1>2

LEMMA RaiseVersions ==
    ASSUME IInv, Versions, NEW what, RaiseError(what), what = "logic_error" => ~ WellFormed
    PROVE  Versions' /\ Moved
<1>1. /\ UNCHANGED <<code, automatic, cursor, slot, home, dirty, initialized, modulus, layout,
                     loading, regs, ddr, context>>
      /\ status' = what
  BY DEF RaiseError
<1>2. \A o : Live(o)' = Live(o)
  BY <1>1, SamePlace
<1>3. ASSUME NEW o \in Objects
      PROVE  Carried(o)
  <2>1. Good(o) /\ Types
    BY DEF Versions, IInv
  <2>2. OnChip(o)' = OnChip(o) /\ (OnChip(o) => regs'[slot'[o]] = regs[slot[o]])
    BY <1>1 DEF OnChip
  <2> QED
    BY <1>1, <1>2, <2>1, <2>2, StaySame
<1>4. loading => home'[Current.def] # None
  BY <1>1 DEF Versions, Phase
<1>5. ASSUME NEW o \in Objects, slot'[o] # None, ~ initialized[o]
      PROVE  Destined(o)'
  <2>1. Destined(o)
    BY <1>1, <1>5 DEF Versions, Held
  <2>2. \A q \in Operands : OnChip(q) => OnChip(q)'
    BY <1>1 DEF OnChip
  <2>3. Target' = None
    BY <1>1, <2>1, <2>2, StaysReady DEF IInv, Destined
  <2> QED
    BY <1>1, <2>1, <2>3 DEF Destined, Current
<1>6. Moved
  BY <1>1, <1>3 DEF Moved
<1> QED
  BY <1>1, <1>4, <1>5, <1>6, MoveVersions

LEMMA ChosenFree ==
    ASSUME FreeSlots # {}, NEW o
    PROVE  ChosenSlot(o) \in FreeSlots
<1>1. FreeSlots \in SUBSET Slots
  BY DEF FreeSlots
<1>2. FreeSlots \in SUBSET Nat
  BY <1>1, SlotsAssumption
<1>3. Smallest(FreeSlots) \in FreeSlots
  BY <1>2, SmallestInSet
<1> QED
  BY <1>3 DEF ChosenSlot

\* An object gets a slot, and no contents yet.
LEMMA TakeVersions ==
    ASSUME IInv, Versions, Running, NEW o \in Objects, slot[o] = None, FreeSlots # {},
           slot' = [slot EXCEPT ![o] = ChosenSlot(o)],
           UNCHANGED <<code, automatic, cursor, home, dirty, initialized, modulus, layout, loading,
                       regs, ddr, context, status>>,
           initialized[o] \/ Destined(o)
    PROVE  Versions' /\ Moved
<1>1. PICK s : s = ChosenSlot(o)
  OBVIOUS
<1>2. s \in Slots /\ \A q \in Objects : slot[q] # s
  BY <1>1, ChosenFree, NoneApart DEF FreeSlots, Resident
<1>3. layout[s] = None
  BY <1>2 DEF IInv, Sound, Owned
<1>4. \A q \in Objects : slot'[q] = IF q = o THEN s ELSE slot[q]
  BY <1>1 DEF IInv, Sound, Slotted
<1>5. \A q \in Objects : OnChip(q)' = OnChip(q) /\ (OnChip(q) => q # o)
  BY <1>3, <1>4 DEF OnChip
<1>6. \A q : Live(q)' = Live(q)
  BY SamePlace
<1>7. ASSUME NEW q \in Objects
      PROVE  Carried(q)
  <2>1. Good(q) /\ Types
    BY DEF Versions, IInv
  <2>2. OnChip(q)' = OnChip(q) /\ (OnChip(q) => regs'[slot'[q]] = regs[slot[q]])
    BY <1>4, <1>5
  <2> QED
    BY <1>6, <2>1, <2>2, StaySame
<1>8. loading => home'[Current.def] # None
  BY DEF Versions, Phase
<1>9. ASSUME NEW q \in Objects, slot'[q] # None, ~ initialized[q]
      PROVE  Destined(q)'
  <2>1. Destined(q)
    BY <1>4, <1>9 DEF Versions, Held
  <2>2. \A p \in Operands : OnChip(p) => OnChip(p)'
    BY <1>5, OperandsTyped DEF IInv
  <2>3. Target' = None
    BY <2>1, <2>2, StaysReady DEF IInv, Destined
  <2> QED
    BY <2>1, <2>3 DEF Destined, Current
<1>10. status' = "logic_error" => ~ WellFormed
  BY DEF Running
<1>11. Moved
  BY <1>7 DEF Moved
<1> QED
  BY <1>8, <1>9, <1>10, <1>11, MoveVersions

LEMMA FillVersions ==
    ASSUME NoneIsNoFunction, IInv, Versions, NEW o \in ToPlace, Fill(o)
    PROVE  Versions' /\ Moved
<1>1. Running /\ o = Target /\ o \in Objects /\ ~ OnChip(o) /\ Target # None
  BY ToPlaceTyped, NoneApart DEF IInv
<1>2. /\ slot[o] # None
      /\ layout' = [layout EXCEPT ![slot[o]] = LoadAnswer(o, layout).region]
      /\ regs' = [regs EXCEPT ![slot[o]] = Read(ddr, home[o])]
      /\ UNCHANGED <<code, automatic, cursor, slot, home, dirty, initialized, modulus, loading,
                     ddr, context, status>>
  BY DEF Fill
<1>3. initialized[o]
  BY <1>1, <1>2, HeldObjects
<1>4. home[o] # None
  BY <1>3, TargetHome DEF IInv
<1>5. PICK s \in Slots : s = slot[o]
  BY <1>1, <1>2 DEF IInv, Sound, Slotted
<1>6. /\ \A r \in Slots \ {s} : layout'[r] = layout[r] /\ regs'[r] = regs[r]
      /\ layout'[s] # None /\ regs'[s] = Read(ddr, home[o])
  <2>1. regs'[s] = Read(ddr, home[o])
    BY <1>2, <1>5 DEF IInv, Sound
  <2>2. Read(ddr, home[o]) # None
    BY DEF NoneIsNoFunction, Read
  <2>3. IInv'
    BY FillStep
  <2>4. layout'[s] # None
    BY <2>1, <2>2, <2>3 DEF IInv, Sound, Filled
  <2> QED
    BY <1>2, <1>5, <2>1, <2>4 DEF IInv, Sound, Layout
<1>7. \A q \in Objects \ {o} : slot[q] # None => slot[q] \in Slots \ {s}
  BY <1>1, <1>5, NoneApart DEF IInv, Sound, Slotted, Apart
<1>8. \A q : Live(q)' = Live(q)
  BY <1>2, SamePlace
<1>9. ASSUME NEW q \in Objects
      PROVE  Carried(q)
  <2>1. Good(q) /\ Types
    BY DEF Versions, IInv
  <2>2. CASE q # o
    <3>1. OnChip(q)' = OnChip(q) /\ (OnChip(q) => regs'[slot'[q]] = regs[slot[q]])
      BY <1>2, <1>6, <1>7, <2>2 DEF OnChip
    <3> QED
      BY <1>2, <1>8, <2>1, <3>1, StaySame
  <2>3. CASE q = o
    <3>1. OnChip(o)' /\ regs'[slot'[o]] = Read(ddr, home[o])
      BY <1>2, <1>5, <1>6, NoneApart DEF OnChip
    <3> QED
      BY <1>1, <1>2, <1>3, <1>4, <1>8, <2>1, <2>3, <3>1, FillMove
  <2> QED
    BY <2>2, <2>3
<1>10. loading => home'[Current.def] # None
  BY <1>2 DEF Versions, Phase
<1>11. \A q \in Objects : slot'[q] # None => initialized[q]
  BY <1>1, <1>2, HeldObjects
<1>12. Moved
  BY <1>2, <1>9 DEF Moved
<1> QED
  BY <1>1, <1>2, <1>10, <1>11, <1>12, MoveVersions DEF Running

\* A write changes the cells of its range and no others.
LEMMA WriteElsewhere ==
    ASSUME NEW contents, NEW range, NEW value,
           NEW cell \in DOMAIN contents, \A k \in DOMAIN range : range[k] # cell
    PROVE  Written(contents, range, value)[cell] = contents[cell]
BY DEF Written

\* ... and those get the new contents, in order.
LEMMA WriteThere ==
    ASSUME NEW contents, NEW range, NEW value,
           \A j, k \in DOMAIN range : range[j] = range[k] => j = k,
           NEW k \in DOMAIN range, range[k] \in DOMAIN contents
    PROVE  Written(contents, range, value)[range[k]] = value[k]
<1>1. (CHOOSE j \in DOMAIN range : range[j] = range[k]) = k
  OBVIOUS
<1> QED
  BY <1>1 DEF Written

\* store() gives up the place of the object it stores.
LEMMA YieldVersions ==
    ASSUME NoneIsNoFunction, IInv, Versions, NEW o \in ToPlace, YieldPlace(o)
    PROVE  Versions' /\ Moved
<1>0. PICK id : id = Current.sources[1]
  OBVIOUS
<1>1. /\ Running /\ o = Target /\ o \in Objects /\ ~ OnChip(o) /\ Target # None
  BY ToPlaceTyped, NoneApart DEF IInv
<1>2. Current.op = "store" /\ o # id /\ slot[id] # None
  BY <1>0 DEF YieldPlace, Yields
<1>3. Current \in VirtualInstructions /\ id \in Objects /\ Current.sources \in Seq(Objects) /\ Current.sources # << >>
  BY <1>0, <1>1, <1>2, CurrentInstruction, InstructionFields DEF IInv
<1>4. /\ slot' = [slot EXCEPT ![o] = None, ![id] = None]
      /\ layout' = [layout EXCEPT ![slot[id]] = None]
      /\ regs' = [regs EXCEPT ![slot[id]] = None]
      /\ home' = [home EXCEPT ![id] = IF dirty[id] THEN SpillRange(id) ELSE @]
      /\ dirty' = [dirty EXCEPT ![id] = FALSE]
      /\ ddr' = IF dirty[id] THEN Written(ddr, SpillRange(id), regs[slot[id]]) ELSE ddr
      /\ UNCHANGED <<code, automatic, cursor, initialized, modulus, loading, context, status>>
  BY <1>0 DEF YieldPlace
<1>5. UsedBy(id, Current)
  <2>1. 1 \in DOMAIN Current.sources
    BY <1>3
  <2> QED
    BY <1>0, <1>2, <2>1 DEF UsedBy, Uses, SourceSet
<1>6. ~ loading
  BY <1>2 DEF Versions, Phase
<1>7. Live(id) /\ Shape[id].type # 1
  <2>1. initialized[id]
    BY <1>1, <1>2, <1>3, HeldObjects
  <2>2. UsedFrom(code, id, cursor)
    BY <1>1, <1>5, UsedNow DEF IInv, Running
  <2>3. Shape[id].type = 0
    BY <1>1, <1>3, <1>5, UsesAreOperands DEF IInv, Running
  <2> QED
    BY <1>6, <2>1, <2>2, <2>3 DEF Live, Position
<1>8. \A q \in Objects : Good(q)
  BY DEF Versions
<1>9. dirty[id] => OnChip(id)
  BY <1>3, <1>7, <1>8 DEF Good
<1>10. PICK s \in Slots : s = slot[id]
  BY <1>2, <1>3 DEF IInv, Sound, Slotted
<1>11. /\ \A q \in Objects : slot'[q] = IF q = o \/ q = id THEN None ELSE slot[q]
       /\ \A r \in Slots \ {s} : layout'[r] = layout[r] /\ regs'[r] = regs[r]
  BY <1>1, <1>3, <1>4, <1>10 DEF IInv, Sound, Slotted, Layout
<1>12. /\ \A q \in Objects : home'[q] = IF q = id /\ dirty[id] THEN SpillRange(id) ELSE home[q]
       /\ \A q \in Objects : dirty'[q] = (dirty[q] /\ q # id)
  BY <1>3, <1>4 DEF IInv, Types
<1>13. /\ \A cell \in ImageCells : ddr'[cell] = ddr[cell]
       /\ \A q \in Objects \ {id} : \A k \in 1 .. Shape[q].width : ddr'[<<-q, k>>] = ddr[<<-q, k>>]
       /\ dirty[id] => \A k \in 1 .. Shape[id].width : ddr'[<<-id, k>>] = regs[slot[id]][k]
  <2>1. CASE ~ dirty[id]
    BY <1>4, <2>1
  <2>2. CASE dirty[id]
    <3>1. PICK before, range, value : before = ddr /\ range = SpillRange(id) /\ value = regs[slot[id]]
      OBVIOUS
    <3>2. ddr' = Written(before, range, value) /\ DOMAIN before = ImageCells \cup SpillCells
      BY <1>4, <2>2, <3>1 DEF IInv, Types
    <3>3. DOMAIN range = 1 .. Shape[id].width /\ \A k \in DOMAIN range : range[k] = <<-id, k>>
      BY <3>1 DEF SpillRange
    <3>4. Objects \subseteq Int
      BY ShapeAssumption
    <3>5. ASSUME NEW cell \in ImageCells
          PROVE  ddr'[cell] = ddr[cell]
      <4>1. \A k \in DOMAIN range : range[k] # cell
        BY <1>3, <3>3, CellsAssumption
      <4> QED
        BY <3>1, <3>2, <4>1, WriteElsewhere
    <3>6. ASSUME NEW q \in Objects \ {id}, NEW k \in 1 .. Shape[q].width
          PROVE  ddr'[<<-q, k>>] = ddr[<<-q, k>>]
      <4>1. PICK cell : cell = <<-q, k>>
        OBVIOUS
      <4>2. cell \in DOMAIN before
        BY <3>2, <4>1 DEF SpillCells
      <4>3. -q # -id
        BY <1>3, <3>4
      <4>4. \A j \in DOMAIN range : range[j] # cell
        BY <3>3, <4>1, <4>3
      <4> QED
        BY <3>1, <3>2, <4>1, <4>2, <4>4, WriteElsewhere
    <3>7. ASSUME NEW k \in 1 .. Shape[id].width
          PROVE  ddr'[<<-id, k>>] = regs[slot[id]][k]
      <4>1. \A i, j \in DOMAIN range : range[i] = range[j] => i = j
        BY <3>3
      <4>2. k \in DOMAIN range /\ range[k] = <<-id, k>>
        BY <3>3
      <4>3. range[k] \in DOMAIN before
        BY <1>3, <3>2, <4>2 DEF SpillCells
      <4> QED
        BY <3>1, <3>2, <4>1, <4>2, <4>3, WriteThere
    <3> QED
      BY <3>5, <3>6, <3>7
  <2> QED
    BY <2>1, <2>2
<1>14. ASSUME NEW q \in Objects, ~ dirty[q] \/ q # id, home[q] # None
       PROVE  Read(ddr', home[q]) = Read(ddr, home[q])
  <2>1. CASE q = id
    BY <1>4, <1>14, <2>1
  <2>2. CASE q # id
    <3>1. PICK house, before, after : house = home[q] /\ before = ddr /\ after = ddr'
      OBVIOUS
    <3>2. house \in Views \cup {SpillRange(q)}
      BY <1>8, <1>14, <3>1 DEF Good
    <3>3. Read(after, house) = Read(before, house)
      BY <1>13, <2>2, <3>1, <3>2, ReadSame
    <3> QED
      BY <3>1, <3>3
  <2> QED
    BY <2>1, <2>2
<1>15. \A q : Live(q)' = Live(q)
  BY <1>4, SamePlace
<1>16. ASSUME NEW q \in Objects
       PROVE  Carried(q)
  <2>1. Good(q) /\ Types
    BY <1>8 DEF IInv
  <2>2. CASE q # id
    <3>1. OnChip(q)' = OnChip(q) /\ (OnChip(q) => regs'[slot'[q]] = regs[slot[q]])
      <4>1. CASE q = o
        BY <1>1, <1>11, <4>1 DEF OnChip
      <4>2. CASE q # o
        <5>1. slot[q] # None => slot[q] \in Slots \ {s}
          BY <1>3, <1>10, <2>2 DEF IInv, Sound, Slotted, Apart
        <5> QED
          BY <1>11, <2>2, <4>2, <5>1 DEF OnChip
      <4> QED
        BY <4>1, <4>2
    <3>2. home'[q] = home[q] /\ dirty'[q] = dirty[q]
      BY <1>12, <2>1, <2>2 DEF Types
    <3> QED
      BY <1>4, <1>14, <1>15, <2>1, <2>2, <3>1, <3>2, StaySame
  <2>3. CASE q = id /\ dirty[id]
    <3>1. OnChip(id) /\ ~ OnChip(id)' /\ home'[id] = SpillRange(id) /\ ~ dirty'[id]
      BY <1>3, <1>9, <1>11, <1>12, <2>3 DEF OnChip
    <3>2. PICK value, after : value = regs[slot[id]] /\ after = ddr'
      OBVIOUS
    <3>3. value = [k \in 1 .. Shape[id].width |-> value[k]]
      BY <2>1, <2>3, <3>1, <3>2 DEF Good
    <3>4. \A k \in 1 .. Shape[id].width : after[<<-id, k>>] = value[k]
      BY <1>13, <2>3, <3>2
    <3>5. Read(after, SpillRange(id)) = value
      <4>1. PICK p \in Objects : p = id
        BY <2>3
      <4>2. /\ value = [k \in 1 .. Shape[p].width |-> value[k]]
            /\ \A k \in 1 .. Shape[p].width : after[<<-p, k>>] = value[k]
        BY <3>3, <3>4, <4>1
      <4>3. Read(after, SpillRange(p)) = value
        BY <4>2, ReadSpill
      <4> QED
        BY <4>1, <4>3
    <3> QED
      BY <1>4, <2>1, <2>3, <3>1, <3>2, <3>5, SpillMove
  <2>4. CASE q = id /\ ~ dirty[id]
    <3>1. ~ OnChip(id)' /\ home'[id] = home[id] /\ dirty'[id] = dirty[id] /\ home[id] # None
      <4>1. ~ OnChip(id)'
        BY <1>3, <1>11 DEF OnChip
      <4>2. home'[id] = home[id]
        BY <1>3, <1>12, <2>4
      <4>3. dirty'[id] = dirty[id]
        BY <1>12, <2>1, <2>4 DEF Types
      <4>4. home[id] # None
        BY <1>7, <2>1, <2>4 DEF Good
      <4> QED
        BY <4>1, <4>2, <4>3, <4>4
    <3> QED
      BY <1>4, <1>14, <1>15, <2>1, <2>4, <3>1, DropClean
  <2> QED
    BY <2>2, <2>3, <2>4
<1>17. \A q \in Objects : slot'[q] # None => initialized[q]
  BY <1>1, <1>11, HeldObjects
<1>18. Moved
  BY <1>4, <1>13, <1>14, <1>16 DEF Moved
<1> QED
  BY <1>1, <1>4, <1>6, <1>17, <1>18, MoveVersions DEF Running

LEMMA PlaceVersions ==
    ASSUME NoneIsNoFunction, IInv, Versions, Place
    PROVE  Versions' /\ Moved
<1>1. PICK o \in ToPlace :
        \/ NoDefinition(o) \/ EvictTable(o)
        \/ EvictForSlot(o) \/ TakeSlot(o)
        \/ EvictForLoad(o) \/ Fill(o)
        \/ YieldPlace(o) \/ CapacityError(o) \/ InvalidLoad(o)
  BY DEF Place
<1>2. Running /\ o \in Objects /\ Target # None
  BY ToPlaceTyped, NoneApart DEF IInv
<1>3. CASE NoDefinition(o)
  <2>1. slot[o] = None /\ (~ initialized[o] \/ home[o] = None) /\ RaiseError("logic_error")
    BY <1>3 DEF NoDefinition, Unreloadable
  <2>2. ~ initialized[o]
    BY <2>1, TargetHome DEF IInv
  <2>3. ~ WellFormed
    BY <2>2, TargetBlame DEF IInv
  <2> QED
    BY <1>2, <2>1, <2>3, RaiseVersions
<1>4. CASE CapacityError(o) \/ InvalidLoad(o)
  <2>1. PICK what \in {"capacity", "invalid"} : RaiseError(what)
    BY <1>4 DEF CapacityError, InvalidLoad
  <2> QED
    BY <1>2, <2>1, RaiseVersions
<1>5. CASE EvictTable(o)
  <2>1. OtherTables(o) # {} /\ Evict({Smallest(OtherTables(o))}, FALSE)
    BY <1>5 DEF EvictTable
  <2>2. OtherTables(o) \in SUBSET Nat
    BY ShapeAssumption DEF OtherTables, Resident
  <2>3. Smallest(OtherTables(o)) \in OtherTables(o)
    BY <2>1, <2>2, SmallestInSet
  <2>4. PICK victims : victims = {Smallest(OtherTables(o))}
    OBVIOUS
  <2>5. victims \in SUBSET Resident /\ \A v \in victims : Shape[v].type = 1
    BY <2>3, <2>4 DEF OtherTables
  <2> QED
    BY <1>2, <2>1, <2>4, <2>5, EvictVersions
<1>6. CASE EvictForSlot(o)
  <2>1. PICK v \in Victim(o) : Evict({v}, FALSE)
    BY <1>6 DEF EvictForSlot
  <2>2. PICK victims : victims = {v}
    OBVIOUS
  <2>3. victims \in SUBSET Resident /\ \A w \in victims : w \notin Operands
    BY <2>2, VictimApart
  <2> QED
    BY <1>2, <2>1, <2>2, <2>3, EvictVersions
<1>7. CASE EvictForLoad(o)
  <2>1. PICK victims \in Clearing(o) : Evict(victims, FALSE)
    BY <1>7 DEF EvictForLoad
  <2>2. victims \in SUBSET Resident /\ \A w \in victims : w \notin Operands
    BY ClearingApart
  <2> QED
    BY <1>2, <2>1, <2>2, EvictVersions
<1>8. CASE TakeSlot(o)
  <2>1. initialized[o]
    BY <1>8 DEF TakeSlot, Unreloadable
  <2> QED
    BY <1>2, <1>8, <2>1, TakeVersions DEF TakeSlot
<1>9. CASE Fill(o)
  BY <1>9, FillVersions
<1>10. CASE YieldPlace(o)
  BY <1>10, YieldVersions
<1> QED
  BY <1>1, <1>3, <1>4, <1>5, <1>6, <1>7, <1>8, <1>9, <1>10

\* Freezing: the saved version is on chip, and will be spilled.
LEMMA FreezeVersions ==
    ASSUME NoneIsNoFunction, IInv, Versions, Freeze
    PROVE  Versions' /\ Moved
<1>1. Running /\ Current.op = "store" /\ Current.required /\ Target = None /\ ToFreeze # {}
  BY DEF Freeze, Executes
<1>2. PICK o \in Objects : o = Smallest(ToFreeze) /\ o \in ToFreeze
  BY <1>1, FreezeObject
<1>3. /\ dirty' = [dirty EXCEPT ![o] = TRUE] /\ home' = [home EXCEPT ![o] = None]
      /\ UNCHANGED <<code, automatic, cursor, slot, initialized, modulus, layout, loading,
                     regs, ddr, context, status>>
  BY <1>2 DEF Freeze
<1>4. OnChip(o)
  <2>1. PICK list : list = <<o>>
    OBVIOUS
  <2>2. list \in Seq(Objects) /\ FirstMissing(list) = None
    BY <1>1, <1>2, <2>1, TargetStore
  <2>3. 1 \in DOMAIN list /\ list[1] = o
    BY <2>1
  <2> QED
    BY <2>2, <2>3, NothingMissing
<1>5. Shape[o].type # 1
  <2>1. /\ home[o] # None
        /\ \E j \in DOMAIN home[o], k \in DOMAIN Current.range : home[o][j] = Current.range[k]
    BY <1>2 DEF ToFreeze, Endangered
  <2>2. \A k \in DOMAIN Current.range : Current.range[k] \notin ReadOnly
    BY <1>1, CurrentInstruction, InstructionRules DEF IInv
  <2>3. Good(o)
    BY DEF Versions
  <2> QED
    BY <2>1, <2>2, <2>3 DEF Good
<1>6. \A q : Live(q)' = Live(q)
  BY <1>3, SamePlace
<1>7. ASSUME NEW q \in Objects
      PROVE  Carried(q)
  <2>1. Good(q) /\ Types
    BY DEF Versions, IInv
  <2>2. OnChip(q)' = OnChip(q) /\ regs'[slot'[q]] = regs[slot[q]]
    BY <1>3 DEF OnChip
  <2>3. CASE q # o
    <3>1. home'[q] = home[q] /\ dirty'[q] = dirty[q]
      BY <1>2, <1>3, <2>1, <2>3 DEF Types
    <3> QED
      BY <1>3, <1>6, <2>1, <2>2, <3>1, StaySame
  <2>4. CASE q = o
    <3>1. home'[o] = None /\ dirty'[o] = TRUE
      BY <1>2, <1>3, <2>1 DEF Types
    <3> QED
      BY <1>3, <1>4, <1>5, <2>1, <2>2, <2>4, <3>1, FreezeMove
  <2> QED
    BY <2>3, <2>4
<1>8. \A q \in Objects : slot'[q] # None => initialized[q]
  BY <1>1, <1>3, HeldObjects DEF IsKernel
<1>9. ~ loading
  BY <1>1 DEF Versions, Phase
<1>10. Moved
  BY <1>3, <1>7 DEF Moved
<1> QED
  BY <1>1, <1>3, <1>8, <1>9, <1>10, MoveVersions DEF Running

-----------------------------------------------------------------------------
(* Steps that complete an instruction.                                     *)

\* The home of a clean object is where its present version came from or went to.
Homed ==
    \A o \in Objects : ~ dirty[o] /\ home[o] # None =>
        \/ home[o] = SpillRange(o)
        \/ \E q \in 1 .. Position - 1 :
              HomeAt(code, q, o) /\ code[q].range = home[o] /\ ~ Recomputed(code, o, q, Position)

\* What the frees at the end of an instruction do to an object.
LEMMA CompleteKeeps ==
    ASSUME NEW where, NEW what, NEW contents, Sound(where, what, contents), Types, Running,
           NEW freed \in SUBSET Objects, Complete(freed, where, what, contents), NEW o \in Objects
    PROVE  \/ slot'[o] = None /\ (o \in freed \/ NextUse(o) = Never)
           \/ /\ slot'[o] = where[o]
              /\ where[o] # None => /\ where[o] \in Slots
                                    /\ layout'[where[o]] = what[where[o]]
                                    /\ regs'[where[o]] = contents[where[o]]
<1> DEFINE gone == freed \cup Dead(where)
           slots == {where[p] : p \in gone} \ {None}
<1>1. /\ \A p \in Objects : slot'[p] = IF p \in gone THEN None ELSE where[p]
      /\ \A s \in Slots : layout'[s] = IF s \in slots THEN None ELSE what[s]
      /\ \A s \in Slots : regs'[s] = IF s \in slots THEN None ELSE contents[s]
  BY DEF Complete
<1>2. Dead(where) \subseteq Objects
  BY OperandsTyped DEF Dead
<1>3. CASE o \in gone
  BY <1>1, <1>3 DEF Dead
<1>4. CASE o \notin gone
  <2>1. slot'[o] = where[o]
    BY <1>1, <1>4
  <2>2. ASSUME where[o] # None
        PROVE  where[o] \in Slots /\ where[o] \notin slots
    <3>1. \A p \in gone : where[p] # where[o]
      BY <1>2, <1>4, <2>2 DEF Sound, Apart
    <3> QED
      BY <2>2, <3>1 DEF Sound, Slotted
  <2> HIDE DEF slots
  <2> QED
    BY <1>1, <2>1, <2>2
<1> QED
  BY <1>3, <1>4

\* What is live after an instruction.
LEMMA LiveAfter ==
    ASSUME Types, Running, code' = code, cursor' = cursor + 1, ~ loading'
    PROVE  /\ Position' = cursor + 1
           /\ \A o \in Objects :
                 /\ Live(o)' <=> initialized'[o] /\ (UsedFrom(code, o, cursor + 1) \/ Shape[o].type = 1)
                 /\ UsedFrom(code, o, cursor + 1) => UsedFrom(code, o, Position)
<1>1. Position' = cursor + 1
  BY DEF Position
<1>2. \A o \in Objects : UsedFrom(code, o, cursor + 1) => UsedFrom(code, o, Position)
  BY UsedNow DEF Position, Running
<1> QED
  BY <1>1, <1>2 DEF Live, UsedFrom, UsePositions

LEMMA PassCarries ==
    ASSUME IInv, Versions, Running, NEW freed \in SUBSET Objects, Complete(freed, slot, layout, regs),
           NEW o \in Objects, o \in freed => NextUse(o) = Never, ~ loading',
           home'[o] = home[o], dirty'[o] = dirty[o], initialized'[o] = initialized[o],
           Safe /\ Live(o)' /\ ~ dirty[o] /\ home[o] # None =>
              Read(ddr', home[o]) = Read(ddr, home[o])
    PROVE  Carried(o)
<1>1. PICK where, what, contents : where = slot /\ what = layout /\ contents = regs
  OBVIOUS
<1>2. Sound(where, what, contents) /\ Complete(freed, where, what, contents)
  BY <1>1 DEF IInv
<1>3. \/ slot'[o] = None /\ (o \in freed \/ NextUse(o) = Never)
      \/ /\ slot'[o] = where[o]
         /\ where[o] # None => /\ where[o] \in Slots
                               /\ layout'[where[o]] = what[where[o]]
                               /\ regs'[where[o]] = contents[where[o]]
  BY <1>2, CompleteKeeps DEF IInv
<1>4. code' = code /\ cursor' = cursor + 1 /\ automatic' = automatic
  BY DEF Complete
<1>5. /\ Live(o)' <=> initialized'[o] /\ (UsedFrom(code, o, cursor + 1) \/ Shape[o].type = 1)
      /\ Live(o)' => Live(o)
  BY <1>4, LiveAfter DEF IInv, Live
<1>6. Good(o) /\ Types
  BY DEF Versions, IInv
<1>7. CASE slot'[o] = None /\ NextUse(o) = Never
  <2>1. ~ OnChip(o)'
    BY <1>7 DEF OnChip
  <2>2. Live(o)' => ~ dirty[o] /\ home[o] # None
    <3>1. ~ UsedFrom(code, o, cursor + 1)
      BY <1>6, <1>7, NeverUsed
    <3> QED
      BY <1>5, <1>6, <3>1 DEF Good
  <2> QED
    BY <1>4, <1>5, <1>6, <2>1, <2>2, DropClean
<1>8. CASE /\ slot'[o] = where[o]
           /\ where[o] # None => /\ where[o] \in Slots
                                 /\ layout'[where[o]] = what[where[o]]
                                 /\ regs'[where[o]] = contents[where[o]]
  <2>1. OnChip(o)' = OnChip(o) /\ (OnChip(o) => regs'[slot'[o]] = regs[slot[o]])
    BY <1>1, <1>8 DEF OnChip
  <2> QED
    BY <1>4, <1>5, <1>6, <2>1, StaySame
<1> QED
  BY <1>3, <1>7, <1>8

\* Who has a slot after the frees had one before.
LEMMA PassHeld ==
    ASSUME IInv, Running, NEW freed \in SUBSET Objects, Complete(freed, slot, layout, regs),
           NEW o \in Objects, slot'[o] # None
    PROVE  slot[o] # None
BY DEF Complete

\* The definition of the current instruction is recorded with it.
LEMMA DefinedNext ==
    ASSUME Types, Running, NEW o
    PROVE  DefinedBefore(o, cursor + 1) <=>
              DefinedBefore(o, cursor) \/ (Current.def = o /\ ~ Current.retained)
<1>1. cursor \in Nat /\ cursor >= 1
  BY DEF Types
<1>2. 1 .. (cursor + 1 - 1) = (1 .. (cursor - 1)) \cup {cursor}
  BY <1>1
<1> QED
  BY <1>2 DEF DefinedBefore, Current

LEMMA CompleteVersions ==
    ASSUME Types, Versions, Running, code' = code, automatic' = automatic, cursor' = cursor + 1,
           status' = status, ~ loading',
           \A o \in Objects :
              /\ Good(o)'
              /\ initialized'[o] <=> initialized[o] \/ (Current.def = o /\ ~ Current.retained)
              /\ slot'[o] # None => initialized'[o],
           modulus' # None => initialized'[modulus'] /\ Shape[modulus'].type = 1
    PROVE  Versions'
<1>1. Phase' /\ Held' /\ TableKnown' /\ Blamed'
  BY DEF Phase, Held, TableKnown, Blamed, Running
<1>2. ASSUME NEW o \in Objects
      PROVE  initialized'[o] <=> DefinedBefore(o, cursor + 1)
  <2>1. initialized[o] <=> DefinedBefore(o, Position)
    BY DEF Versions, Recorded
  <2>2. CASE ~ loading
    BY <2>1, <2>2, DefinedNext DEF Position
  <2>3. CASE loading
    <3>1. initialized[Current.def] /\ ~ Current.retained /\ (DefinedBefore(o, cursor + 1) <=> initialized[o])
      BY <2>1, <2>3 DEF Versions, Phase, Position
    <3> QED
      BY <3>1
  <2> QED
    BY <2>2, <2>3
<1>3. Recorded'
  <2>1. Position' = cursor + 1
    BY LiveAfter
  <2> QED
    BY <1>2, <2>1 DEF Recorded, DefinedBefore
<1>4. Imported'
  BY DEF Versions, Imported
<1> QED
  BY <1>1, <1>3, <1>4 DEF Versions

\* The instructions that leave homes and memory alone.
LEMMA OtherVersions ==
    ASSUME NoneIsNoFunction, IInv, Versions, EndLoad \/ DeferStore \/ Free \/ LoadModulus \/ Sync
    PROVE  /\ Versions' /\ \A o \in Objects : Carried(o)
           /\ Running /\ ~ loading' /\ ~ IsKernel(Current)
           /\ UNCHANGED <<code, automatic, home, dirty, modulus, ddr>> /\ cursor' = cursor + 1
<1>1. /\ Running
      /\ UNCHANGED <<modulus, home, initialized, dirty, ddr>>
      /\ Current.op \in {"load", "store", "free", "modld", "sync"}
      /\ Current.op = "load" => loading' = FALSE /\ (loading \/ Current.retained)
      /\ Current.op # "load" => loading' = loading
  BY DEF EndLoad, DeferStore, Free, LoadModulus, Sync, Executes
<1>2. Current \in VirtualInstructions
  BY <1>1, CurrentInstruction DEF IInv
<1>3. PICK freed \in SUBSET Objects :
        /\ Complete(freed, slot, layout, regs)
        /\ \A o \in freed : NextUse(o) = Never
  <2>1. CASE Free
    <3>1. PICK o : o = Current.sources[1]
      OBVIOUS
    <3>2. o \in Objects
      BY <1>2, <2>1, <3>1, InstructionFields DEF Free, Executes
    <3>3. PICK freed : freed = IF NextUse(o) = Never THEN {o} ELSE {}
      OBVIOUS
    <3>4. freed \in SUBSET Objects /\ \A q \in freed : NextUse(q) = Never
      BY <3>2, <3>3
    <3>5. Complete(freed, slot, layout, regs)
      BY <2>1, <3>1, <3>3 DEF Free
    <3> QED
      BY <3>4, <3>5
  <2>2. CASE ~ Free
    <3>1. PICK freed : freed = {}
      OBVIOUS
    <3>2. Complete(freed, slot, layout, regs)
      BY <2>2, <3>1 DEF EndLoad, DeferStore, LoadModulus, Sync
    <3> QED
      BY <3>1, <3>2
  <2> QED
    BY <2>1, <2>2
<1>4. ~ loading'
  BY <1>1 DEF Versions, Phase
<1>5. /\ code' = code /\ automatic' = automatic /\ cursor' = cursor + 1 /\ status' = status
  BY <1>3 DEF Complete
<1>6. ASSUME NEW o \in Objects
      PROVE  Carried(o)
  BY <1>1, <1>3, <1>4, PassCarries
<1>7. ASSUME NEW o \in Objects
      PROVE  initialized'[o] <=> initialized[o] \/ (Current.def = o /\ ~ Current.retained)
  <2>1. CASE Current.op = "load"
    BY <1>1, <2>1 DEF Versions, Phase
  <2>2. CASE Current.op # "load"
    <3>1. Current.def = None
      BY <1>1, <1>2, <2>2, InstructionRules DEF IsKernel
    <3> QED
      BY <1>1, <3>1, NoneApart
  <2> QED
    BY <2>1, <2>2
<1>8. ~ IsKernel(Current)
  BY <1>1 DEF IsKernel
<1>9. \A o \in Objects : slot'[o] # None => initialized'[o]
  BY <1>1, <1>3, <1>8, PassHeld, HeldObjects
<1>10. modulus' # None => initialized'[modulus'] /\ Shape[modulus'].type = 1
  BY <1>1 DEF Versions, TableKnown
<1>11. \A o \in Objects : Good(o)'
  BY <1>6 DEF Carried
<1>12. Versions'
  BY <1>1, <1>4, <1>5, <1>7, <1>9, <1>10, <1>11, CompleteVersions DEF IInv
<1> QED
  BY <1>1, <1>4, <1>5, <1>6, <1>8, <1>12

\* store() has frozen every other version in the lines that it overwrites.
LEMMA StoreApart ==
    ASSUME NoneIsNoFunction, IInv, Versions, Homed, Store,
           NEW o \in Objects, o # Current.sources[1],
           Safe, initialized[o], ~ dirty[o], home[o] # None,
           Shape[o].type = 1 \/ UsedFrom(code, o, cursor + 1)
    PROVE  Read(ddr', home[o]) = Read(ddr, home[o])
<1>1. /\ Running /\ Current.op = "store" /\ ToFreeze = {}
      /\ ddr' = Written(ddr, Current.range, regs[slot[Current.sources[1]]])
  BY DEF Store, Executes
<1>2. Current \in VirtualInstructions
  BY <1>1, CurrentInstruction DEF IInv
<1>2a. Current.required
  BY DEF Store
<1>3. /\ Current.range \in Views
      /\ \A k \in DOMAIN Current.range : Current.range[k] \notin ReadOnly
  BY <1>1, <1>2, InstructionFields, InstructionRules
<1>4. PICK before, range, value : before = ddr /\ range = Current.range /\ value = regs[slot[Current.sources[1]]]
  OBVIOUS
<1>5. ddr' = Written(before, range, value) /\ DOMAIN before = ImageCells \cup SpillCells
  BY <1>1, <1>4 DEF IInv, Types
<1>6. \A k \in DOMAIN range : range[k] \in ImageCells
  BY <1>3, <1>4 DEF Views
<1>7. PICK house : house = home[o]
  OBVIOUS
<1>8. Good(o)
  BY DEF Versions
<1>9. ~ \E j \in DOMAIN house, k \in DOMAIN range : house[j] = range[k]
  <2>1. CASE Shape[o].type = 1
    BY <1>3, <1>4, <1>7, <1>8, <2>1 DEF Good
  <2>2. CASE Shape[o].type # 1 /\ automatic
    <3>1. NextUse(o) # Never
      BY <2>2, NeverUsed DEF IInv
    <3>2. ~ Endangered(o)
      BY <1>1 DEF ToFreeze
    <3> QED
      BY <1>4, <1>7, <3>1, <3>2, <2>2 DEF Endangered
  <2>3. CASE Shape[o].type # 1 /\ ~ automatic
    <3>1. Undisturbed(code) /\ UsedFrom(code, o, cursor + 1)
      BY <2>3 DEF Safe
    <3>2. cursor \in 1 .. Len(code) /\ Current = code[cursor] /\ Position = cursor
      BY <1>1, CurrentInstruction DEF IInv, Current, Versions, Phase, Position
    <3>3. CASE house = SpillRange(o)
      <4>1. \A j \in DOMAIN house : house[j][1] = -o
        BY <3>3 DEF SpillRange
      <4> QED
        BY <1>6, <4>1, CellsAssumption
    <3>4. CASE house # SpillRange(o)
      <4>1. PICK q \in 1 .. cursor - 1 :
              /\ HomeAt(code, q, o) /\ code[q].range = house
              /\ ~ Recomputed(code, o, q, cursor)
        BY <1>7, <3>2, <3>4 DEF Homed
      <4>2. \A j \in DOMAIN code[q].range, k \in DOMAIN code[cursor].range :
               code[q].range[j] # code[cursor].range[k]
        BY <1>1, <1>2a, <3>1, <3>2, <4>1 DEF Undisturbed
      <4> QED
        BY <1>4, <3>2, <4>1, <4>2
    <3> QED
      BY <3>3, <3>4
  <2> QED
    BY <2>1, <2>2, <2>3
<1>10. \A j \in DOMAIN house : house[j] \in DOMAIN before
  <2>1. CASE house \in Views
    BY <1>5, <2>1 DEF Views
  <2>2. CASE house = SpillRange(o)
    BY <1>5, <2>2 DEF SpillRange, SpillCells
  <2> QED
    BY <1>7, <1>8, <2>1, <2>2 DEF Good
<1>11. \A j \in DOMAIN house : ddr'[house[j]] = ddr[house[j]]
  <2> SUFFICES ASSUME NEW j \in DOMAIN house
               PROVE  ddr'[house[j]] = ddr[house[j]]
    OBVIOUS
  <2>1. PICK cell : cell = house[j]
    OBVIOUS
  <2>2. cell \in DOMAIN before /\ \A k \in DOMAIN range : range[k] # cell
    BY <1>9, <1>10, <2>1
  <2> QED
    BY <1>4, <1>5, <2>1, <2>2, WriteElsewhere
<1> QED
  BY <1>7, <1>11 DEF Read

\* The stored object is on chip; memory then has what the chip has.
LEMMA StoreThere ==
    ASSUME NoneIsNoFunction, IInv, Versions, Store
    PROVE  /\ Running /\ Current \in VirtualInstructions /\ Current.op = "store"
           /\ Current.sources[1] \in Objects /\ Shape[Current.sources[1]].type # 1
           /\ OnChip(Current.sources[1]) /\ Current.range \in Views
           /\ Read(ddr', Current.range) = regs[slot[Current.sources[1]]]
<1>1. /\ Running /\ Current.op = "store" /\ ToFreeze = {} /\ Current.required /\ Target = None
      /\ ddr' = Written(ddr, Current.range, regs[slot[Current.sources[1]]])
  BY DEF Store, Executes
<1>2. Current \in VirtualInstructions
  BY <1>1, CurrentInstruction DEF IInv
<1>3. PICK id : id = Current.sources[1]
  OBVIOUS
<1>4. /\ Current.range \in Views /\ Current.sources \in Seq(Objects) /\ Current.sources # << >>
      /\ id \in Objects /\ Len(Current.range) = Shape[id].width
  BY <1>1, <1>2, <1>3, InstructionFields
<1>5. 1 \in DOMAIN Current.sources
  BY <1>4
<1>6. OnChip(id)
  <2>1. FirstMissing(Current.sources) = None
    BY <1>1, TargetStore
  <2> QED
    BY <1>3, <1>4, <1>5, <2>1, NothingMissing
<1>7. Shape[id].type # 1
  <2>1. UsedBy(id, Current)
    BY <1>1, <1>3, <1>5 DEF UsedBy, Uses, SourceSet
  <2>2. Shape[id].type = 0
    BY <1>1, <1>4, <2>1, UsesAreOperands DEF IInv, Running
  <2> QED
    BY <2>2
<1>8. PICK before, range, value : before = ddr /\ range = Current.range /\ value = regs[slot[id]]
  OBVIOUS
<1>9. /\ ddr' = Written(before, range, value)
      /\ \A j, k \in DOMAIN range : range[j] = range[k] => j = k
      /\ \A k \in DOMAIN range : range[k] \in DOMAIN before
      /\ DOMAIN range = 1 .. Shape[id].width
  BY <1>1, <1>3, <1>4, <1>8 DEF IInv, Types, Views
<1>10. value = [k \in 1 .. Shape[id].width |-> value[k]]
  BY <1>4, <1>6, <1>8 DEF Versions, Good
<1>11. ASSUME NEW k \in DOMAIN range
       PROVE  ddr'[range[k]] = value[k]
  <2>1. range[k] \in DOMAIN before
    BY <1>9
  <2>2. \A i, j \in DOMAIN range : range[i] = range[j] => i = j
    BY <1>9
  <2>3. Written(before, range, value)[range[k]] = value[k]
    BY <2>1, <2>2, WriteThere
  <2> QED
    BY <1>9, <2>3
<1>12. Read(ddr', range) = value
  BY <1>9, <1>10, <1>11 DEF Read
<1> QED
  BY <1>1, <1>2, <1>3, <1>4, <1>6, <1>7, <1>8, <1>12

LEMMA StoreVersions ==
    ASSUME NoneIsNoFunction, IInv, Versions, Homed, Store
    PROVE  Versions' /\ \A o \in Objects : Carried(o)
<1>1. PICK id : id = Current.sources[1]
  OBVIOUS
<1>2. /\ Running /\ Current \in VirtualInstructions /\ Current.op = "store"
      /\ id \in Objects /\ Shape[id].type # 1 /\ OnChip(id) /\ Current.range \in Views
      /\ Read(ddr', Current.range) = regs[slot[id]]
  BY <1>1, StoreThere
<1>3. /\ home' = [home EXCEPT ![id] = Current.range] /\ dirty' = [dirty EXCEPT ![id] = FALSE]
      /\ UNCHANGED <<modulus, initialized, loading, context>>
  BY <1>1 DEF Store
<1>4. PICK freed \in SUBSET {id} : Complete(freed, slot, layout, regs)
  <2>1. PICK freed : freed = IF (IF automatic THEN NextUse(id) = Never ELSE Current.release) THEN {id} ELSE {}
    OBVIOUS
  <2>2. Complete(freed, slot, layout, regs)
    BY <1>1, <2>1 DEF Store
  <2>3. freed \in SUBSET {id}
    BY <2>1
  <2> QED
    BY <2>2, <2>3
<1>5. ~ loading'
  BY <1>2, <1>3 DEF Versions, Phase
<1>6. code' = code /\ automatic' = automatic /\ cursor' = cursor + 1 /\ status' = status
  BY <1>4 DEF Complete
<1>7. \A o \in Objects : /\ home'[o] = IF o = id THEN Current.range ELSE home[o]
                         /\ dirty'[o] = (dirty[o] /\ o # id)
  BY <1>3 DEF IInv, Types
<1>8. ASSUME NEW o \in Objects
      PROVE  Carried(o)
  <2>1. CASE o # id
    <3>1. home'[o] = home[o] /\ dirty'[o] = dirty[o] /\ initialized'[o] = initialized[o]
      BY <1>3, <1>7, <2>1 DEF IInv, Types
    <3>2. Safe /\ Live(o)' /\ ~ dirty[o] /\ home[o] # None => Read(ddr', home[o]) = Read(ddr, home[o])
      BY <1>1, <1>2, <1>3, <1>5, <1>6, <2>1, StoreApart, LiveAfter DEF IInv
    <3>3. freed \in SUBSET Objects /\ o \notin freed
      BY <1>2, <1>4, <2>1
    <3> QED
      BY <1>2, <1>4, <1>5, <3>1, <3>2, <3>3, PassCarries
  <2>2. CASE o = id
    <3>1. PICK where, what, contents : where = slot /\ what = layout /\ contents = regs
      OBVIOUS
    <3>2. Sound(where, what, contents) /\ Complete(freed, where, what, contents)
      BY <1>4, <3>1 DEF IInv
    <3>3. slot'[o] # None => slot'[o] = where[o] /\ regs'[where[o]] = contents[where[o]]
      BY <1>2, <1>4, <3>2, CompleteKeeps DEF IInv
    <3>4. OnChip(o)' => regs'[slot'[o]] = regs[slot[o]]
      BY <3>1, <3>3 DEF OnChip
    <3>5. PICK range \in Views : range = Current.range
      BY <1>2
    <3>6. home'[o] = range /\ dirty'[o] = FALSE /\ initialized'[o] = initialized[o]
      BY <1>3, <2>2, <3>5 DEF IInv, Types
    <3>7. Good(o)
      BY DEF Versions
    <3> QED
      BY <1>2, <1>6, <2>2, <3>4, <3>5, <3>6, <3>7, StoreMove
  <2> QED
    BY <2>1, <2>2
<1>9. \A o \in Objects : initialized'[o] <=> initialized[o] \/ (Current.def = o /\ ~ Current.retained)
  <2>1. Current.def = None
    BY <1>2, InstructionRules DEF IsKernel
  <2> QED
    BY <1>3, <2>1, NoneApart
<1>10. \A o \in Objects : slot'[o] # None => initialized'[o]
  <2>1. freed \in SUBSET Objects /\ ~ IsKernel(Current)
    BY <1>2, <1>4 DEF IsKernel
  <2> QED
    BY <1>2, <1>3, <1>4, <2>1, PassHeld, HeldObjects
<1>11. modulus' # None => initialized'[modulus'] /\ Shape[modulus'].type = 1
  BY <1>3 DEF Versions, TableKnown
<1>12. \A o \in Objects : Good(o)'
  BY <1>8 DEF Carried
<1>13. Versions'
  BY <1>2, <1>5, <1>6, <1>9, <1>10, <1>11, <1>12, CompleteVersions DEF IInv
<1> QED
  BY <1>8, <1>13

\* An object whose definition is recorded, and that is to be loaded from there.
LEMMA LoadMove ==
    ASSUME NoneIsNoFunction, NEW o \in Objects, ~ OnChip(o)', dirty'[o] = FALSE,
           NEW range \in Views, home'[o] = range,
           Shape[o].type = 1 => \A k \in DOMAIN range : range[k] \in ReadOnly
    PROVE  Good(o)' /\ Denoted(o)' = Read(ddr', range)
<1>1. range # None
  BY RangesApart
<1> QED
  BY <1>1 DEF Good, Denoted

\* load() of an object that another definition has not put on chip.
LEMMA LoadIsNew ==
    ASSUME IInv, Versions, StartLoad, Lazy
    PROVE  slot[Current.def] = None
<1>1. PICK id : id = Current.def
  OBVIOUS
<1>2. /\ Running /\ Current.op = "load" /\ ~ Current.retained /\ ~ loading
      /\ \A k \in DOMAIN Current.range : Current.range[k] \in ReadOnly
  BY DEF StartLoad, Lazy
<1>3. id \in Objects /\ ~ IsKernel(Current)
  BY <1>1, <1>2, CurrentInstruction, InstructionFields DEF IInv, IsKernel
<1>4. PICK suite \in Programs : code \in suite.codes
  BY DEF Versions, Imported
<1>5. cursor \in DOMAIN code /\ cursor \in Nat
  BY <1>2, CurrentInstruction DEF IInv
<1>6. \A p \in 1 .. cursor - 1 : code[p].def # id
  BY <1>1, <1>2, <1>4, <1>5, ReferencesAssumption DEF Current
<1>7. ~ initialized[id]
  BY <1>2, <1>3, <1>6 DEF Versions, Recorded, DefinedBefore, Position
<1> QED
  BY <1>1, <1>2, <1>3, <1>7, HeldObjects

LEMMA StartLoadVersions ==
    ASSUME NoneIsNoFunction, IInv, Versions, StartLoad
    PROVE  /\ Versions' /\ \A o \in Objects \ {Current.def} : Carried(o)
           /\ \A id \in Objects : id = Current.def => Denoted(id)' = Read(ddr, Current.range)
           /\ Running /\ Position' = cursor + 1
<1>1. PICK id : id = Current.def
  OBVIOUS
<1>2. PICK range : range = Current.range
  OBVIOUS
<1>3. /\ Running /\ Current.op = "load" /\ ~ Current.retained /\ ~ loading
      /\ home' = [home EXCEPT ![id] = range]
      /\ initialized' = [initialized EXCEPT ![id] = TRUE]
      /\ dirty' = [dirty EXCEPT ![id] = FALSE]
      /\ modulus' = IF Shape[id].type = 1 THEN id ELSE modulus
      /\ UNCHANGED <<ddr, context>>
  BY <1>1, <1>2 DEF StartLoad
<1>4. Current \in VirtualInstructions /\ ~ IsKernel(Current)
  BY <1>3, CurrentInstruction DEF IInv, IsKernel
<1>5. /\ id \in Objects /\ range \in Views
      /\ Shape[id].type = 1 => \A k \in DOMAIN range : range[k] \in ReadOnly
  BY <1>1, <1>2, <1>3, <1>4, InstructionFields, InstructionRules
<1>6. \A o \in Objects : /\ home'[o] = IF o = id THEN range ELSE home[o]
                         /\ initialized'[o] <=> initialized[o] \/ o = id
                         /\ dirty'[o] = (dirty[o] /\ o # id)
  BY <1>3, <1>5 DEF IInv, Types
<1>7. /\ home'[id] = range /\ initialized'[id] /\ dirty'[id] = FALSE
  BY <1>3, <1>5 DEF IInv, Types
<1>8. modulus' # None => initialized'[modulus'] /\ Shape[modulus'].type = 1
  BY <1>3, <1>5, <1>6 DEF Versions, TableKnown, IInv, Types
<1>9. \A o \in Objects : Good(o)
  BY DEF Versions
<1>10. ASSUME ~ OnChip(id)'
       PROVE  Good(id)' /\ Denoted(id)' = Read(ddr, range)
  <2>1. Good(id)' /\ Denoted(id)' = Read(ddr', range)
    BY <1>5, <1>7, <1>10, LoadMove
  <2> QED
    BY <1>3, <2>1
<1>11. CASE Lazy
  <2>1. Complete({}, slot, layout, regs) /\ loading' = loading
    BY <1>11 DEF StartLoad
  <2>2. PICK freed \in SUBSET Objects : freed = {}
    OBVIOUS
  <2>3. Complete(freed, slot, layout, regs) /\ \A o \in freed : NextUse(o) = Never
    BY <2>1, <2>2
  <2>4. code' = code /\ automatic' = automatic /\ cursor' = cursor + 1 /\ status' = status /\ ~ loading'
    BY <1>3, <2>1 DEF Complete
  <2>5. slot[id] = None
    BY <1>1, <1>11, LoadIsNew
  <2>6. ~ OnChip(id)'
    <3>1. slot'[id] = None
      BY <1>3, <1>5, <2>3, <2>5, PassHeld
    <3> QED
      BY <3>1 DEF OnChip
  <2>7. ASSUME NEW o \in Objects, o # id
        PROVE  Carried(o)
    <3>1. home'[o] = home[o] /\ dirty'[o] = dirty[o] /\ initialized'[o] = initialized[o]
      BY <1>3, <2>7 DEF IInv, Types
    <3> QED
      BY <1>3, <2>3, <2>4, <3>1, PassCarries
  <2>8. \A o \in Objects : Good(o)'
    BY <1>10, <2>6, <2>7 DEF Carried
  <2>9. \A o \in Objects : slot'[o] # None => initialized'[o]
    BY <1>3, <1>4, <1>6, <2>3, PassHeld, HeldObjects
  <2>10. \A o \in Objects : initialized'[o] <=> initialized[o] \/ (Current.def = o /\ ~ Current.retained)
    BY <1>1, <1>3, <1>6
  <2>11. Versions'
    BY <1>3, <1>8, <2>4, <2>8, <2>9, <2>10, CompleteVersions DEF IInv
  <2> QED
    BY <1>1, <1>2, <1>3, <1>10, <2>4, <2>6, <2>7, <2>11 DEF Position
<1>12. CASE ~ Lazy
  <2>1. /\ loading' = TRUE /\ slot' = [slot EXCEPT ![id] = None]
        /\ layout' = [s \in Slots |-> IF s = slot[id] THEN None ELSE layout[s]]
        /\ regs' = [s \in Slots |-> IF s = slot[id] THEN None ELSE regs[s]]
        /\ UNCHANGED <<code, automatic, cursor, status>>
    BY <1>1, <1>12 DEF StartLoad
  <2>2. \A o \in Objects : slot'[o] = IF o = id THEN None ELSE slot[o]
    BY <1>5, <2>1 DEF IInv, Sound, Slotted
  <2>3. Position' = cursor + 1 /\ Position = cursor
    BY <1>3, <2>1 DEF Position
  <2>4. ~ OnChip(id)'
    BY <1>5, <2>2 DEF OnChip
  <2>5. ASSUME NEW o \in Objects, o # id
        PROVE  Carried(o)
    <3>1. home'[o] = home[o] /\ dirty'[o] = dirty[o] /\ initialized'[o] = initialized[o]
      BY <1>3, <2>5 DEF IInv, Types
    <3>2. OnChip(o)' = OnChip(o) /\ (OnChip(o) => regs'[slot'[o]] = regs[slot[o]])
      <4>1. slot[o] # None => slot[o] \in Slots /\ slot[o] # slot[id]
        BY <1>5, <2>5 DEF IInv, Sound, Slotted, Apart
      <4> QED
        BY <2>1, <2>2, <2>5, <4>1 DEF OnChip
    <3>3. Live(o)' => Live(o)
      <4>1. UsedFrom(code, o, cursor + 1) => UsedFrom(code, o, cursor)
        BY <1>3, UsedNow DEF IInv, Running
      <4>2. UsedFrom(code, o, Position)' = UsedFrom(code, o, cursor + 1)
        BY <2>1, <2>3 DEF UsedFrom, UsePositions
      <4> QED
        BY <2>3, <3>1, <4>1, <4>2 DEF Live
    <3> QED
      BY <1>3, <1>9, <2>1, <3>1, <3>2, <3>3, StaySame DEF IInv
  <2>6. \A o \in Objects : Good(o)'
    BY <1>10, <2>4, <2>5 DEF Carried
  <2>7. Current' = Current /\ (status' = "logic_error" <=> FALSE)
    BY <1>3, <2>1 DEF Current, Running
  <2>8. Phase'
    <3>1. home'[id] # None
      BY <1>5, <1>7, RangesApart
    <3> QED
      BY <1>1, <1>3, <1>7, <2>1, <2>7, <3>1 DEF Phase, Running
  <2>9. Held'
    BY <1>4, <1>6, <2>2, HeldObjects DEF Held
  <2>10. TableKnown' /\ Blamed' /\ Imported'
    BY <1>8, <2>1, <2>7 DEF TableKnown, Blamed, Versions, Imported
  <2>11. Recorded'
    <3>1. ASSUME NEW o \in Objects
          PROVE  initialized'[o] <=> DefinedBefore(o, cursor + 1)
      BY <1>1, <1>3, <1>6, <2>3, DefinedNext DEF Versions, Recorded, IInv
    <3> QED
      BY <2>1, <2>3, <3>1 DEF Recorded, DefinedBefore
  <2>12. Versions'
    BY <2>6, <2>8, <2>9, <2>10, <2>11 DEF Versions
  <2> QED
    BY <1>1, <1>2, <1>3, <1>10, <2>3, <2>4, <2>5, <2>12
<1> QED
  BY <1>11, <1>12

-----------------------------------------------------------------------------
(* Kernels.                                                                *)

\* A slot is handed over only by a source that is dead after the kernel.
LEMMA DonorDies ==
    ASSUME IInv, KernelReady, Transfers
    PROVE  NextUse(Donor) = Never /\ Shape[Donor].type # 1
<1>1. Transferable # {} /\ Transferable \in SUBSET Nat
  BY KernelOperands DEF Transfers, Transferable
<1>2. Smallest(Transferable) \in Transferable
  BY <1>1, SmallestInSet
<1> QED
  BY <1>2 DEF Transferable, Donor

LEMMA KernelMoveVersions ==
    ASSUME NoneIsNoFunction, IInv, Versions, EvictForDestinationSlot \/ TakeDestinationSlot \/ EvictForResult
    PROVE  Versions' /\ Moved
<1>1. KernelReady /\ Running
  BY DEF EvictForDestinationSlot, TakeDestinationSlot, EvictForResult, KernelReady
<1>2. PICK id \in Objects : id = Current.def
  BY <1>1, KernelOperands
<1>3. CASE EvictForDestinationSlot
  <2>1. PICK v \in Victim(id) : Evict({v}, FALSE)
    BY <1>2, <1>3 DEF EvictForDestinationSlot
  <2>2. PICK victims : victims = {v}
    OBVIOUS
  <2>3. victims \in SUBSET Resident /\ \A w \in victims : w \notin Operands
    BY <2>2, VictimApart
  <2> QED
    BY <1>1, <2>1, <2>2, <2>3, EvictVersions
<1>4. CASE EvictForResult
  <2>1. PICK victims \in Clearing(id) : Evict(victims, FALSE)
    BY <1>2, <1>4 DEF EvictForResult
  <2>2. victims \in SUBSET Resident /\ \A w \in victims : w \notin Operands
    BY ClearingApart
  <2> QED
    BY <1>1, <2>1, <2>2, EvictVersions
<1>5. CASE TakeDestinationSlot
  <2>1. /\ DestinationSlot = None /\ FreeSlots # {}
        /\ slot' = [slot EXCEPT ![id] = ChosenSlot(id)]
        /\ UNCHANGED <<code, automatic, cursor, home, dirty, initialized, modulus, layout, loading,
                       regs, ddr, context, status>>
    BY <1>2, <1>5 DEF TakeDestinationSlot
  <2>2. slot[id] = None
    BY <1>2, <2>1 DEF DestinationSlot, Transfers
  <2>3. Destined(id)
    BY <1>1, <1>2 DEF Destined, KernelReady, Running
  <2> QED
    BY <1>1, <2>1, <2>2, <2>3, TakeVersions
<1> QED
  BY <1>3, <1>4, <1>5

LEMMA ExecuteVersions ==
    ASSUME NoneIsNoFunction, IInv, Versions, Execute
    PROVE  /\ Versions' /\ \A o \in Objects \ {Current.def} : Carried(o)
           /\ \A id \in Objects : id = Current.def /\ Live(id)' => Denoted(id)' = Computed
           /\ Running /\ ~ loading /\ UNCHANGED <<code, automatic>> /\ cursor' = cursor + 1
<1>1. /\ KernelReady /\ UNCHANGED <<modulus, home, loading, ddr, context>>
      /\ initialized' = [initialized EXCEPT ![Current.def] = TRUE]
      /\ dirty' = [dirty EXCEPT ![Current.def] = TRUE]
  BY DEF Execute
<1>2. PICK id \in Objects : id = Current.def
  BY <1>1, KernelOperands
<1>3. /\ Running /\ IsKernel(Current) /\ Current \in VirtualInstructions /\ Target = None
  BY <1>1, KernelOperands DEF KernelReady
<1>4. Shape[id].type = 0 /\ ~ Current.retained /\ ~ loading
  BY <1>2, <1>3, InstructionRules, InstructionFields DEF Versions, Phase, IsKernel
<1>5. PICK where2, what2, contents2 : Executed(where2, what2, contents2)
  BY ExecuteEffect
<1>6. PICK dest \in Slots : dest = DestinationSlot
  BY <1>5 DEF Executed
<1>7. PICK donor : donor = Donor
  OBVIOUS
<1>8. /\ Sound(where2, what2, contents2) /\ Complete({}, where2, what2, contents2)
      /\ where2[id] = dest
      /\ \A q \in Objects \ {id} :
            /\ where2[q] # dest
            /\ where2[q] = slot[q] \/ (where2[q] = None /\ Transfers /\ q = donor)
      /\ \A s \in Slots \ {dest} : what2[s] = layout[s] /\ contents2[s] = regs[s]
      /\ what2[dest] # None /\ contents2[dest] = Computed
  BY <1>2, <1>5, <1>6, <1>7 DEF Executed
<1>9. Transfers => NextUse(donor) = Never /\ Shape[donor].type # 1
  BY <1>1, <1>7, DonorDies
<1>10. PICK freed \in SUBSET Objects : freed = {}
  OBVIOUS
<1>11. Complete(freed, where2, what2, contents2)
  BY <1>8, <1>10
<1>12. /\ code' = code /\ automatic' = automatic /\ cursor' = cursor + 1 /\ status' = status
       /\ ~ loading'
  BY <1>1, <1>4, <1>8 DEF Complete
<1>13. \A o \in Objects :
          \/ slot'[o] = None /\ NextUse(o) = Never
          \/ /\ slot'[o] = where2[o]
             /\ where2[o] # None => /\ where2[o] \in Slots
                                    /\ layout'[where2[o]] = what2[where2[o]]
                                    /\ regs'[where2[o]] = contents2[where2[o]]
  BY <1>3, <1>8, <1>10, <1>11, CompleteKeeps DEF IInv
<1>14. /\ \A o \in Objects : o # id => initialized'[o] = initialized[o] /\ dirty'[o] = dirty[o]
       /\ initialized'[id] = TRUE /\ dirty'[id] = TRUE
  BY <1>1, <1>2 DEF IInv, Types
<1>15. \A o \in Objects : /\ Live(o)' <=> initialized'[o] /\ (UsedFrom(code, o, cursor + 1) \/ Shape[o].type = 1)
                          /\ UsedFrom(code, o, cursor + 1) => UsedFrom(code, o, Position)
  BY <1>3, <1>12, LiveAfter DEF IInv
<1>16. ASSUME NEW o \in Objects \ {id}
       PROVE  Carried(o)
  <2>1. /\ Good(o) /\ Types /\ (Live(o)' => Live(o))
        /\ initialized'[o] = initialized[o] /\ dirty'[o] = dirty[o]
    BY <1>14, <1>15 DEF Versions, IInv, Live
  <2>2. CASE slot'[o] = None /\ NextUse(o) = Never
    <3>1. ~ OnChip(o)'
      BY <2>2 DEF OnChip
    <3>2. ~ UsedFrom(code, o, cursor + 1)
      BY <2>1, <2>2, NeverUsed
    <3>3. Live(o)' => ~ dirty[o]
      BY <1>15, <2>1, <3>2 DEF Good
    <3> QED
      BY <1>1, <1>12, <2>1, <3>1, <3>3, DropClean
  <2>3. CASE /\ slot'[o] = where2[o] /\ where2[o] = slot[o]
             /\ where2[o] # None => /\ where2[o] \in Slots
                                    /\ layout'[where2[o]] = what2[where2[o]]
                                    /\ regs'[where2[o]] = contents2[where2[o]]
    <3>1. OnChip(o)' = OnChip(o) /\ (OnChip(o) => regs'[slot'[o]] = regs[slot[o]])
      BY <1>8, <2>3 DEF OnChip
    <3> QED
      BY <1>1, <1>12, <2>1, <3>1, StaySame
  <2>4. CASE slot'[o] = where2[o] /\ where2[o] = None /\ Transfers /\ o = donor
    <3>1. ~ OnChip(o)'
      BY <2>4 DEF OnChip
    <3>2. ~ UsedFrom(code, o, cursor + 1) /\ Shape[o].type # 1
      BY <1>9, <2>1, <2>4, NeverUsed
    <3> QED
      BY <1>1, <1>12, <1>15, <2>1, <3>1, <3>2, DropClean
  <2> QED
    BY <1>8, <1>13, <2>2, <2>3, <2>4
<1>17. Good(id)' /\ (Live(id)' => Denoted(id)' = Computed)
  <2>1. Good(id) /\ Shape[id].type # 1
    BY <1>4 DEF Versions
  <2>2. PICK value : value = Computed
    OBVIOUS
  <2>3. value = [k \in 1 .. Shape[id].width |-> value[k]]
    BY <1>2, <2>2 DEF Computed, Result
  <2>4. CASE slot'[id] = None /\ NextUse(id) = Never
    <3>1. ~ OnChip(id)' /\ ~ Live(id)'
      BY <1>4, <1>15, <2>4, NeverUsed DEF OnChip, IInv
    <3> QED
      BY <1>1, <2>1, <3>1 DEF Good
  <2>5. CASE /\ slot'[id] = where2[id]
             /\ where2[id] # None => /\ where2[id] \in Slots
                                     /\ layout'[where2[id]] = what2[where2[id]]
                                     /\ regs'[where2[id]] = contents2[where2[id]]
    <3>1. slot'[id] = dest /\ layout'[dest] # None /\ regs'[dest] = value /\ dest # None
      BY <1>6, <1>8, <2>2, <2>5, NoneApart
    <3>2. OnChip(id)' /\ regs'[slot'[id]] = value
      BY <3>1 DEF OnChip
    <3>3. Good(id)'
      BY <1>1, <1>14, <2>1, <2>3, <3>2 DEF Good
    <3> QED
      BY <2>2, <3>2, <3>3 DEF Denoted
  <2> QED
    BY <1>13, <2>4, <2>5
<1>18. \A o \in Objects : slot'[o] # None => initialized'[o]
  <2> SUFFICES ASSUME NEW o \in Objects, slot'[o] # None, o # id
               PROVE  initialized'[o]
    BY <1>14
  <2>1. slot[o] # None
    BY <1>8, <1>13
  <2>2. initialized[o]
    BY <1>2, <2>1 DEF Versions, Held, Destined
  <2> QED
    BY <1>14, <2>2
<1>19. \A o \in Objects : initialized'[o] <=> initialized[o] \/ (Current.def = o /\ ~ Current.retained)
  BY <1>2, <1>4, <1>14
<1>20. modulus' # None => initialized'[modulus'] /\ Shape[modulus'].type = 1
  BY <1>1, <1>4, <1>14 DEF Versions, TableKnown, IInv, Types
<1>21. \A o \in Objects : Good(o)'
  BY <1>16, <1>17 DEF Carried
<1>22. Versions'
  BY <1>3, <1>12, <1>18, <1>19, <1>20, <1>21, CompleteVersions DEF IInv
<1> QED
  BY <1>2, <1>3, <1>4, <1>12, <1>16, <1>17, <1>22

-----------------------------------------------------------------------------
(* Nothing is lost.                                                        *)

LEMMA NextVersions ==
    ASSUME NoneIsNoFunction, IInv, Versions, Homed, [Next]_vars
    PROVE  Versions'
<1>1. CASE StartLoad
  BY <1>1, StartLoadVersions
<1>2. CASE EndLoad \/ DeferStore \/ Free \/ LoadModulus \/ Sync
  BY <1>2, OtherVersions
<1>3. CASE Freeze
  BY <1>3, FreezeVersions
<1>4. CASE Store
  BY <1>4, StoreVersions
<1>5. CASE Place
  BY <1>5, PlaceVersions
<1>6. CASE Kernel
  <2>1. CASE EvictForDestinationSlot \/ TakeDestinationSlot \/ EvictForResult
    BY <2>1, KernelMoveVersions
  <2>2. CASE Execute
    BY <2>2, ExecuteVersions
  <2>3. CASE KernelCapacityError \/ InvalidKernel
    <3>1. PICK what \in {"capacity", "invalid"} : RaiseError(what) /\ Running
      BY <2>3 DEF KernelCapacityError, InvalidKernel, KernelReady
    <3> QED
      BY <3>1, RaiseVersions
  <2> QED
    BY <1>6, <2>1, <2>2, <2>3 DEF Kernel
<1>7. CASE Return
  <2>1. PICK what : what = "done" /\ RaiseError(what)
    BY <1>7 DEF Return
  <2> QED
    BY <2>1, RaiseVersions
<1>8. CASE UNCHANGED vars
  <2>1. PICK what : what = status
    OBVIOUS
  <2>2. RaiseError(what) /\ (what = "logic_error" => ~ WellFormed)
    BY <1>8, <2>1 DEF vars, RaiseError, Versions, Blamed
  <2> QED
    BY <2>2, RaiseVersions
<1> QED
  BY <1>1, <1>2, <1>3, <1>4, <1>5, <1>6, <1>7, <1>8 DEF Next, Terminated

\* Homes after steps that stay at the instruction, and after those that complete it.
LEMMA MoveHomed ==
    ASSUME Homed, UNCHANGED <<code, cursor, loading>>,
           \A o \in Objects : ~ dirty'[o] /\ home'[o] # None =>
              home'[o] = SpillRange(o) \/ (~ dirty[o] /\ home'[o] = home[o])
    PROVE  Homed'
<1>1. Position' = Position
  BY DEF Position
<1> SUFFICES ASSUME NEW o \in Objects, ~ dirty'[o], home'[o] # None, home'[o] # SpillRange(o)
             PROVE  \E q \in 1 .. Position - 1 :
                       /\ HomeAt(code, q, o) /\ code[q].range = home'[o]
                       /\ ~ Recomputed(code, o, q, Position)
  BY <1>1 DEF Homed, HomeAt, Recomputed
<1> QED
  BY DEF Homed

LEMMA PassHomed ==
    ASSUME IInv, Versions, Homed, Running, code' = code, Position' = cursor + 1,
           \A o \in Objects : ~ dirty'[o] /\ home'[o] # None =>
              \/ ~ dirty[o] /\ home'[o] = home[o] /\ ~ (IsKernel(Current) /\ Current.def = o)
              \/ HomeAt(code, cursor, o) /\ home'[o] = Current.range
    PROVE  Homed'
<1>1. cursor \in Nat /\ cursor >= 1 /\ Position \in {cursor, cursor + 1}
      /\ (Position = cursor + 1 => Current.op = "load")
  BY DEF IInv, Types, Position, Versions, Phase
<1> SUFFICES ASSUME NEW o \in Objects, ~ dirty'[o], home'[o] # None, home'[o] # SpillRange(o)
             PROVE  \E q \in 1 .. (cursor + 1) - 1 :
                       /\ HomeAt(code, q, o) /\ code[q].range = home'[o]
                       /\ ~ Recomputed(code, o, q, cursor + 1)
  BY DEF Homed, HomeAt, Recomputed
<1>2. CASE ~ dirty[o] /\ home'[o] = home[o] /\ ~ (IsKernel(Current) /\ Current.def = o)
  <2>1. PICK q \in 1 .. Position - 1 :
          /\ HomeAt(code, q, o) /\ code[q].range = home[o]
          /\ ~ Recomputed(code, o, q, Position)
    BY <1>2 DEF Homed
  <2>2. q \in 1 .. (cursor + 1) - 1
    BY <1>1
  <2>3. \A k \in q + 1 .. (cursor + 1) - 1 : k = cursor \/ k \in q + 1 .. Position - 1
    BY <1>1
  <2>4. ~ Recomputed(code, o, q, cursor + 1)
    BY <1>2, <2>1, <2>3 DEF Recomputed, Current
  <2> QED
    BY <1>2, <2>1, <2>2, <2>4
<1>3. CASE HomeAt(code, cursor, o) /\ home'[o] = Current.range
  <2>1. cursor \in 1 .. (cursor + 1) - 1 /\ ~ Recomputed(code, o, cursor, cursor + 1)
    BY <1>1 DEF Recomputed
  <2> QED
    BY <1>3, <2>1 DEF Current
<1> QED
  BY <1>2, <1>3

LEMMA EvictHomed ==
    ASSUME IInv, Homed, NEW victims \in SUBSET Objects, Evict(victims, FALSE)
    PROVE  Homed'
<1>1. \A o \in Objects : ~ dirty'[o] /\ home'[o] # None =>
              home'[o] = SpillRange(o) \/ (~ dirty[o] /\ home'[o] = home[o])
  BY DEF Evict, Spilled, IInv, Types
<1>2. UNCHANGED <<code, cursor, loading>>
  BY DEF Evict
<1> QED
  BY <1>1, <1>2, MoveHomed

LEMMA PlaceHomed ==
    ASSUME NoneIsNoFunction, IInv, Versions, Homed, Place
    PROVE  Homed'
<1>1. PICK o \in ToPlace :
        \/ NoDefinition(o) \/ EvictTable(o)
        \/ EvictForSlot(o) \/ TakeSlot(o)
        \/ EvictForLoad(o) \/ Fill(o)
        \/ YieldPlace(o) \/ CapacityError(o) \/ InvalidLoad(o)
  BY DEF Place
<1>2. CASE NoDefinition(o) \/ CapacityError(o) \/ InvalidLoad(o) \/ TakeSlot(o) \/ Fill(o)
  <2>1. UNCHANGED <<code, cursor, loading, home, dirty>>
    BY <1>2 DEF NoDefinition, CapacityError, InvalidLoad, RaiseError, TakeSlot, Fill
  <2> QED
    BY <2>1, MoveHomed
<1>3. CASE EvictTable(o)
  <2>1. OtherTables(o) # {} /\ OtherTables(o) \in SUBSET Nat /\ OtherTables(o) \in SUBSET Objects
    BY <1>3, ShapeAssumption DEF EvictTable, OtherTables, Resident
  <2>2. Smallest(OtherTables(o)) \in Objects
    BY <2>1, SmallestInSet
  <2>3. PICK victims : victims = {Smallest(OtherTables(o))}
    OBVIOUS
  <2>4. victims \in SUBSET Objects /\ Evict(victims, FALSE)
    BY <1>3, <2>2, <2>3 DEF EvictTable
  <2> QED
    BY <2>4, EvictHomed
<1>4. CASE EvictForSlot(o)
  <2>1. PICK v \in Victim(o) : Evict({v}, FALSE)
    BY <1>4 DEF EvictForSlot
  <2>2. PICK victims : victims = {v}
    OBVIOUS
  <2>3. victims \in SUBSET Objects
    BY <2>2, VictimApart DEF Resident
  <2> QED
    BY <2>1, <2>2, <2>3, EvictHomed
<1>5. CASE EvictForLoad(o)
  <2>1. PICK victims \in Clearing(o) : Evict(victims, FALSE)
    BY <1>5 DEF EvictForLoad
  <2>2. victims \in SUBSET Objects
    BY ClearingApart DEF Resident
  <2> QED
    BY <2>1, <2>2, EvictHomed
<1>6. CASE YieldPlace(o)
  <2>1. PICK id : id = Current.sources[1]
    OBVIOUS
  <2>2. /\ home' = [home EXCEPT ![id] = IF dirty[id] THEN SpillRange(id) ELSE @]
        /\ dirty' = [dirty EXCEPT ![id] = FALSE]
        /\ UNCHANGED <<code, cursor, loading>>
    BY <1>6, <2>1 DEF YieldPlace
  <2>3. \A q \in Objects : ~ dirty'[q] /\ home'[q] # None =>
              home'[q] = SpillRange(q) \/ (~ dirty[q] /\ home'[q] = home[q])
    BY <2>2 DEF IInv, Types
  <2> QED
    BY <2>2, <2>3, MoveHomed
<1> QED
  BY <1>1, <1>2, <1>3, <1>4, <1>5, <1>6

LEMMA KernelHomed ==
    ASSUME NoneIsNoFunction, IInv, Versions, Homed, Kernel
    PROVE  Homed'
<1>1. PICK id : id = Current.def
  OBVIOUS
<1>2. CASE EvictForDestinationSlot
  <2>1. PICK v \in Victim(id) : Evict({v}, FALSE)
    BY <1>1, <1>2 DEF EvictForDestinationSlot
  <2>2. PICK victims : victims = {v}
    OBVIOUS
  <2>3. victims \in SUBSET Objects
    BY <2>2, VictimApart DEF Resident
  <2> QED
    BY <2>1, <2>2, <2>3, EvictHomed
<1>3. CASE EvictForResult
  <2>1. PICK victims \in Clearing(id) : Evict(victims, FALSE)
    BY <1>1, <1>3 DEF EvictForResult
  <2>2. victims \in SUBSET Objects
    BY ClearingApart DEF Resident
  <2> QED
    BY <2>1, <2>2, EvictHomed
<1>4. CASE TakeDestinationSlot \/ KernelCapacityError \/ InvalidKernel
  <2>1. UNCHANGED <<code, cursor, loading, home, dirty>>
    BY <1>4 DEF TakeDestinationSlot, KernelCapacityError, InvalidKernel, RaiseError
  <2> QED
    BY <2>1, MoveHomed
<1>5. CASE Execute
  <2>1. /\ Running /\ ~ loading /\ code' = code /\ cursor' = cursor + 1
    BY <1>5, ExecuteVersions
  <2>2. /\ UNCHANGED <<home, loading>> /\ dirty' = [dirty EXCEPT ![id] = TRUE]
    BY <1>1, <1>5 DEF Execute
  <2>3. Position' = cursor + 1
    BY <2>1, <2>2 DEF Position
  <2>4. \A o \in Objects : ~ dirty'[o] => ~ dirty[o] /\ o # id
    BY <2>2 DEF IInv, Types
  <2> QED
    BY <1>1, <2>1, <2>2, <2>3, <2>4, PassHomed
<1> QED
  BY <1>2, <1>3, <1>4, <1>5 DEF Kernel

LEMMA NextHomed ==
    ASSUME NoneIsNoFunction, IInv, Versions, Homed, [Next]_vars
    PROVE  Homed'
<1>1. CASE StartLoad
  <2>1. PICK id : id = Current.def
    OBVIOUS
  <2>2. /\ Running /\ Current.op = "load" /\ ~ Current.retained
        /\ home' = [home EXCEPT ![id] = Current.range] /\ dirty' = [dirty EXCEPT ![id] = FALSE]
        /\ code' = code
    BY <1>1, <2>1 DEF StartLoad, Complete
  <2>3. Position' = cursor + 1
    BY <1>1 DEF StartLoad, Complete, Position
  <2>4. cursor \in 1 .. Len(code) /\ Current = code[cursor]
    BY <2>2, CurrentInstruction DEF IInv, Current
  <2>5. \A o \in Objects : ~ dirty'[o] /\ home'[o] # None =>
              \/ ~ dirty[o] /\ home'[o] = home[o] /\ ~ (IsKernel(Current) /\ Current.def = o)
              \/ HomeAt(code, cursor, o) /\ home'[o] = Current.range
    BY <2>1, <2>2, <2>4 DEF HomeAt, IsKernel, IInv, Types
  <2> QED
    BY <2>2, <2>3, <2>5, PassHomed
<1>2. CASE EndLoad \/ DeferStore \/ Free \/ LoadModulus \/ Sync
  <2>1. Running /\ ~ loading' /\ ~ IsKernel(Current)
        /\ UNCHANGED <<code, home, dirty>> /\ cursor' = cursor + 1
    BY <1>2, OtherVersions
  <2>2. Position' = cursor + 1
    BY <2>1 DEF Position
  <2> QED
    BY <2>1, <2>2, PassHomed
<1>3. CASE Freeze
  <2>1. PICK id : id = Smallest(ToFreeze)
    OBVIOUS
  <2>2. dirty' = [dirty EXCEPT ![id] = TRUE] /\ home' = [home EXCEPT ![id] = None]
        /\ UNCHANGED <<code, cursor, loading>>
    BY <1>3, <2>1 DEF Freeze
  <2>3. \A o \in Objects : ~ dirty'[o] => ~ dirty[o] /\ home'[o] = home[o]
    BY <2>2 DEF IInv, Types
  <2> QED
    BY <2>2, <2>3, MoveHomed
<1>4. CASE Store
  <2>1. PICK id : id = Current.sources[1]
    OBVIOUS
  <2>2. /\ Running /\ Current.op = "store" /\ Current.required
        /\ home' = [home EXCEPT ![id] = Current.range] /\ dirty' = [dirty EXCEPT ![id] = FALSE]
        /\ code' = code /\ cursor' = cursor + 1 /\ loading' = loading
    BY <1>4, <2>1 DEF Store, Complete, Executes
  <2>3. Position' = cursor + 1
    BY <2>2 DEF Position, Versions, Phase
  <2>4. cursor \in 1 .. Len(code) /\ Current = code[cursor]
    BY <2>2, CurrentInstruction DEF IInv, Current
  <2>5. \A o \in Objects : ~ dirty'[o] /\ home'[o] # None =>
              \/ ~ dirty[o] /\ home'[o] = home[o] /\ ~ (IsKernel(Current) /\ Current.def = o)
              \/ HomeAt(code, cursor, o) /\ home'[o] = Current.range
    BY <2>1, <2>2, <2>4 DEF HomeAt, IsKernel, IInv, Types
  <2> QED
    BY <2>2, <2>3, <2>5, PassHomed
<1>5. CASE Place
  BY <1>5, PlaceHomed
<1>6. CASE Kernel
  BY <1>6, KernelHomed
<1>7. CASE Return \/ UNCHANGED vars
  <2>1. UNCHANGED <<code, cursor, loading, home, dirty>>
    BY <1>7 DEF Return, RaiseError, vars
  <2> QED
    BY <2>1, MoveHomed
<1> QED
  BY <1>1, <1>2, <1>3, <1>4, <1>5, <1>6, <1>7 DEF Next, Terminated

LEMMA InitHomed == Init => Homed
BY DEF Init, Homed

\* "virtual object has no reloadable definition" is only ever the program's
\* fault: whatever is evicted, spilled, frozen, handed over or yielded, a live
\* value is on chip or has a home.
THEOREM VersionsKept ==
    ASSUME NoneIsNoFunction
    PROVE  Spec => []NoVersionLost
<1>1. Init => IInv /\ Versions /\ Homed
  BY InitIInv, InitVersions, InitHomed
<1>2. IInv /\ Versions /\ Homed /\ [Next]_vars => (IInv /\ Versions /\ Homed)'
  BY NextIInv, NextVersions, NextHomed
<1>3. Versions => NoVersionLost
  BY DEF Versions, Blamed, NoVersionLost
<1> QED
  BY <1>1, <1>2, <1>3, PTL DEF Spec

-----------------------------------------------------------------------------
(* Memory that objects would be reloaded from.                             *)

LEMMA KeepBackings ==
    ASSUME NoneIsNoFunction, IInv, Versions, Homed, Safe, [Next]_vars,
           NEW o \in Objects, initialized[o], home[o] # None, home'[o] = home[o],
           ~ dirty[o], UsedFrom(code, o, cursor')
    PROVE  Read(ddr', home[o]) = Read(ddr, home[o])
<1>1. CASE ddr' = ddr
  BY <1>1
<1>2. CASE Moved
  BY <1>2 DEF Moved
<1>3. CASE Store
  <2>1. PICK id : id = Current.sources[1]
    OBVIOUS
  <2>2. /\ Running /\ id \in Objects /\ OnChip(id) /\ Current.op = "store"
        /\ Read(ddr', Current.range) = regs[slot[id]]
    BY <1>3, <2>1, StoreThere
  <2>3. cursor' = cursor + 1 /\ home' = [home EXCEPT ![id] = Current.range]
    BY <1>3, <2>1 DEF Store, Complete
  <2>4. UsedFrom(code, o, cursor + 1)
    BY <2>3
  <2>5. CASE o # id
    BY <1>3, <2>1, <2>4, <2>5, StoreApart
  <2>6. CASE o = id
    <3>1. home[id] = Current.range
      BY <2>2, <2>3, <2>6 DEF IInv, Types
    <3>2. Live(id)
      <4>1. UsedFrom(code, id, cursor) /\ ~ loading
        BY <2>2, <2>4, <2>6, UsedNow DEF IInv, Running, Versions, Phase
      <4> QED
        BY <2>6, <4>1 DEF Live, Position
    <3>3. regs[slot[id]] = Read(ddr, home[id])
      BY <2>2, <2>6, <3>2 DEF Versions, Good
    <3> QED
      BY <2>2, <2>6, <3>1, <3>3
  <2> QED
    BY <2>5, <2>6
<1>4. CASE Freeze \/ Place
  BY <1>2, <1>4, FreezeVersions, PlaceVersions
<1>5. CASE EvictForDestinationSlot \/ TakeDestinationSlot \/ EvictForResult
  BY <1>2, <1>5, KernelMoveVersions
<1>6. CASE StartLoad \/ EndLoad \/ DeferStore \/ Free \/ LoadModulus \/ Sync \/ Execute
  BY <1>1, <1>6 DEF StartLoad, EndLoad, DeferStore, Free, LoadModulus, Sync, Execute
<1>7. CASE KernelCapacityError \/ InvalidKernel \/ Return \/ UNCHANGED vars
  BY <1>1, <1>7 DEF KernelCapacityError, InvalidKernel, Return, RaiseError, vars
<1> QED
  BY <1>3, <1>4, <1>5, <1>6, <1>7 DEF Next, Kernel, Terminated

\* No write changes the lines that a clean or evicted object with further uses
\* would be reloaded from, in automatic mode or if the program's own stores leave
\* those lines alone.
THEOREM Backings ==
    ASSUME NoneIsNoFunction, Guarded(Programs)
    PROVE  Spec => BackingsKept
<1>1. Init => IInv /\ Versions /\ Homed
  BY InitIInv, InitVersions, InitHomed
<1>2. IInv /\ Versions /\ Homed /\ [Next]_vars => (IInv /\ Versions /\ Homed)'
  BY NextIInv, NextVersions, NextHomed
<1>3. ASSUME Versions
      PROVE  Safe
  BY <1>3 DEF Versions, Imported, Guarded, Safe
<1>4. IInv /\ Versions /\ Homed /\ [Next]_vars =>
        [\A o \in Objects :
           /\ initialized[o] /\ home[o] # None /\ home'[o] = home[o]
           /\ ~ dirty[o] /\ UsedFrom(code, o, cursor')
           => Read(ddr', home[o]) = Read(ddr, home[o])]_vars
  BY <1>3, KeepBackings
<1> QED
  BY <1>1, <1>2, <1>4, PTL DEF Spec, BackingsKept

-----------------------------------------------------------------------------
(* The instructions emitted do what the program means.                     *)

\* The symbolic contents are those of the machine that executes the program.
LEMMA SameOperators ==
    /\ \A list, o, first : Reference!UsedFrom(list, o, first) = UsedFrom(list, o, first)
    /\ \A contents, range : Reference!Read(contents, range) = Read(contents, range)
    /\ \A contents, range, value : Reference!Written(contents, range, value) = Written(contents, range, value)
    /\ \A i : Reference!IsKernel(i) = IsKernel(i)
BY DEF Reference!UsedFrom, UsedFrom, Reference!UsePositions, UsePositions, Reference!UsedBy, UsedBy,
       Reference!Uses, Uses, Reference!SourceSet, SourceSet, Reference!Read, Read,
       Reference!Written, Written, Reference!IsKernel, IsKernel

MachineUnchanged ==
    /\ UNCHANGED <<code, context>> /\ Position' = Position
    /\ Values' = Values /\ Memory' = Memory /\ Table' = Table

\* A modulus table is always live.
LEMMA TableKept ==
    ASSUME Versions, Types, Types', Safe, modulus' = modulus, modulus # None => Carried(modulus),
           \A o \in Objects : initialized[o] => initialized'[o]
    PROVE  Table' = Table
<1> SUFFICES ASSUME modulus # None
             PROVE  Denoted(modulus)' = Denoted(modulus)
  BY DEF Table
<1>1. PICK o \in Objects : o = modulus
  BY DEF Types
<1>2. initialized'[o] /\ Shape[o].type = 1
  BY <1>1 DEF Versions, TableKnown
<1>3. Live(o)'
  BY <1>2 DEF Live
<1>4. Denoted(o)' = Denoted(o)
  BY <1>1, <1>3 DEF Carried
<1>5. modulus' = o /\ modulus = o
  BY <1>1
<1> QED
  BY <1>4, <1>5

\* Values that the instruction does not define.
LEMMA ValueKept ==
    ASSUME Safe, code' = code, NEW o \in Objects, Carried(o),
           initialized'[o] = initialized[o],
           UsedFrom(code, o, Position') => UsedFrom(code, o, Position)
    PROVE  Values'[o] = IF UsedFrom(code, o, Position') THEN Values[o] ELSE None
<1>1. UsedFrom(code, o, Position)' = UsedFrom(code, o, Position')
  BY DEF UsedFrom, UsePositions
<1>2. Values'[o] = IF initialized'[o] /\ UsedFrom(code, o, Position') THEN Denoted(o)' ELSE None
  BY <1>1 DEF Values
<1>3. Live(o)' <=> initialized'[o] /\ (UsedFrom(code, o, Position') \/ Shape[o].type = 1)
  BY <1>1 DEF Live
<1>4. initialized'[o] /\ UsedFrom(code, o, Position') => Denoted(o)' = Denoted(o)
  BY <1>3 DEF Carried
<1> QED
  BY <1>2, <1>4 DEF Values

\* Moving objects means nothing.
LEMMA MovedMeans ==
    ASSUME Versions, IInv, IInv', Safe, Moved
    PROVE  MachineUnchanged
<1>1. UNCHANGED <<code, context, cursor, loading, initialized, modulus>> /\ Position' = Position
  BY SamePlace DEF Moved
<1>2. Memory' = Memory
  BY DEF Memory, Moved
<1>3. Table' = Table
  BY <1>1, TableKept DEF Moved, IInv, Types
<1>4. \A o \in Objects : Values'[o] = IF UsedFrom(code, o, Position) THEN Values[o] ELSE None
  BY <1>1, ValueKept DEF Moved
<1>5. \A o \in Objects : Values'[o] = Values[o]
  BY <1>4 DEF Values
<1>6. Values' = Values
  BY <1>5 DEF Values
<1> QED
  BY <1>1, <1>2, <1>3, <1>6 DEF MachineUnchanged

\* What Advance(contents) of the machine asks for.
Advances(contents) ==
    /\ Running /\ Position = cursor /\ Position' = cursor + 1 /\ code' = code
    /\ \A o \in Objects : Values'[o] = IF UsedFrom(code, o, cursor + 1) THEN contents[o] ELSE None

LEMMA AdvanceMeans ==
    ASSUME IInv, IInv', Versions, Safe, Running, ~ loading, code' = code, cursor' = cursor + 1, ~ loading',
           \A o \in Objects : Carried(o) /\ initialized'[o] = initialized[o]
    PROVE  Advances(Values)
<1>1. Position = cursor /\ Position' = cursor + 1
  BY DEF Position
<1>2. \A o \in Objects : UsedFrom(code, o, cursor + 1) => UsedFrom(code, o, Position)
  BY LiveAfter DEF IInv
<1>3. \A o \in Objects : Values'[o] = IF UsedFrom(code, o, cursor + 1) THEN Values[o] ELSE None
  BY <1>1, <1>2, ValueKept
<1> QED
  BY <1>1, <1>3 DEF Advances

LEMMA OtherMeans ==
    ASSUME NoneIsNoFunction, IInv, IInv', Versions, Safe,
           EndLoad \/ DeferStore \/ Free \/ LoadModulus \/ Sync
    PROVE  \/ MachineUnchanged
           \/ /\ Advances(Values) /\ Memory' = Memory /\ Table' = Table
              /\ \/ /\ context' = context
                    /\ \/ Current.op \in {"free", "sync"}
                       \/ Current.op = "store" /\ ~ Current.required
                       \/ Current.op = "load" /\ Current.retained
                 \/ /\ Current.op = "modld"
                    /\ context' = IF Table = None THEN context ELSE Table
<1>1. /\ \A o \in Objects : Carried(o)
      /\ Running /\ ~ loading' /\ UNCHANGED <<code, home, dirty, modulus, ddr>> /\ cursor' = cursor + 1
  BY OtherVersions
<1>2. initialized' = initialized
  BY DEF EndLoad, DeferStore, Free, LoadModulus, Sync
<1>3. Memory' = Memory
  BY <1>1 DEF Memory
<1>4. Table' = Table
  BY <1>1, <1>2, TableKept DEF IInv, Types
<1>5. CASE loading
  <2>1. EndLoad
    BY <1>5 DEF Versions, Phase, DeferStore, Free, LoadModulus, Sync, Executes
  <2>2. Position' = Position /\ context' = context
    BY <1>1, <1>5, <2>1 DEF Position, EndLoad
  <2>3. \A o \in Objects : Values'[o] = IF UsedFrom(code, o, Position) THEN Values[o] ELSE None
    BY <1>1, <1>2, <2>2, ValueKept
  <2>4. \A o \in Objects : Values'[o] = Values[o]
    BY <2>3 DEF Values
  <2>5. Values' = Values
    BY <2>4 DEF Values
  <2> QED
    BY <1>1, <1>3, <1>4, <2>2, <2>5 DEF MachineUnchanged
<1>6. CASE ~ loading
  <2>1. Advances(Values)
    BY <1>1, <1>2, <1>6, AdvanceMeans
  <2>2. CASE LoadModulus
    <3>1. /\ Current.op = "modld" /\ Target = None
          /\ context' = IF modulus = None THEN context ELSE regs[slot[modulus]]
      BY <2>2 DEF LoadModulus, Executes
    <3>2. ASSUME modulus # None
          PROVE  Table = regs[slot[modulus]] /\ Table # None
      <4>1. PICK o \in Objects : o = modulus
        BY <3>2 DEF IInv, Types
      <4>2. PICK list : list = <<o>>
        OBVIOUS
      <4>3. list \in Seq(Objects) /\ FirstMissing(list) = None
        BY <3>1, <3>2, <4>1, <4>2, TargetModulus
      <4>4. 1 \in DOMAIN list /\ list[1] = o
        BY <4>2
      <4>5. OnChip(o)
        BY <4>3, <4>4, NothingMissing
      <4>6. Denoted(o) = regs[slot[o]]
        BY <4>5 DEF Denoted
      <4>7. regs[slot[o]] # None
        BY <4>5 DEF OnChip, IInv, Sound, Slotted, Filled
      <4> QED
        BY <3>2, <4>1, <4>6, <4>7 DEF Table
    <3>3. modulus = None => Table = None
      BY DEF Table
    <3>4. context' = IF Table = None THEN context ELSE Table
      BY <3>1, <3>2, <3>3
    <3> QED
      BY <1>3, <1>4, <2>1, <3>1, <3>4
  <2>3. CASE EndLoad \/ DeferStore \/ Free \/ Sync
    <3>1. /\ context' = context
          /\ \/ Current.op \in {"free", "sync"}
             \/ Current.op = "store" /\ ~ Current.required
             \/ Current.op = "load" /\ Current.retained
      BY <1>6, <2>3 DEF EndLoad, DeferStore, Free, Sync, Executes
    <3> QED
      BY <1>3, <1>4, <2>1, <3>1
  <2> QED
    BY <2>2, <2>3
<1> QED
  BY <1>5, <1>6

\* What a live object denotes is in Values.
LEMMA DenotedValue ==
    ASSUME Types, Running, ~ loading, NEW o \in Objects, UsedBy(o, Current), OnChip(o), Good(o)
    PROVE  Values[o] = regs[slot[o]]
<1>1. UsedFrom(code, o, Position)
  BY UsedNow DEF Position, Running
<1>2. initialized[o]
  BY DEF Good
<1> QED
  BY <1>1, <1>2 DEF Values, Denoted

LEMMA StoreMeans ==
    ASSUME NoneIsNoFunction, IInv, IInv', Versions, Homed, Safe, Store
    PROVE  /\ Advances(Values) /\ Table' = Table /\ context' = context
           /\ Current.op = "store" /\ Current.required
           /\ Memory' = Written(Memory, Current.range, Values[Current.sources[1]])
<1>1. PICK id : id = Current.sources[1]
  OBVIOUS
<1>2. /\ Running /\ Current \in VirtualInstructions /\ Current.op = "store"
      /\ id \in Objects /\ OnChip(id)
  BY <1>1, StoreThere
<1>3. /\ Current.required /\ ddr' = Written(ddr, Current.range, regs[slot[id]])
      /\ UNCHANGED <<modulus, initialized, loading, context>>
      /\ code' = code /\ cursor' = cursor + 1
  BY <1>1 DEF Store, Complete
<1>4. ~ loading
  BY <1>2 DEF Versions, Phase
<1>5. \A o \in Objects : Carried(o)
  BY StoreVersions
<1>6. Advances(Values)
  BY <1>2, <1>3, <1>4, <1>5, AdvanceMeans
<1>7. Table' = Table
  BY <1>3, <1>5, TableKept DEF IInv, Types
<1>8. Values[id] = regs[slot[id]]
  <2>1. Current.sources \in Seq(Objects) /\ Current.sources # << >>
    BY <1>2, InstructionFields
  <2>2. 1 \in DOMAIN Current.sources
    BY <2>1
  <2>3. UsedBy(id, Current)
    BY <1>1, <1>2, <2>2 DEF UsedBy, Uses, SourceSet
  <2> QED
    BY <1>2, <1>4, <2>3, DenotedValue DEF IInv, Versions
<1>9. PICK range, value : range = Current.range /\ value = Values[id]
  OBVIOUS
<1>10. Memory' = Written(Memory, range, value)
  <2>1. DOMAIN ddr = ImageCells \cup SpillCells /\ DOMAIN Memory = ImageCells
    BY DEF IInv, Types, Memory
  <2>2. \A cell \in ImageCells : Memory'[cell] = ddr'[cell] /\ Memory[cell] = ddr[cell]
    BY DEF Memory
  <2>3. ddr' = Written(ddr, range, value)
    BY <1>3, <1>8, <1>9
  <2>4. \A cell \in ImageCells : Memory'[cell] = Written(Memory, range, value)[cell]
    BY <2>1, <2>2, <2>3 DEF Written
  <2>5. DOMAIN Written(Memory, range, value) = ImageCells
    BY <2>1 DEF Written
  <2>6. Memory' = [cell \in ImageCells |-> Memory'[cell]]
    BY DEF Memory
  <2>7. Written(Memory, range, value) = [cell \in ImageCells |-> Written(Memory, range, value)[cell]]
    BY <2>1 DEF Written
  <2> QED
    BY <2>4, <2>6, <2>7
<1> QED
  BY <1>1, <1>2, <1>3, <1>6, <1>7, <1>9, <1>10

LEMMA LoadMeans ==
    ASSUME NoneIsNoFunction, IInv, IInv', Versions, Safe, StartLoad
    PROVE  /\ Advances([Values EXCEPT ![Current.def] = Read(Memory, Current.range)])
           /\ Table' = IF Shape[Current.def].type = 1 THEN Read(Memory, Current.range) ELSE Table
           /\ Memory' = Memory /\ context' = context
           /\ Current.op = "load" /\ ~ Current.retained
<1>1. PICK id : id = Current.def
  OBVIOUS
<1>2. /\ Running /\ Current.op = "load" /\ ~ Current.retained /\ ~ loading
      /\ initialized' = [initialized EXCEPT ![id] = TRUE]
      /\ modulus' = IF Shape[id].type = 1 THEN id ELSE modulus
      /\ UNCHANGED <<ddr, context>> /\ code' = code
  BY <1>1 DEF StartLoad, Complete
<1>3. id \in Objects /\ Current.range \in Views
  BY <1>1, <1>2, CurrentInstruction, InstructionFields DEF IInv
<1>4. /\ \A o \in Objects \ {id} : Carried(o)
      /\ Denoted(id)' = Read(ddr, Current.range) /\ Position' = cursor + 1
  BY <1>1, <1>3, StartLoadVersions
<1>5. PICK read : read = Read(Memory, Current.range)
  OBVIOUS
<1>6. Denoted(id)' = read
  <2>1. \A k \in DOMAIN Current.range : Current.range[k] \in ImageCells
    BY <1>3 DEF Views
  <2> QED
    BY <1>4, <1>5, <2>1 DEF Read, Memory
<1>7. /\ \A o \in Objects : o # id => initialized'[o] = initialized[o]
      /\ initialized'[id]
  BY <1>2, <1>3 DEF IInv, Types
<1>8. PICK contents : contents = [Values EXCEPT ![id] = read]
  OBVIOUS
<1>9. \A o \in Objects : contents[o] = IF o = id THEN read ELSE Values[o]
  BY <1>8 DEF Values
<1>10. Position = cursor
  BY <1>2 DEF Position
<1>11. ASSUME NEW o \in Objects
       PROVE  Values'[o] = IF UsedFrom(code, o, cursor + 1) THEN contents[o] ELSE None
  <2>1. CASE o # id
    <3>1. UsedFrom(code, o, cursor + 1) => UsedFrom(code, o, cursor)
      BY <1>2, UsedNow DEF IInv, Running
    <3>2. Carried(o) /\ initialized'[o] = initialized[o]
      BY <1>4, <1>7, <2>1
    <3>3. Values'[o] = IF UsedFrom(code, o, cursor + 1) THEN Values[o] ELSE None
      BY <1>2, <1>4, <1>10, <3>1, <3>2, ValueKept
    <3> QED
      BY <1>9, <2>1, <3>3
  <2>2. CASE o = id
    <3>1. UsedFrom(code, o, Position)' = UsedFrom(code, o, cursor + 1)
      BY <1>2, <1>4 DEF UsedFrom, UsePositions
    <3>2. Values'[o] = IF initialized'[o] /\ UsedFrom(code, o, cursor + 1) THEN Denoted(o)' ELSE None
      BY <3>1 DEF Values
    <3> QED
      BY <1>6, <1>7, <1>9, <2>2, <3>2
  <2> QED
    BY <2>1, <2>2
<1>12. Advances(contents)
  BY <1>2, <1>4, <1>10, <1>11 DEF Advances
<1>13. Table' = IF Shape[id].type = 1 THEN read ELSE Table
  <2>1. CASE Shape[id].type = 1
    <3>1. modulus' = id /\ id # None
      BY <1>2, <1>3, <2>1, NoneApart
    <3> QED
      BY <1>6, <2>1, <3>1 DEF Table
  <2>2. CASE Shape[id].type # 1
    <3>1. modulus' = modulus /\ (modulus # None => modulus \in Objects \ {id})
      BY <1>2, <2>2 DEF Versions, TableKnown, IInv, Types
    <3>2. modulus # None => Carried(modulus)
      BY <1>4, <3>1
    <3>3. \A o \in Objects : initialized[o] => initialized'[o]
      BY <1>7
    <3> QED
      BY <2>2, <3>1, <3>2, <3>3, TableKept DEF IInv
  <2> QED
    BY <2>1, <2>2
<1>14. Memory' = Memory
  BY <1>2 DEF Memory
<1> QED
  BY <1>1, <1>2, <1>5, <1>8, <1>12, <1>13, <1>14

LEMMA ExecuteMeans ==
    ASSUME NoneIsNoFunction, IInv, IInv', Versions, Safe, Execute
    PROVE  /\ IsKernel(Current) /\ Table' = Table /\ Memory' = Memory /\ context' = context
           /\ Advances([Values EXCEPT ![Current.def] =
                 Result(cursor, Shape[Current.def].width,
                        [k \in DOMAIN KernelReads |-> Values[KernelReads[k]]], context)])
<1>1. PICK id : id = Current.def
  OBVIOUS
<1>2. /\ KernelReady /\ UNCHANGED <<modulus, home, loading, ddr, context>>
      /\ initialized' = [initialized EXCEPT ![id] = TRUE]
  BY <1>1 DEF Execute
<1>3. /\ id \in Objects /\ Running /\ IsKernel(Current) /\ Current \in VirtualInstructions
      /\ Target = None
  BY <1>1, <1>2, KernelOperands DEF KernelReady
<1>4. /\ \A o \in Objects \ {id} : Carried(o)
      /\ Live(id)' => Denoted(id)' = Computed
      /\ ~ loading /\ code' = code /\ cursor' = cursor + 1
  BY <1>1, <1>3, ExecuteVersions
<1>5. PICK result : result = Result(cursor, Shape[Current.def].width,
                        [k \in DOMAIN KernelReads |-> Values[KernelReads[k]]], context)
  OBVIOUS
<1>6. Computed = result
  <2>1. ASSUME NEW k \in DOMAIN KernelReads
        PROVE  Values[KernelReads[k]] = regs[slot[KernelReads[k]]]
    <3>1. PICK o : o = KernelReads[k]
      OBVIOUS
    <3>2. o \in Objects /\ OnChip(o)
      BY <1>3, <3>1, ReadsOnChip DEF IInv, Running
    <3>3. UsedBy(o, Current)
      <4>1. o \in Uses(Current)
        BY <1>3, <3>1, ReadsUsed DEF IInv, Running
      <4> QED
        BY <1>3, <4>1 DEF UsedBy, IsKernel
    <3>4. Good(o)
      BY <3>2 DEF Versions
    <3> QED
      BY <1>3, <1>4, <3>1, <3>2, <3>3, <3>4, DenotedValue DEF IInv
  <2>2. [k \in DOMAIN KernelReads |-> Values[KernelReads[k]]]
          = [k \in DOMAIN KernelReads |-> regs[slot[KernelReads[k]]]]
    BY <2>1
  <2> QED
    BY <1>5, <2>2 DEF Computed
<1>7. /\ \A o \in Objects : o # id => initialized'[o] = initialized[o]
      /\ initialized'[id]
  BY <1>2, <1>3 DEF IInv, Types
<1>8. PICK contents : contents = [Values EXCEPT ![id] = result]
  OBVIOUS
<1>9. \A o \in Objects : contents[o] = IF o = id THEN result ELSE Values[o]
  BY <1>8 DEF Values
<1>10. Position = cursor /\ Position' = cursor + 1
  BY <1>2, <1>4 DEF Position
<1>11. ASSUME NEW o \in Objects
       PROVE  Values'[o] = IF UsedFrom(code, o, cursor + 1) THEN contents[o] ELSE None
  <2>1. CASE o # id
    <3>1. UsedFrom(code, o, cursor + 1) => UsedFrom(code, o, cursor)
      BY <1>3, UsedNow DEF IInv, Running
    <3>2. Carried(o) /\ initialized'[o] = initialized[o]
      BY <1>4, <1>7, <2>1
    <3>3. Values'[o] = IF UsedFrom(code, o, cursor + 1) THEN Values[o] ELSE None
      BY <1>4, <1>10, <3>1, <3>2, ValueKept
    <3> QED
      BY <1>9, <2>1, <3>3
  <2>2. CASE o = id
    <3>1. UsedFrom(code, o, Position)' = UsedFrom(code, o, cursor + 1)
      BY <1>4, <1>10 DEF UsedFrom, UsePositions
    <3>2. Values'[o] = IF initialized'[o] /\ UsedFrom(code, o, cursor + 1) THEN Denoted(o)' ELSE None
      BY <3>1 DEF Values
    <3>3. UsedFrom(code, o, cursor + 1) => Live(o)'
      BY <1>7, <2>2, <3>1 DEF Live
    <3> QED
      BY <1>4, <1>6, <1>7, <1>9, <2>2, <3>2, <3>3
  <2> QED
    BY <2>1, <2>2
<1>12. Advances(contents)
  BY <1>3, <1>4, <1>10, <1>11 DEF Advances
<1>13. Table' = Table
  <2>1. Shape[id].type = 0
    BY <1>1, <1>3, InstructionRules
  <2>2. modulus # None => modulus \in Objects \ {id}
    BY <2>1 DEF Versions, TableKnown, IInv, Types
  <2>3. \A o \in Objects : initialized[o] => initialized'[o]
    BY <1>7
  <2> QED
    BY <1>2, <1>4, <2>2, <2>3, TableKept DEF IInv
<1>14. Memory' = Memory /\ context' = context
  BY <1>2 DEF Memory
<1> QED
  BY <1>1, <1>3, <1>5, <1>8, <1>12, <1>13, <1>14

LEMMA MachineInit == Init => Reference!Init
<1> SUFFICES ASSUME Init
             PROVE  Reference!Init
  OBVIOUS
<1>1. Position = 1
  BY DEF Init, Position
<1>2. Values = [o \in Objects |-> None]
  BY DEF Init, Values
<1>3. Memory = [cell \in ImageCells |-> InitialAtom(cell)]
  BY DEF Init, Memory
<1>4. Table = None /\ context = None
  BY DEF Init, Table
<1> QED
  BY <1>1, <1>2, <1>3, <1>4
  DEF Reference!Init, Reference!InitialAtom, InitialAtom

\* Each step of the scheduler is one of the machine, or none.
LEMMA MachineSteps ==
    ASSUME NoneIsNoFunction, IInv, IInv', Versions, Homed, Safe, [Next]_vars
    PROVE  \/ MachineUnchanged
           \/ StartLoad \/ Store \/ Execute
           \/ /\ EndLoad \/ DeferStore \/ Free \/ LoadModulus \/ Sync
              /\ ~ MachineUnchanged
<1>1. CASE Moved
  BY <1>1, MovedMeans
<1>2. CASE Freeze \/ Place
  BY <1>1, <1>2, FreezeVersions, PlaceVersions
<1>3. CASE EvictForDestinationSlot \/ TakeDestinationSlot \/ EvictForResult
  BY <1>1, <1>3, KernelMoveVersions
<1>4. CASE KernelCapacityError \/ InvalidKernel \/ Return \/ UNCHANGED vars
  <2>1. UNCHANGED <<code, automatic, cursor, slot, home, dirty, initialized, modulus, layout,
                    loading, regs, ddr, context>>
    BY <1>4 DEF KernelCapacityError, InvalidKernel, Return, RaiseError, vars
  <2> QED
    BY <2>1 DEF MachineUnchanged, Position, Values, Memory, Table, UsedFrom, UsePositions,
                Denoted, OnChip
<1> QED
  BY <1>2, <1>3, <1>4 DEF Next, Kernel, Terminated

LEMMA MachineAdvance ==
    ASSUME NEW contents, Advances(contents)
    PROVE  Reference!Advance(contents) /\ Position <= Len(code)
<1>1. Position' = Position + 1 /\ code' = code /\ Position <= Len(code)
  BY DEF Advances, Running
<1>2. \A o \in Objects : Values'[o] = IF UsedFrom(code, o, Position + 1) THEN contents[o] ELSE None
  BY DEF Advances
<1>3. Values' = [o \in Objects |-> Values'[o]]
  BY DEF Values
<1>4. Values' = [o \in Objects |-> IF UsedFrom(code, o, Position + 1) THEN contents[o] ELSE None]
  BY <1>2, <1>3
<1>5. Values' = [o \in Objects |-> IF Reference!UsedFrom(code, o, Position + 1) THEN contents[o] ELSE None]
  BY <1>4, SameOperators
<1> QED
  BY <1>1, <1>5 DEF Reference!Advance, Reference!Pruned

LEMMA MachineNext ==
    ASSUME NoneIsNoFunction, IInv, IInv', Versions, Homed, Safe, [Next]_vars
    PROVE  [Reference!Next]_(Reference!machine)
<1>1. CASE MachineUnchanged
  BY <1>1 DEF MachineUnchanged, Reference!machine
<1>2. CASE StartLoad
  <2>1. PICK read : read = Read(Memory, Current.range)
    OBVIOUS
  <2>2. PICK contents : contents = [Values EXCEPT ![Current.def] = read]
    OBVIOUS
  <2>3. /\ Advances(contents) /\ Current.op = "load" /\ ~ Current.retained
        /\ Table' = IF Shape[Current.def].type = 1 THEN read ELSE Table
        /\ Memory' = Memory /\ context' = context
    BY <1>2, <2>1, <2>2, LoadMeans
  <2>4. Reference!Advance(contents) /\ Position <= Len(code)
    BY <2>3, MachineAdvance
  <2>5. read = Reference!Read(Memory, Current.range)
    BY <2>1, SameOperators
  <2>6. Current = code[Position]
    BY <2>3 DEF Advances, Current
  <2>7. Reference!LoadObject
    BY <2>2, <2>3, <2>4, <2>5, <2>6 DEF Reference!LoadObject
  <2> QED
    BY <2>4, <2>7 DEF Reference!Next
<1>3. CASE Store
  <2>1. PICK contents, value : contents = Values /\ value = Values[Current.sources[1]]
    OBVIOUS
  <2>2. /\ Advances(contents) /\ Current.op = "store" /\ Current.required
        /\ Table' = Table /\ context' = context
        /\ Memory' = Written(Memory, Current.range, value)
    BY <1>3, <2>1, StoreMeans
  <2>3. Reference!Advance(contents) /\ Position <= Len(code)
    BY <2>2, MachineAdvance
  <2>4. Memory' = Reference!Written(Memory, Current.range, value)
    BY <2>2, SameOperators
  <2>5. Current = code[Position]
    BY <2>2 DEF Advances, Current
  <2>6. Reference!StoreObject
    BY <2>1, <2>2, <2>3, <2>4, <2>5 DEF Reference!StoreObject
  <2> QED
    BY <2>3, <2>6 DEF Reference!Next
<1>4. CASE Execute
  <2>1. PICK result : result = Result(cursor, Shape[Current.def].width,
                        [k \in DOMAIN KernelReads |-> Values[KernelReads[k]]], context)
    OBVIOUS
  <2>2. PICK contents : contents = [Values EXCEPT ![Current.def] = result]
    OBVIOUS
  <2>3. /\ Advances(contents) /\ IsKernel(Current)
        /\ Table' = Table /\ Memory' = Memory /\ context' = context
    BY <1>4, <2>1, <2>2, ExecuteMeans
  <2>4. Reference!Advance(contents) /\ Position <= Len(code)
    BY <2>3, MachineAdvance
  <2>5. Current = code[Position] /\ cursor = Position
    BY <2>3 DEF Advances, Current
  <2>6. Reference!IsKernel(Current)
    BY <2>3, SameOperators
  <2>7. result = Reference!Result(Position, Shape[Current.def].width,
                        [k \in DOMAIN KernelReads |-> Values[KernelReads[k]]], context)
    BY <2>1, <2>5 DEF Result, Reference!Result
  <2>8. Reference!Compute
    BY <2>2, <2>3, <2>4, <2>5, <2>6, <2>7 DEF Reference!Compute, KernelReads
  <2> QED
    BY <2>4, <2>8 DEF Reference!Next
<1>5. CASE /\ EndLoad \/ DeferStore \/ Free \/ LoadModulus \/ Sync
           /\ ~ MachineUnchanged
  <2>1. PICK contents : contents = Values
    OBVIOUS
  <2>2. /\ Advances(contents) /\ Memory' = Memory /\ Table' = Table
        /\ \/ /\ context' = context
              /\ \/ Current.op \in {"free", "sync"}
                 \/ Current.op = "store" /\ ~ Current.required
                 \/ Current.op = "load" /\ Current.retained
           \/ /\ Current.op = "modld"
              /\ context' = IF Table = None THEN context ELSE Table
    BY <1>5, <2>1, OtherMeans
  <2>3. Reference!Advance(contents) /\ Position <= Len(code)
    BY <2>2, MachineAdvance
  <2>4. Current = code[Position]
    BY <2>2 DEF Advances, Current
  <2>5. Reference!LoadModulus \/ Reference!PassOver
    BY <2>1, <2>2, <2>3, <2>4 DEF Reference!LoadModulus, Reference!PassOver
  <2> QED
    BY <2>3, <2>5 DEF Reference!Next
<1> QED
  BY <1>1, <1>2, <1>3, <1>4, <1>5, MachineSteps

\* The emitted instructions do what the virtual program means, in automatic mode or
\* if no store of the program writes where live objects come from: every step of the
\* scheduler is a step of the machine that executes the program, or none.
THEOREM Implementation ==
    ASSUME NoneIsNoFunction, Guarded(Programs)
    PROVE  Spec => ImplementsProgram
<1>1. Init => IInv /\ Versions /\ Homed
  BY InitIInv, InitVersions, InitHomed
<1>2. IInv /\ Versions /\ Homed /\ [Next]_vars => (IInv /\ Versions /\ Homed)'
  BY NextIInv, NextVersions, NextHomed
<1>3. ASSUME Versions
      PROVE  Safe
  BY <1>3 DEF Versions, Imported, Guarded, Safe
<1>4. IInv /\ IInv' /\ Versions /\ Homed /\ [Next]_vars => [Reference!Next]_(Reference!machine)
  BY <1>3, MachineNext
<1> QED
  BY <1>1, <1>2, <1>4, MachineInit, PTL DEF Spec, ImplementsProgram, Reference!Spec

-----------------------------------------------------------------------------
(* Capacity errors: what find() looks at.                                  *)

\* Where find() may put data of that length.
Places(lines, allowed) ==
    {Interval(bank, base, RegularCapacity(lines)) :
        bank \in {b \in allowed \cap RegularBanks : b < RegularBankCount},
        base \in RegularBases(RegularCapacity(lines))}
    \cup
    (IF SmallBank \in allowed
     THEN {Interval(SmallBank, base, lines) : base \in SmallBases(lines)} ELSE {})

Vacant(where, i) == Fits(where, i.bank, i.base, i.capacity)

\* find() refuses data only if none of them is free.
LEMMA FindFull ==
    ASSUME NEW where, NEW lines \in 1 .. RegularLines, NEW allowed, NEW preference, NEW cost
    PROVE  Find(where, lines, 0, allowed, preference, cost).outcome = "full"
              <=> \A i \in Places(lines, allowed) : ~ Vacant(where, i)
<1> DEFINE answer == Find(where, lines, 0, allowed, preference, cost)
           small  == SmallBank \in allowed /\ FreeSmallBases(where, lines) # {}
           rooms  == BanksWithRoom(where, lines, allowed)
<1>1. lines # 0 /\ lines <= RegularLines
  BY DEF RegularLines
<1>2. answer = FindOrdinary(where, lines, allowed, preference, cost)
  BY <1>1 DEF Find
<1>3. answer.outcome = "full" <=> ~ small /\ rooms = {}
  <2>1. CASE small
    BY <1>2, <2>1 DEF FindOrdinary, Placed
  <2>2. CASE ~ small /\ rooms # {}
    BY <1>2, <2>2 DEF FindOrdinary, Placed
  <2>3. CASE ~ small /\ rooms = {}
    BY <1>2, <2>3 DEF FindOrdinary, Refused
  <2> QED
    BY <2>1, <2>2, <2>3
<1>4. small <=> SmallBank \in allowed /\ \E base \in SmallBases(lines) : Fits(where, SmallBank, base, lines)
  BY DEF FreeSmallBases
<1>5. rooms # {} <=> \E bank \in {b \in allowed \cap RegularBanks : b < RegularBankCount},
                        base \in RegularBases(RegularCapacity(lines)) :
                           Fits(where, bank, base, RegularCapacity(lines))
  BY <1>1 DEF BanksWithRoom, FreeRegularBases
<1>6. \A bank, base, capacity :
         Vacant(where, Interval(bank, base, capacity)) <=> Fits(where, bank, base, capacity)
  BY DEF Vacant, Interval
<1> HIDE DEF answer, small, rooms
<1>7. ASSUME NEW i \in Places(lines, allowed)
      PROVE  \/ \E bank \in {b \in allowed \cap RegularBanks : b < RegularBankCount},
                   base \in RegularBases(RegularCapacity(lines)) :
                      i = Interval(bank, base, RegularCapacity(lines))
             \/ SmallBank \in allowed /\ \E base \in SmallBases(lines) : i = Interval(SmallBank, base, lines)
  BY DEF Places
<1>8. ASSUME small \/ rooms # {}
      PROVE  \E i \in Places(lines, allowed) : Vacant(where, i)
  <2>1. CASE small
    <3>1. PICK base \in SmallBases(lines) : SmallBank \in allowed /\ Fits(where, SmallBank, base, lines)
      BY <1>4, <2>1
    <3>2. Interval(SmallBank, base, lines) \in Places(lines, allowed)
      BY <3>1 DEF Places
    <3> QED
      BY <1>6, <3>1, <3>2
  <2>2. CASE rooms # {}
    <3>1. PICK bank \in {b \in allowed \cap RegularBanks : b < RegularBankCount},
               base \in RegularBases(RegularCapacity(lines)) :
                  Fits(where, bank, base, RegularCapacity(lines))
      BY <1>5, <2>2
    <3>2. Interval(bank, base, RegularCapacity(lines)) \in Places(lines, allowed)
      BY <3>1 DEF Places
    <3> QED
      BY <1>6, <3>1, <3>2
  <2> QED
    BY <1>8, <2>1, <2>2
<1>9. ASSUME NEW i \in Places(lines, allowed), Vacant(where, i)
      PROVE  small \/ rooms # {}
  BY <1>4, <1>5, <1>6, <1>7, <1>9
<1>10. answer.outcome = "full" <=> \A i \in Places(lines, allowed) : ~ Vacant(where, i)
  BY <1>3, <1>8, <1>9
<1> QED
  BY <1>10 DEF answer

\* The loop over intervals passes all of them, if it passes those of bank 5.
LEMMA PlacesPassed ==
    ASSUME NEW lines \in 1 .. RegularLines, NEW allowed,
           SmallBank \in allowed => ModTableLines % 2 = 0
    PROVE  Places(lines, allowed) \subseteq Intervals(lines, allowed)
<1>1. ASSUME NEW base \in SmallBases(lines), SmallBank \in allowed
      PROVE  Interval(SmallBank, base, lines) \in Intervals(lines, allowed)
  <2>1. ModTableLines \in Nat /\ ModTableLines % 2 = 0 /\ ModTableLines <= 16
    BY <1>1, OptionsAssumption
  <2>2. base \in ModTableLines .. SmallLines /\ base % 2 = 0 /\ lines <= SmallLines - base
    BY <2>1 DEF SmallBases, FirstOrdinaryLine
  <2>3. PICK n \in Int : base = ModTableLines + 2 * n
    <3>1. base \in Nat
      BY <2>1, <2>2 DEF SmallLines
    <3>2. PICK j, k \in Int : j = base \div 2 /\ k = ModTableLines \div 2
      BY <2>1, <3>1
    <3>3. base = 2 * j /\ ModTableLines = 2 * k
      BY <2>1, <2>2, <3>1, <3>2
    <3>4. j - k \in Int /\ base = ModTableLines + 2 * (j - k)
      BY <3>3
    <3> QED
      BY <3>4
  <2>4. n \in 0 .. SmallLines /\ ModTableLines + 2 * n + lines <= SmallLines
    BY <2>1, <2>2, <2>3 DEF SmallLines, RegularLines
  <2> QED
    BY <1>1, <2>3, <2>4 DEF Intervals
<1>2. ASSUME NEW i \in Places(lines, allowed)
      PROVE  i \in Intervals(lines, allowed)
  <2>1. CASE \E bank \in {b \in allowed \cap RegularBanks : b < RegularBankCount},
                base \in RegularBases(RegularCapacity(lines)) :
                   i = Interval(bank, base, RegularCapacity(lines))
    BY <2>1 DEF Intervals
  <2>2. CASE SmallBank \in allowed /\ \E base \in SmallBases(lines) : i = Interval(SmallBank, base, lines)
    BY <1>1, <2>2
  <2> QED
    BY <2>1, <2>2 DEF Places
<1> QED
  BY <1>2

-----------------------------------------------------------------------------
(* What a refused request looks at.                                        *)

OnSlots(where) == where = [s \in Slots |-> where[s]]

\* The answer of a search for a place of that length.
Found(answer, where, lines, banks) ==
    \E preference, cost : answer = Find(where, lines, 0, banks, preference, cost)

\* What is held in these slots is the same.
SameAt(what, where, sources) == \A k \in DOMAIN sources : where[sources[k]] = what[sources[k]]

\* A layout that differs from the allocator's in what was evicted, nothing that
\* is pinned for o.
Thinned(o, where) ==
    /\ OnSlots(where)
    /\ \A s \in Slots : where[s] \in {layout[s], None}
    /\ \A q \in Excluded(o) \cap Objects : slot[q] \in Slots => where[slot[q]] = layout[slot[q]]

\* In it a request for o is refused exactly if none of the places is free.
Searches(o) ==
    \A where : Thinned(o, where) =>
        (Answer(o, where).outcome = "full"
            <=> \A i \in Places(Shape[o].lines, AllowedBanks(o)) : ~ Vacant(where, i))

LEMMA WithoutNothing ==
    ASSUME NEW where, OnSlots(where), NEW id \in Slots, where[id] = None
    PROVE  Without(where, id) = where
<1>1. PICK f : f = where
  OBVIOUS
<1>2. Without(f, id) = [s \in Slots |-> IF s = id THEN None ELSE f[s]]
  BY <1>1 DEF Without, OnSlots
<1>3. [s \in Slots |-> IF s = id THEN None ELSE f[s]] = [s \in Slots |-> f[s]]
  BY <1>1
<1> QED
  BY <1>1, <1>2, <1>3 DEF OnSlots

LEMMA LoadSearches ==
    ASSUME IInv, NEW o \in ToPlace, slot[o] # None, Shape[o].type = 0
    PROVE  Searches(o)
<1>1. o = Target /\ o \in Objects /\ ~ OnChip(o)
  BY ToPlaceTyped DEF IInv
<1>2. slot[o] \in Slots /\ layout[slot[o]] = None
  BY <1>1 DEF OnChip, IInv, Sound, Slotted
<1>3. ASSUME NEW where, Thinned(o, where)
      PROVE  Answer(o, where).outcome = "full"
                <=> \A i \in Places(Shape[o].lines, AllowedBanks(o)) : ~ Vacant(where, i)
  <2>1. where[slot[o]] = None
    BY <1>2, <1>3 DEF Thinned
  <2>2. Without(where, slot[o]) = where
    BY <1>2, <1>3, <2>1, WithoutNothing DEF Thinned
  <2>3. Answer(o, where) = Find(where, Shape[o].lines, 0, LoadMask(o), slot[o] % 5, NoCost)
    BY <1>1, <2>2 DEF Answer, LoadAnswer, LoadRequest, LoadMask
  <2>4. AllowedBanks(o) = LoadMask(o) /\ Shape[o].lines \in 1 .. RegularLines
    BY <1>1, Shapes DEF AllowedBanks
  <2> QED
    BY <2>3, <2>4, FindFull
<1> QED
  BY <1>3 DEF Searches

\* Whether a request for a result is refused depends on nothing but what is free
\* beside the operands.
LEMMA ResultSearches ==
    ASSUME NEW what, NEW where, OnSlots(where),
           NEW dst \in Slots, NEW sources \in Seq(Slots), sources # << >>,
           where[dst] = what[dst], SameAt(what, where, sources),
           ArithmeticRequest(what, dst, sources, FALSE).outcome = "full",
           what[dst] # None /\ ~ ArithmeticInvalid(what, dst, sources, FALSE)
              => what[dst].lines = what[sources[1]].lines
    PROVE  Found(ArithmeticRequest(where, dst, sources, FALSE), where,
                 what[sources[1]].lines, RegularBanks)
<1>1. 1 \in DOMAIN sources
  BY EmptySeq
<1>2. ~ ArithmeticInvalid(what, dst, sources, FALSE)
  BY DEF ArithmeticRequest, Refused
<1>3. ~ ArithmeticInvalid(where, dst, sources, FALSE)
  BY <1>1, <1>2 DEF ArithmeticInvalid, SameAt
<1>4. where[sources[1]] = what[sources[1]]
  BY <1>1 DEF SameAt
<1>5. what[dst] = None
  BY <1>2 DEF ArithmeticRequest, Placed
<1>6. Without(where, dst) = where
  BY <1>5, WithoutNothing
<1> QED
  BY <1>3, <1>4, <1>5, <1>6 DEF ArithmeticRequest, Found

LEMMA AccumulateSearches ==
    ASSUME NEW what, NEW where, OnSlots(where),
           NEW dst \in Slots, NEW sources \in Seq(Slots), sources # << >>,
           where[dst] = what[dst], SameAt(what, where, sources),
           ArithmeticRequest(what, dst, sources, TRUE).outcome = "full"
    PROVE  /\ what[dst] # None /\ what[dst].lines = what[sources[1]].lines
           /\ Found(ArithmeticRequest(where, dst, sources, TRUE), where,
                    what[sources[1]].lines, RegularBanks)
<1>1. 1 \in DOMAIN sources
  BY EmptySeq
<1>2. ~ ArithmeticInvalid(what, dst, sources, TRUE)
  BY DEF ArithmeticRequest, Refused
<1>3. ~ ArithmeticInvalid(where, dst, sources, TRUE)
  BY <1>1, <1>2 DEF ArithmeticInvalid, SameAt
<1>4. where[sources[1]] = what[sources[1]]
  BY <1>1 DEF SameAt
<1>5. what[dst] # None /\ what[dst].lines = what[sources[1]].lines
  BY <1>2 DEF ArithmeticInvalid
<1> QED
  BY <1>3, <1>4, <1>5 DEF ArithmeticRequest, Found

\* The pinned slots that a kernel's request reads.
LEMMA KernelPinned ==
    ASSUME IInv, KernelReady, DestinationSlot # None, NEW where, Thinned(Current.def, where)
    PROVE  /\ DestinationSlot \in Slots /\ where[DestinationSlot] = layout[DestinationSlot]
           /\ \A k \in DOMAIN SourceSlots :
                 SourceSlots[k] \in Slots /\ where[SourceSlots[k]] = layout[SourceSlots[k]]
<1>1. /\ Current.def \in Operands \cap Objects
      /\ \A k \in DOMAIN Current.sources : Current.sources[k] \in Operands \cap Objects
  BY KernelOperands, NoneApart DEF Operands, Uses, SourceSet
<1>2. \A q \in Operands \cap Objects : slot[q] \in Slots => where[slot[q]] = layout[slot[q]]
  BY DEF Thinned, Excluded
<1>3. \A k \in DOMAIN SourceSlots :
         SourceSlots[k] \in Slots /\ where[SourceSlots[k]] = layout[SourceSlots[k]]
  BY <1>1, <1>2, KernelOperands, SourceSlotsTyped
<1>4. DestinationSlot \in Slots
  BY Destination
<1>5. CASE Transfers
  <2>1. Transferable # {} /\ Transferable \in SUBSET Nat
    BY <1>5, KernelOperands DEF Transfers, Transferable
  <2>2. Smallest(Transferable) \in DOMAIN Current.sources
    BY <2>1, SmallestInSet DEF Transferable
  <2>3. Donor \in Operands \cap Objects /\ DestinationSlot = slot[Donor]
    BY <1>1, <1>5, <2>2, Destination DEF Donor
  <2> QED
    BY <1>2, <1>3, <1>4, <2>3
<1>6. CASE ~ Transfers
  BY <1>1, <1>2, <1>3, <1>4, <1>6, Destination
<1> QED
  BY <1>5, <1>6

\* A result that takes over lines of its own length is never refused.
LEMMA ArithmeticBeside ==
    ASSUME IInv, KernelReady, DestinationSlot # None, Current.op \in {"arith", "online"},
           ~ ArithmeticInvalid(layout, DestinationSlot,
                               IF Current.op = "online" THEN <<SourceSlots[1]>> ELSE SourceSlots, FALSE),
           layout[DestinationSlot] # None
    PROVE  layout[DestinationSlot].lines = layout[SourceSlots[1]].lines
<1>1. Current \in VirtualInstructions /\ Current.def \in Objects
  BY KernelOperands
<1>2. Shape[Current.def].lines = Shape[Current.sources[1]].lines
  BY <1>1, InstructionFields
<1>3. 1 \in DOMAIN Current.sources
  BY KernelOperands, EmptySeq
<1>4. SourceSlots[1] = slot[Current.sources[1]] /\ Current.sources[1] \in Objects
  BY <1>3, KernelOperands, SourceSlotsTyped
<1>5. layout[SourceSlots[1]].lines = Shape[Current.def].lines
  BY <1>2, <1>3, <1>4, KernelOperands, OwnRegion, NoneApart DEF IInv
<1>6. CASE ~ Transfers
  <2>1. DestinationSlot = slot[Current.def]
    BY <1>6, Destination
  <2> QED
    BY <1>1, <1>5, <2>1, OwnRegion DEF IInv
<1>7. CASE Transfers
  <2>1. Transferable # {} /\ Transferable \in SUBSET Nat
    BY <1>7, KernelOperands DEF Transfers, Transferable
  <2>2. PICK k \in Transferable : k = Smallest(Transferable)
    BY <2>1, SmallestInSet
  <2>3. k \in DOMAIN Current.sources /\ (Current.op = "online" => k = 1)
    BY <2>2 DEF Transferable
  <2>4. DestinationSlot = SourceSlots[k]
    BY <1>7, <2>2, <2>3, SourceSlotsTyped, Destination DEF Donor
  <2>5. CASE Current.op = "online"
    BY <2>3, <2>4, <2>5
  <2>6. CASE Current.op # "online"
    <3>1. \A j \in DOMAIN SourceSlots : layout[SourceSlots[j]].lines = layout[SourceSlots[1]].lines
      BY <2>6 DEF ArithmeticInvalid
    <3> QED
      BY <2>3, <2>4, <3>1, SourceSlotsTyped
  <2> QED
    BY <2>5, <2>6
<1> QED
  BY <1>6, <1>7

LEMMA KernelSearches ==
    ASSUME IInv, KernelReady, DestinationSlot # None, KernelAnswer(layout).outcome = "full"
    PROVE  Searches(Current.def)
<1> DEFINE def == Current.def
           dst == DestinationSlot
<1>1. /\ def \in Objects /\ def # Target /\ Shape[def].lines \in 1 .. RegularLines
      /\ Current \in VirtualInstructions /\ IsKernel(Current)
  BY KernelOperands, Shapes, NoneApart DEF KernelReady
<1>2. \A where : Answer(def, where) = KernelAnswer(where)
  BY <1>1 DEF Answer
<1>3. AllowedBanks(def) = KernelBanks
  BY <1>1 DEF AllowedBanks
<1>4. 1 \in DOMAIN SourceSlots /\ SourceSlots \in Seq(Slots) /\ SourceSlots # << >>
  BY SourceSlotsTyped, EmptySeq
<1>5. 1 \in DOMAIN Current.sources /\ SourceSlots[1] = slot[Current.sources[1]]
  BY <1>4, SourceSlotsTyped
<1>6. layout[SourceSlots[1]].lines = Shape[Current.sources[1]].lines
  BY <1>5, KernelOperands, OwnRegion, NoneApart DEF IInv
<1>7. ASSUME NEW where, Thinned(def, where)
      PROVE  Found(KernelAnswer(where), where, Shape[def].lines, KernelBanks)
  <2>1. /\ dst \in Slots /\ where[dst] = layout[dst]
        /\ \A k \in DOMAIN SourceSlots :
              SourceSlots[k] \in Slots /\ where[SourceSlots[k]] = layout[SourceSlots[k]]
    BY <1>7, KernelPinned
  <2>0. SameAt(layout, where, SourceSlots)
    BY <2>1 DEF SameAt
  <2>2. OnSlots(where)
    BY <1>7 DEF Thinned
  <2>3. CASE Current.op = "stage"
    <3>1. NttRequest(layout, dst).outcome = "full"
      BY <2>3, AnswerStage
    <3>2. ~ (layout[dst] = None \/ layout[dst].type = 1)
      BY <3>1 DEF NttRequest, Refused
    <3>3. dst = slot[def]
      BY <2>3, Destination
    <3>4. layout[dst].lines = Shape[def].lines
      BY <1>1, <3>2, <3>3, OwnRegion DEF IInv
    <3>5. Found(NttRequest(where, dst), where, Shape[def].lines, RegularBanks \ {layout[dst].bank})
      BY <2>1, <3>2, <3>4 DEF NttRequest, Found
    <3>6. KernelBanks = RegularBanks \ {layout[dst].bank}
      BY <2>3 DEF KernelBanks
    <3> QED
      BY <2>3, <3>5, <3>6, AnswerStage
  <2>4. CASE Current.op = "mac"
    <3>1. ArithmeticRequest(layout, dst, SourceSlots, TRUE).outcome = "full"
      BY <2>4, AnswerOther
    <3>2. layout[dst] # None /\ layout[dst].lines = layout[SourceSlots[1]].lines
      BY <1>4, <2>0, <2>1, <2>2, <3>1, AccumulateSearches
    <3>3. Found(ArithmeticRequest(where, dst, SourceSlots, TRUE), where, layout[SourceSlots[1]].lines, RegularBanks)
      BY <1>4, <2>0, <2>1, <2>2, <3>1, AccumulateSearches
    <3>4. dst = slot[def]
      BY <2>4, Destination
    <3>5. layout[dst].lines = Shape[def].lines
      BY <1>1, <3>2, <3>4, OwnRegion DEF IInv
    <3> QED
      BY <2>4, <3>2, <3>3, <3>5, AnswerOther DEF KernelBanks
  <2>5. CASE Current.op = "online"
    <3>1. OnlineMultiplyRequest(layout, dst, SourceSlots[1], SourceSlots[2]).outcome = "full"
      BY <2>5, AnswerOnline
    <3>2. /\ ~ OnlineMultiplyInvalid(layout, dst, SourceSlots[1], SourceSlots[2])
          /\ ArithmeticRequest(layout, dst, <<SourceSlots[1]>>, FALSE).outcome = "full"
      BY <3>1 DEF OnlineMultiplyRequest, Refused
    <3>3. PICK one : one = <<SourceSlots[1]>>
      OBVIOUS
    <3>4. one \in Seq(Slots) /\ one # << >> /\ DOMAIN one = {1} /\ one[1] = SourceSlots[1]
      BY <1>4, <2>1, <3>3
    <3>5. layout[dst] # None /\ ~ ArithmeticInvalid(layout, dst, one, FALSE)
             => layout[dst].lines = layout[one[1]].lines
      BY <2>5, <3>3, <3>4, ArithmeticBeside
    <3>6. SameAt(layout, where, one)
      BY <1>4, <2>1, <3>4 DEF SameAt
    <3>7. Found(ArithmeticRequest(where, dst, one, FALSE), where, layout[one[1]].lines, RegularBanks)
      BY <2>1, <2>2, <3>2, <3>3, <3>4, <3>5, <3>6, ResultSearches
    <3>8. ~ OnlineMultiplyInvalid(where, dst, SourceSlots[1], SourceSlots[2])
      <4>1. 2 \in DOMAIN SourceSlots
        BY <1>1, <2>5, KernelOperands, SourceSlotsTyped, InstructionFields
      <4> QED
        BY <1>4, <2>1, <3>2, <4>1 DEF OnlineMultiplyInvalid
    <3>9. KernelAnswer(where) = ArithmeticRequest(where, dst, one, FALSE)
      BY <2>5, <3>3, <3>8, AnswerOnline DEF OnlineMultiplyRequest
    <3>10. Shape[def].lines = Shape[Current.sources[1]].lines
      BY <1>1, <2>5, InstructionFields
    <3> QED
      BY <1>6, <2>5, <3>4, <3>7, <3>9, <3>10 DEF KernelBanks
  <2>6. CASE Current.op = "arith"
    <3>1. ArithmeticRequest(layout, dst, SourceSlots, FALSE).outcome = "full"
      BY <2>6, AnswerOther
    <3>2. layout[dst] # None /\ ~ ArithmeticInvalid(layout, dst, SourceSlots, FALSE)
             => layout[dst].lines = layout[SourceSlots[1]].lines
      BY <2>6, ArithmeticBeside
    <3>4. Found(ArithmeticRequest(where, dst, SourceSlots, FALSE), where, layout[SourceSlots[1]].lines, RegularBanks)
      BY <1>4, <2>0, <2>1, <2>2, <3>1, <3>2, ResultSearches
    <3>5. Shape[def].lines = Shape[Current.sources[1]].lines
      BY <1>1, <2>6, InstructionFields
    <3> QED
      BY <1>6, <2>6, <3>4, <3>5, AnswerOther DEF KernelBanks
  <2> QED
    BY <1>1, <2>3, <2>4, <2>5, <2>6 DEF IsKernel
<1>8. ASSUME NEW where, Thinned(def, where)
      PROVE  Answer(def, where).outcome = "full"
                <=> \A i \in Places(Shape[def].lines, AllowedBanks(def)) : ~ Vacant(where, i)
  <2>1. PICK preference, cost :
           KernelAnswer(where) = Find(where, Shape[def].lines, 0, KernelBanks, preference, cost)
    BY <1>7, <1>8 DEF Found
  <2> QED
    BY <1>1, <1>2, <1>3, <2>1, FindFull
<1> QED
  BY <1>8 DEF Searches

-----------------------------------------------------------------------------
(* The cheapest candidate.                                                 *)

One(s) == CHOOSE x \in s : TRUE

\* The sum that the folds of the community modules compute, for every subset.
Sums(S, w, sum) ==
    sum = [s \in SUBSET S |-> IF s = {} THEN 0 ELSE w[One(s)] + sum[s \ {One(s)}]]

\* What is left of a finite set without one element is smaller.
LEMMA OneLess ==
    ASSUME NEW S, IsFiniteSet(S), NEW s \in SUBSET S
    PROVE  /\ Cardinality(s) \in Nat /\ Cardinality(s) <= Cardinality(S)
           /\ s # {} => /\ One(s) \in s /\ s \ {One(s)} \in SUBSET S
                        /\ Cardinality(s \ {One(s)}) = Cardinality(s) - 1
           /\ Cardinality(s) = 0 => s = {}
  <1>1. IsFiniteSet(s) /\ Cardinality(s) \in Nat /\ Cardinality(s) <= Cardinality(S)
    BY FS_Subset, FS_CardinalityType
  <1>2. s # {} => One(s) \in s
    BY DEF One
  <1> QED
    BY <1>1, <1>2, FS_RemoveElement, FS_EmptySet

\* There is such a sum, by induction on the size of the subsets.
LEMMA SumsExist ==
    ASSUME NEW S, IsFiniteSet(S), NEW w \in [S -> Nat]
    PROVE  \E sum \in [SUBSET S -> Nat] : Sums(S, w, sum)
  <1> DEFINE upTo(n) == {s \in SUBSET S : Cardinality(s) <= n}
             next(f, s) == IF s = {} THEN 0 ELSE w[One(s)] + f[s \ {One(s)}]
             sound(n, f) == \A s \in upTo(n) : f[s] = next(f, s)
             bad == {n \in Nat : ~ \E f \in [SUBSET S -> Nat] : sound(n, f)}
  <1>0. \A s \in SUBSET S :
           Cardinality(s) \in Nat /\ Cardinality(s) <= Cardinality(S) /\ (Cardinality(s) = 0 => s = {})
    BY OneLess
  <1>1. bad = {}
    <2> SUFFICES ASSUME bad # {} PROVE FALSE
      OBVIOUS
    <2>1. PICK n \in bad : \A m \in bad : n <= m
      <3> HIDE DEF bad
      <3>1. bad \in SUBSET Nat
        BY DEF bad
      <3> QED
        BY <3>1, LeastNatural
    <2>2. CASE n = 0
      <3>1. [s \in SUBSET S |-> 0] \in [SUBSET S -> Nat]
        OBVIOUS
      <3>2. \A s \in upTo(0) : s = {}
        <4> TAKE s \in upTo(0)
        <4>1. s \in SUBSET S /\ Cardinality(s) <= 0
          OBVIOUS
        <4>2. Cardinality(s) = 0
          BY <1>0, <4>1
        <4> QED
          BY <1>0, <4>1, <4>2
      <3>3. sound(0, [s \in SUBSET S |-> 0])
        BY <3>2
      <3> QED
        BY <2>1, <2>2, <3>1, <3>3
    <2>3. CASE n # 0
      <3>1. n \in Nat
        BY <2>1
      <3>2. n - 1 \in Nat /\ ~ (n <= n - 1)
        BY <2>3, <3>1
      <3>3. n - 1 \notin bad
        <4> HIDE DEF bad
        <4> QED
          BY <2>1, <3>2
      <3>4. PICK f \in [SUBSET S -> Nat] : sound(n - 1, f)
        BY <3>2, <3>3
      <3> DEFINE g == [s \in SUBSET S |-> next(f, s)]
      <3>5. ASSUME NEW s \in SUBSET S, s # {}
            PROVE  w[One(s)] + f[s \ {One(s)}] \in Nat
        <4>1. w[One(s)] \in Nat /\ f[s \ {One(s)}] \in Nat
          BY <3>5, OneLess
        <4> QED
          BY <4>1
      <3>6. g \in [SUBSET S -> Nat]
        BY <3>5
      <3>7. \A s \in upTo(n - 1) : g[s] = f[s]
        BY <3>4
      <3>8. ASSUME NEW s \in upTo(n), s # {}
            PROVE  s \ {One(s)} \in upTo(n - 1)
        BY <3>1, <3>8, OneLess
      <3>9. sound(n, g)
        BY <3>7, <3>8
      <3> HIDE DEF g, sound
      <3> QED
        BY <2>1, <3>6, <3>9
    <2> QED
      BY <2>2, <2>3
  <1>2. Cardinality(S) \in Nat
    BY FS_CardinalityType
  <1>3. PICK f \in [SUBSET S -> Nat] : sound(Cardinality(S), f)
    BY <1>1, <1>2
  <1>4. \A s \in SUBSET S : f[s] = next(f, s)
    BY <1>3, OneLess
  <1>5. Sums(S, w, f)
    BY <1>4 DEF Sums
  <1> QED
    BY <1>5

\* It is a natural number.
LEMMA SumsNatural ==
    ASSUME NEW S, IsFiniteSet(S), NEW w \in [S -> Nat], NEW sum, Sums(S, w, sum)
    PROVE  sum[S] \in Nat
<1> DEFINE bad == {n \in Nat : \E s \in SUBSET S : Cardinality(s) = n /\ sum[s] \notin Nat}
<1>1. \A s \in SUBSET S : sum[s] = IF s = {} THEN 0 ELSE w[One(s)] + sum[s \ {One(s)}]
  BY DEF Sums
<1>2. bad = {}
  <2> SUFFICES ASSUME bad # {} PROVE FALSE
    OBVIOUS
  <2>1. PICK n \in bad : \A m \in bad : n <= m
    <3> HIDE DEF bad
    <3>1. bad \in SUBSET Nat
      BY DEF bad
    <3> QED
      BY <3>1, LeastNatural
  <2>2. PICK s \in SUBSET S : Cardinality(s) = n /\ sum[s] \notin Nat
    BY <2>1
  <2>31. s = {} => sum[s] = 0
    BY <1>1, <2>2, Zenon
  <2>32. s # {} => sum[s] = w[One(s)] + sum[s \ {One(s)}]
    BY <1>1, <2>2, Zenon
  <2> HIDE DEF bad
  <2>3. s # {}
    BY <2>2, <2>31
  <2>4. One(s) \in s /\ s \ {One(s)} \in SUBSET S /\ Cardinality(s \ {One(s)}) = n - 1 /\ n \in Nat
    BY <2>1, <2>2, <2>3, OneLess
  <2>5. n - 1 \in Nat
    <3>1. IsFiniteSet(s \ {One(s)})
      BY <2>4, FS_Subset
    <3> QED
      BY <2>4, <3>1, FS_CardinalityType
  <2>6. ~ (n <= n - 1)
    BY <2>4
  <2>7. sum[s \ {One(s)}] \in Nat
    <3>1. n - 1 \notin bad
      BY <2>1, <2>6
    <3> QED
      BY <2>4, <2>5, <3>1 DEF bad
  <2>8. w[One(s)] \in Nat
    BY <2>4
  <2> QED
    BY <2>2, <2>3, <2>32, <2>7, <2>8
<1>3. Cardinality(S) \in Nat
  BY FS_CardinalityType
<1> QED
  BY <1>2, <1>3

LEMMA SlotsFinite == IsFiniteSet(Slots)
<1>1. PICK m, n \in Int : m = 0 /\ n = 63
  OBVIOUS
<1>2. IsFiniteSet(m .. n)
  BY FS_Interval
<1>3. Slots \in SUBSET (m .. n)
  BY <1>1, SlotsAssumption
<1> QED
  BY <1>2, <1>3, FS_Subset

LEMMA ResidentFinite ==
    ASSUME IInv
    PROVE  /\ IsFiniteSet(Resident)
           /\ FreeSlots = {} => Cardinality(Slots) <= Cardinality(Resident)
<1>1. PICK f : f = [o \in Resident |-> slot[o]]
  OBVIOUS
<1>2. \A o \in Resident : slot[o] \in Slots
  BY DEF Resident, IInv, Sound, Slotted
<1>3. \A o, q \in Resident : slot[o] = slot[q] => o = q
  BY DEF Resident, IInv, Sound, Apart
<1>4. f \in Injection(Resident, Slots)
  BY <1>1, <1>2, <1>3 DEF Injection, IsInjective
<1>5. IsFiniteSet(Resident)
  BY <1>4, SlotsFinite, FS_Injection
<1>6. ASSUME FreeSlots = {}
      PROVE  Cardinality(Slots) <= Cardinality(Resident)
  <2>1. \A s \in Slots : \E o \in Resident : slot[o] = s
    BY <1>6 DEF FreeSlots
  <2>2. f \in Surjection(Resident, Slots)
    BY <1>1, <1>2, <2>1 DEF Surjection
  <2> QED
    BY <1>5, <2>2, FS_Surjection
<1> QED
  BY <1>5, <1>6

LEMMA NextUseNatural ==
    ASSUME Types
    PROVE  \A o : NextUse(o) \in Nat /\ NextUse(o) <= Never /\ Never \in Nat
<1>1. Len(code) \in Nat /\ cursor \in Nat
  BY DEF Types
<1>2. ASSUME NEW o
      PROVE  NextUse(o) \in Nat /\ NextUse(o) <= Never
  <2>1. UsePositions(code, o, cursor + 1) \in SUBSET Nat
        /\ \A p \in UsePositions(code, o, cursor + 1) : p <= Len(code)
    BY <1>1 DEF UsePositions
  <2>2. UsedFrom(code, o, cursor + 1) =>
           Smallest(UsePositions(code, o, cursor + 1)) \in UsePositions(code, o, cursor + 1)
    BY <2>1, SmallestInSet DEF UsedFrom
  <2> QED
    BY <1>1, <2>1, <2>2 DEF NextUse, Never
<1> QED
  BY <1>1, <1>2 DEF Never

LEMMA EvictionNatural ==
    ASSUME Types, NEW o \in Objects
    PROVE  EvictionCost(o) \in Nat
BY Shapes DEF EvictionCost

LEMMA ClearingNatural ==
    ASSUME IInv, NEW i
    PROVE  ClearingCost(i) \in Nat
<1> DEFINE T == Occupants(i)
<1>1. T \in SUBSET Resident /\ T \in SUBSET Objects
  BY DEF Occupants, Resident
<1>2. IsFiniteSet(T)
  BY <1>1, ResidentFinite, FS_Subset
<1>3. PICK w : w = [o \in T |-> EvictionCost(o)]
  OBVIOUS
<1>4. w \in [T -> Nat]
  BY <1>1, <1>3, EvictionNatural DEF IInv
<1> HIDE DEF T
<1> DEFINE summed(sum) ==
             sum = [s \in SUBSET T |->
                      IF s = {} THEN 0 ELSE EvictionCost(One(s)) + sum[s \ {One(s)}]]
           total == CHOOSE sum : summed(sum)
<1>5. \A sum : summed(sum) <=> Sums(T, w, sum)
  <2>1. \A s \in SUBSET T : s # {} => One(s) \in T
    BY DEF One
  <2> QED
    BY <1>3, <2>1 DEF Sums
<1>6. summed(total)
  <2>1. \E sum : Sums(T, w, sum)
    BY <1>2, <1>4, SumsExist
  <2>2. \E sum : summed(sum)
    BY <1>5, <2>1
  <2> HIDE DEF summed
  <2> QED
    BY <2>2
<1>7. MapThenSumSet(EvictionCost, T) = total[T]
  BY DEF MapThenSumSet, MapThenFoldSet, One
<1> HIDE DEF total, summed
<1>8. total[T] \in Nat
  BY <1>2, <1>4, <1>5, <1>6, SumsNatural
<1> QED
  BY <1>7, <1>8 DEF ClearingCost, T

\* Before in the lexicographic order by three numbers.
Before(f, g, h, c, d) ==
    \/ f[c] < f[d]
    \/ /\ f[c] = f[d]
       /\ g[c] < g[d] \/ (g[c] = g[d] /\ h[c] < h[d])

OneToOne(h, C) == \A c, d \in C : h[c] = h[d] => c = d

LEMMA LeastValue ==
    ASSUME NEW C, C # {}, NEW f \in [C -> Nat]
    PROVE  \E m \in Nat : (\E c \in C : f[c] = m) /\ \A c \in C : m <= f[c]
<1>1. PICK S : S = {f[c] : c \in C}
  OBVIOUS
<1>2. S \in SUBSET Nat /\ S # {}
  BY <1>1
<1>3. PICK m \in S : \A n \in S : m <= n
  BY <1>2, LeastNatural
<1> QED
  BY <1>1, <1>2, <1>3

\* If the last of them tells elements apart, it has a least element.
LEMMA LeastOfThree ==
    ASSUME NEW C, C # {}, NEW f \in [C -> Nat], NEW g \in [C -> Nat], NEW h \in [C -> Nat],
           OneToOne(h, C)
    PROVE  \E c \in C : \A d \in C \ {c} : Before(f, g, h, c, d)
<1>1. PICK m \in Nat : (\E c \in C : f[c] = m) /\ \A c \in C : m <= f[c]
  BY LeastValue
<1> DEFINE first == {c \in C : f[c] = m}
<1>2. PICK n \in Nat : (\E c \in first : g[c] = n) /\ \A c \in first : n <= g[c]
  <2>1. PICK only : only = [c \in first |-> g[c]]
    OBVIOUS
  <2>2. only \in [first -> Nat] /\ first # {}
    BY <1>1, <2>1
  <2> HIDE DEF first
  <2> QED
    BY <2>1, <2>2, LeastValue
<1> DEFINE second == {c \in first : g[c] = n}
<1>3. PICK r \in Nat : (\E c \in second : h[c] = r) /\ \A c \in second : r <= h[c]
  <2>1. PICK only : only = [c \in second |-> h[c]]
    OBVIOUS
  <2>2. only \in [second -> Nat] /\ second # {}
    BY <1>2, <2>1
  <2> HIDE DEF second
  <2> QED
    BY <2>1, <2>2, LeastValue
<1>4. PICK c \in second : h[c] = r
  BY <1>3
<1>5. c \in C /\ f[c] = m /\ g[c] = n
  OBVIOUS
<1>6. ASSUME NEW d \in C \ {c}
      PROVE  Before(f, g, h, c, d)
  <2>1. f[d] \in Nat /\ g[d] \in Nat /\ h[d] \in Nat /\ m <= f[d] /\ h[c] # h[d]
    BY <1>1, <1>5 DEF OneToOne
  <2>2. CASE f[d] # m
    BY <1>5, <2>1, <2>2 DEF Before
  <2>3. CASE f[d] = m /\ g[d] # n
    <3>1. d \in first
      BY <2>3
    <3>2. n <= g[d]
      BY <1>2, <3>1
    <3> QED
      BY <1>5, <2>1, <2>3, <3>2 DEF Before
  <2>4. CASE f[d] = m /\ g[d] = n
    <3>1. d \in second
      BY <2>4
    <3>2. r <= h[d]
      BY <1>3, <3>1
    <3> QED
      BY <1>4, <1>5, <2>1, <2>4, <3>2 DEF Before
  <2> QED
    BY <2>2, <2>3, <2>4
<1> QED
  BY <1>5, <1>6

\* evict_one() finds a victim if there is one.
LEMMA VictimFound ==
    ASSUME IInv, ~ automatic, NEW o, Victim(o) = {}
    PROVE  Victims(o) = {}
<1> SUFFICES ASSUME Victims(o) # {}
             PROVE  FALSE
  OBVIOUS
<1> DEFINE C == Victims(o)
<1>1. \A v \in C : v \in Nat /\ NextUse(v) \in Nat /\ Never - NextUse(v) \in Nat
  BY NextUseNatural, ShapeAssumption DEF Victims, Resident, IInv
<1> HIDE DEF C
<1>2. PICK f, g, h : /\ f = [v \in C |-> 0] /\ g = [v \in C |-> Never - NextUse(v)]
                     /\ h = [v \in C |-> v]
  OBVIOUS
<1>3. f \in [C -> Nat] /\ g \in [C -> Nat] /\ h \in [C -> Nat]
  BY <1>1, <1>2
<1>4. OneToOne(h, C)
  BY <1>2 DEF OneToOne
<1>5. PICK c \in C : \A d \in C \ {c} : Before(f, g, h, c, d)
  BY <1>3, <1>4, LeastOfThree DEF C
<1>6. ASSUME NEW d \in C \ {c}
      PROVE  Preferable(c, d)
  <2>1. g[c] < g[d] \/ (g[c] = g[d] /\ h[c] < h[d])
    BY <1>2, <1>5 DEF Before
  <2>2. NextUse(c) > NextUse(d) \/ (NextUse(c) = NextUse(d) /\ c < d)
    BY <1>1, <1>2, <2>1, NextUseNatural DEF IInv
  <2> QED
    BY <2>2 DEF Preferable
<1> QED
  BY <1>6 DEF Victim, C

\* allocate_physical() finds a best interval if there is a candidate.
LEMMA CandidateFound ==
    ASSUME IInv, automatic, NEW o \in Objects, Clearing(o) = {}
    PROVE  Candidates(o) = {}
<1> SUFFICES ASSUME Candidates(o) # {}
             PROVE  FALSE
  OBVIOUS
<1> DEFINE C == Candidates(o)
           lines == Shape[o].lines
           rank(i) == 1024 * i.bank + i.base
<1>1. lines \in Nat /\ ModTableLines \in Nat /\ RegularCapacity(lines) \in Nat
  BY Shapes, OptionsAssumption DEF RegularCapacity
<1> DEFINE size(bank) == IF bank = 5 THEN lines ELSE RegularCapacity(lines)
<1>2. ASSUME NEW i \in Intervals(lines, AllowedBanks(o))
      PROVE  i.bank \in Nat /\ i.base \in Nat /\ i.base <= 1023 /\ i = Interval(i.bank, i.base, size(i.bank))
  <2>1. ASSUME NEW bank, NEW base, NEW capacity, i = Interval(bank, base, capacity)
        PROVE  i.bank = bank /\ i.base = base /\ i = Interval(i.bank, i.base, capacity)
    BY <2>1 DEF Interval
  <2>2. CASE \E bank \in AllowedBanks(o) \cap RegularBanks, base \in RegularBases(RegularCapacity(lines)) :
                i = Interval(bank, base, RegularCapacity(lines))
    <3>1. PICK bank \in RegularBanks, base \in RegularBases(RegularCapacity(lines)) :
             i = Interval(bank, base, RegularCapacity(lines))
      BY <2>2
    <3>2. bank \in Nat /\ bank # 5
      BY DEF RegularBanks
    <3>3. base \in Nat /\ base <= 1023
      BY DEF RegularBases, Granule
    <3> QED
      BY <2>1, <3>1, <3>2, <3>3
  <2>3. CASE \E k \in 0 .. SmallLines : /\ i = Interval(SmallBank, ModTableLines + 2 * k, lines)
                                        /\ ModTableLines + 2 * k + lines <= SmallLines
    <3>1. PICK k \in 0 .. SmallLines : /\ i = Interval(SmallBank, ModTableLines + 2 * k, lines)
                                       /\ ModTableLines + 2 * k + lines <= SmallLines
      BY <2>3
    <3>2. ModTableLines + 2 * k \in Nat /\ ModTableLines + 2 * k <= 1023
      BY <1>1, <3>1 DEF SmallLines
    <3> QED
      BY <2>1, <3>1, <3>2 DEF SmallBank
  <2> QED
    BY <2>2, <2>3 DEF Intervals
<1>3. \A i \in C : i \in Intervals(lines, AllowedBanks(o)) /\ Occupants(i) # {}
  BY DEF Candidates
<1> HIDE DEF C, size
<1>4. ASSUME NEW i \in C
      PROVE  rank(i) \in Nat
  <2>1. PICK b, x \in Nat : b = i.bank /\ x = i.base
    BY <1>2, <1>3
  <2> QED
    BY <2>1
<1>5. ASSUME NEW i \in C, NEW j \in C, rank(i) = rank(j)
      PROVE  i = j
  <2>1. PICK a, b, x, y \in Nat : a = i.bank /\ b = j.bank /\ x = i.base /\ y = j.base
    BY <1>2, <1>3
  <2>2. x <= 1023 /\ y <= 1023 /\ 1024 * a + x = 1024 * b + y
    BY <1>2, <1>3, <1>5, <2>1
  <2>3. a = b /\ x = y
    BY <2>2
  <2>4. i = Interval(a, x, size(a)) /\ j = Interval(b, y, size(b))
    BY <1>2, <1>3, <2>1
  <2> QED
    BY <2>3, <2>4
<1>6. ASSUME NEW i \in C
      PROVE  ClearingDistance(i) \in Nat /\ Never - ClearingDistance(i) \in Nat
  <2>1. {NextUse(q) : q \in Occupants(i)} \in SUBSET Nat /\ {NextUse(q) : q \in Occupants(i)} # {}
    BY <1>3, NextUseNatural DEF IInv
  <2>2. ClearingDistance(i) \in {NextUse(q) : q \in Occupants(i)}
    BY <2>1, SmallestInSet DEF ClearingDistance
  <2> QED
    BY <2>2, NextUseNatural DEF IInv
<1>7. PICK f, g, h : /\ f = [i \in C |-> ClearingCost(i)]
                     /\ g = [i \in C |-> Never - ClearingDistance(i)]
                     /\ h = [i \in C |-> rank(i)]
  OBVIOUS
<1>8. f \in [C -> Nat] /\ g \in [C -> Nat] /\ h \in [C -> Nat]
  <2> HIDE DEF C, rank
  <2> QED
    BY <1>4, <1>6, <1>7, ClearingNatural
<1>9. OneToOne(h, C)
  <2> HIDE DEF C, rank
  <2> QED
    BY <1>5, <1>7 DEF OneToOne
<1> HIDE DEF C
<1>10. PICK c \in C : \A d \in C \ {c} : Before(f, g, h, c, d)
  BY <1>8, <1>9, LeastOfThree DEF C
<1>11. ASSUME NEW d \in C \ {c}
       PROVE  Cheaper(c, d)
  <2>1. /\ ClearingCost(c) < ClearingCost(d) \/ ClearingCost(c) = ClearingCost(d)
        /\ \/ ClearingCost(c) < ClearingCost(d)
           \/ g[c] < g[d] \/ (g[c] = g[d] /\ rank(c) < rank(d))
    BY <1>7, <1>10 DEF Before
  <2>2. g[c] = Never - ClearingDistance(c) /\ g[d] = Never - ClearingDistance(d)
    BY <1>7
  <2>3. /\ g[c] < g[d] => ClearingDistance(c) > ClearingDistance(d)
        /\ g[c] = g[d] => ClearingDistance(c) = ClearingDistance(d)
    <3>1. PICK a, b, never \in Nat : a = ClearingDistance(c) /\ b = ClearingDistance(d) /\ never = Never
      BY <1>6, NextUseNatural DEF IInv
    <3> QED
      BY <2>2, <3>1
  <2> QED
    BY <2>1, <2>2, <2>3 DEF Cheaper
<1>12. Occupants(c) \in Clearing(o)
  BY <1>11 DEF Clearing, C
<1> QED
  BY <1>12

-----------------------------------------------------------------------------
(* What refuses a request is pinned.                                       *)

LEMMA LayoutThinned ==
    ASSUME IInv, NEW o
    PROVE  Thinned(o, layout)
<1>1. OnSlots(layout)
  BY DEF IInv, Sound, Layout, OnSlots
<1> QED
  BY <1>1 DEF Thinned

LEMMA SparedThinned ==
    ASSUME IInv, NEW o
    PROVE  Thinned(o, Spared(o))
<1>1. PICK f : f = Spared(o)
  OBVIOUS
<1>2. f = [s \in Slots |-> IF \E p \in Pinned(o) : slot[p] = s THEN layout[s] ELSE None]
  BY <1>1 DEF Spared
<1>3. OnSlots(f) /\ \A s \in Slots : f[s] \in {layout[s], None}
  BY <1>2 DEF OnSlots
<1>4. \A q \in Excluded(o) : slot[q] \in Slots => f[slot[q]] = layout[slot[q]]
  BY <1>2 DEF Pinned
<1> QED
  BY <1>1, <1>3, <1>4 DEF Thinned

LEMMA VacatedSlots ==
    ASSUME IInv, NEW victims \in SUBSET Resident
    PROVE  /\ OnSlots(Vacated(victims))
           /\ \A s \in Slots : Vacated(victims)[s] =
                 IF \E v \in victims : slot[v] = s THEN None ELSE layout[s]
BY DEF Vacated, OnSlots

LEMMA VacatedThinned ==
    ASSUME IInv, NEW o, NEW victims \in SUBSET Resident, victims \cap Excluded(o) = {}
    PROVE  Thinned(o, Vacated(victims))
<1>1. \A v \in victims : v \in Objects /\ slot[v] # None
  BY DEF Resident
<1>2. ASSUME NEW q \in Excluded(o), slot[q] \in Slots, q \in Objects, NEW v \in victims, slot[v] = slot[q]
      PROVE  FALSE
  BY <1>1, <1>2 DEF IInv, Sound, Apart
<1> QED
  BY <1>2, VacatedSlots DEF Thinned

\* If what is not pinned leaves room, so does what lies in one interval.
LEMMA RoomClears ==
    ASSUME IInv, automatic, NEW o \in Objects, Searches(o),
           SmallBank \in AllowedBanks(o) => ModTableLines % 2 = 0,
           Answer(o, layout).outcome = "full", Answer(o, Spared(o)).outcome # "full"
    PROVE  Candidates(o) # {}
<1>1. Shape[o].lines \in 1 .. RegularLines
  BY Shapes
<1>2. PICK i \in Places(Shape[o].lines, AllowedBanks(o)) : Vacant(Spared(o), i)
  BY SparedThinned DEF Searches
<1>3. ~ Vacant(layout, i)
  BY LayoutThinned DEF Searches
<1>4. i \in Intervals(Shape[o].lines, AllowedBanks(o))
  BY <1>1, PlacesPassed
<1>5. \A s \in Slots : /\ layout[s] # None
                       /\ layout[s].bank = i.bank
                       /\ Intersects(i.base, i.capacity, layout[s])
         => \E q \in Occupants(i) : slot[q] = s
  <2>1. \A s \in Slots : layout[s] # None => \E q \in Objects : slot[q] = s
    BY DEF IInv, Sound, Owned
  <2> QED
    BY <2>1, NoneApart DEF Occupants, Resident
<1>6. Occupants(i) # {}
  BY <1>3, <1>5 DEF Vacant, Fits
<1>7. \A q \in Occupants(i) : q \in Resident /\ q \in Objects /\ slot[q] \in Slots
  BY DEF Occupants, Resident, IInv, Sound, Slotted
<1>8. ASSUME NEW q \in Occupants(i), q \in Pinned(o)
      PROVE  FALSE
  <2>1. Spared(o)[slot[q]] = layout[slot[q]]
    BY <1>7, <1>8 DEF Spared
  <2> QED
    BY <1>2, <1>7, <2>1 DEF Vacant, Fits, Occupants
<1>9. Occupants(i) \cap (Excluded(o) \cup {modulus}) = {}
  BY <1>7, <1>8, NoneApart DEF Pinned
<1>10. Thinned(o, Vacated(Occupants(i)))
  BY <1>7, <1>9, VacatedThinned
<1>11. Vacant(Vacated(Occupants(i)), i)
  <2>1. Occupants(i) \in SUBSET Resident
    BY <1>7
  <2>2. \A s \in Slots : Vacated(Occupants(i))[s] =
           IF \E v \in Occupants(i) : slot[v] = s THEN None ELSE layout[s]
    BY <2>1, VacatedSlots
  <2>3. ASSUME NEW s \in Slots
        PROVE  \/ Vacated(Occupants(i))[s] = None
               \/ Vacated(Occupants(i))[s].bank # i.bank
               \/ ~ Intersects(i.base, i.capacity, Vacated(Occupants(i))[s])
    BY <1>5, <2>2
  <2> QED
    BY <2>3 DEF Vacant, Fits
<1>12. Answer(o, Vacated(Occupants(i))).outcome # "full"
  BY <1>10, <1>11 DEF Searches
<1> QED
  BY <1>4, <1>6, <1>9, <1>12 DEF Candidates

\* Either way, when nothing is evicted nothing but what is pinned refuses.
LEMMA NothingClears ==
    ASSUME IInv, NEW o \in Objects, Searches(o),
           SmallBank \in AllowedBanks(o) => ModTableLines % 2 = 0,
           Answer(o, layout).outcome = "full", Clearing(o) = {}
    PROVE  Answer(o, Spared(o)).outcome = "full"
<1>1. CASE automatic
  BY <1>1, RoomClears, CandidateFound
<1>2. CASE ~ automatic
  <2>1. Victim(o) = {}
    BY <1>2 DEF Clearing
  <2>2. Victims(o) = {}
    BY <1>2, <2>1, VictimFound
  <2>3. Resident \subseteq Pinned(o)
    BY <1>2, <2>2 DEF Victims, Pinned
  <2>4. \A s \in Slots : layout[s] # None => \E q \in Resident : slot[q] = s
    BY NoneApart DEF IInv, Sound, Owned, Resident
  <2>5. \A s \in Slots : Spared(o)[s] = layout[s]
    BY <2>3, <2>4 DEF Spared
  <2>6. ASSUME NEW i, Vacant(Spared(o), i)
        PROVE  Vacant(layout, i)
    BY <2>5, <2>6 DEF Vacant, Fits
  <2> QED
    BY <2>6, LayoutThinned, SparedThinned DEF Searches
<1> QED
  BY <1>1, <1>2

-----------------------------------------------------------------------------
(* No slot is left.                                                        *)

LEMMA PinnedFinite ==
    ASSUME IInv, Running, NEW o
    PROVE  IsFiniteSet(Pinned(o))
<1>1. PICK sources : sources = Current.sources
  OBVIOUS
<1>2. sources \in Seq(Objects)
  BY <1>1, CurrentInstruction, InstructionFields DEF IInv
<1>3. IsFiniteSet(SourceSet(Current))
  <2>1. PICK m, n \in Int : m = 1 /\ n = Len(sources)
    BY <1>2
  <2>2. DOMAIN sources = m .. n /\ IsFiniteSet(m .. n)
    BY <1>2, <2>1, FS_Interval
  <2>3. sources \in Surjection(m .. n, SourceSet(Current))
    BY <1>1, <1>2, <2>2 DEF Surjection, SourceSet
  <2> QED
    BY <2>2, <2>3, FS_Surjection
<1>4. Pinned(o) \in SUBSET (((SourceSet(Current) \cup {Current.def}) \cup {o}) \cup {modulus})
  BY DEF Pinned, Excluded, Operands, Uses
<1>5. IsFiniteSet(((SourceSet(Current) \cup {Current.def}) \cup {o}) \cup {modulus})
  BY <1>3, FS_AddElement
<1> QED
  BY <1>4, <1>5, FS_Subset

\* If nothing can be evicted, the slots are held by what is pinned for o.
LEMMA NoSlotLeft ==
    ASSUME IInv, Running, NEW o \in Objects, slot[o] = None, FreeSlots = {}, Victims(o) = {}
    PROVE  Cardinality(Pinned(o)) > Cardinality(Slots)
<1>1. Resident \in SUBSET (Pinned(o) \ {o})
  <2>1. ASSUME NEW v \in Resident
        PROVE  v \in Pinned(o) /\ v # o
    <3>1. v \in Excluded(o) \/ (automatic /\ v = modulus)
      BY DEF Victims
    <3>2. v \in Objects /\ v # o /\ v # None
      BY NoneApart DEF Resident
    <3> QED
      BY <3>1, <3>2 DEF Pinned
  <2> QED
    BY <2>1
<1>2. o \in Pinned(o) /\ IsFiniteSet(Pinned(o))
  BY PinnedFinite DEF Pinned, Excluded
<1>3. IsFiniteSet(Pinned(o) \ {o}) /\ Cardinality(Pinned(o) \ {o}) = Cardinality(Pinned(o)) - 1
  BY <1>2, FS_RemoveElement
<1>4. Cardinality(Resident) <= Cardinality(Pinned(o) \ {o})
  BY <1>1, <1>3, FS_Subset
<1>5. Cardinality(Slots) <= Cardinality(Resident)
  BY ResidentFinite
<1>6. /\ Cardinality(Slots) \in Nat /\ Cardinality(Resident) \in Nat
      /\ Cardinality(Pinned(o)) \in Nat
  BY <1>2, SlotsFinite, ResidentFinite, FS_CardinalityType
<1> QED
  BY <1>3, <1>4, <1>5, <1>6

-----------------------------------------------------------------------------
(* Data in bank 5 lie behind the lines for the table.                      *)

Beyond(region) == region.bank = SmallBank /\ region.type = 0 => region.base >= ModTableLines

Behind == \A s \in Slots : layout[s] # None => Beyond(layout[s])

\* A place that was found.
FoundBeyond(answer) == answer.outcome = "ok" => Beyond(answer.region)

LEMMA FindBeyond ==
    ASSUME NEW where, NEW lines \in Nat, NEW type \in {0, 1},
           NEW allowed \in SUBSET (0 .. 5), NEW preference \in 0 .. 4,
           NEW cost \in [RegularBanks -> Nat]
    PROVE  FoundBeyond(Find(where, lines, type, allowed, preference, cost))
<1> DEFINE answer == Find(where, lines, type, allowed, preference, cost)
           region == answer.region
<1> SUFFICES ASSUME answer.outcome = "ok"
             PROVE  Beyond(region)
  BY DEF FoundBeyond
<1>1. lines # 0
  BY DEF Find, Refused
<1>2. CASE type = 1
  <2>1. answer = FindTable(where, lines, allowed)
    BY <1>1, <1>2 DEF Find
  <2>2. answer = Placed(Region(SmallBank, 0, ModTableLines, lines, 1))
    BY <2>1 DEF FindTable, Refused
  <2> QED
    BY <2>2 DEF Placed, Region, Beyond
<1>3. CASE type = 0 /\ SmallBank \in allowed /\ FreeSmallBases(where, lines) # {}
  <2> DEFINE bases == FreeSmallBases(where, lines)
  <2>1. answer = Placed(Region(SmallBank, Smallest(bases), lines, lines, 0))
    BY <1>1, <1>3 DEF Find, FindOrdinary
  <2>2. bases \in SUBSET Nat
    BY OptionsAssumption DEF FreeSmallBases, SmallBases, FirstOrdinaryLine, SmallLines
  <2>3. Smallest(bases) \in bases
    BY <1>3, <2>2, SmallestInSet
  <2>4. Smallest(bases) \in FirstOrdinaryLine .. SmallLines
    BY <2>3 DEF FreeSmallBases, SmallBases
  <2>5. region = Region(SmallBank, Smallest(bases), lines, lines, 0)
    BY <2>1 DEF Placed
  <2> QED
    BY <2>4, <2>5, OptionsAssumption DEF Region, SmallLines, FirstOrdinaryLine, Beyond
<1>4. CASE type = 0 /\ ~ (SmallBank \in allowed /\ FreeSmallBases(where, lines) # {})
  <2> DEFINE rooms == BanksWithRoom(where, lines, allowed)
             bank == BestBank(rooms, preference, cost)
  <2>1. /\ rooms # {}
        /\ answer = Placed(Region(bank, Smallest(FreeRegularBases(where, bank, lines)),
                                  RegularCapacity(lines), lines, 0))
    BY <1>1, <1>4 DEF Find, FindOrdinary, Refused
  <2>2. rooms \in SUBSET RegularBanks
    BY DEF BanksWithRoom
  <2>3. bank \in RegularBanks
    BY <2>1, <2>2, BestBankInSet
  <2>4. region.bank = bank
    BY <2>1 DEF Placed, Region
  <2> HIDE DEF bank, region
  <2> QED
    BY <2>3, <2>4 DEF Beyond, RegularBanks, SmallBank
<1> QED
  BY <1>2, <1>3, <1>4

LEMMA LoadBeyond ==
    ASSUME NEW where, NEW id \in Slots, NEW lines \in Nat, NEW mod \in {0, 1}, NEW mask \in SUBSET (0 .. 5)
    PROVE  FoundBeyond(LoadRequest(where, id, lines, mod, mask))
<1> DEFINE banks == IF mask # {} THEN mask ELSE IF mod = 1 THEN {SmallBank} ELSE RegularBanks
<1>1. banks \in SUBSET (0 .. 5) /\ id % 5 \in 0 .. 4
  BY SlotsAssumption DEF SmallBank, RegularBanks
<1> HIDE DEF banks
<1>2. FoundBeyond(Find(Without(where, id), lines, mod, banks, id % 5, NoCost))
  BY <1>1, FindBeyond, NoCostType
<1>3. CASE mod = 1 /\ mask \notin {{}, {SmallBank}}
  BY <1>3 DEF LoadRequest, FoundBeyond, Refused
<1>4. CASE ~ (mod = 1 /\ mask \notin {{}, {SmallBank}})
  BY <1>2, <1>4 DEF LoadRequest, banks
<1> QED
  BY <1>3, <1>4

LEMMA ArithmeticBeyond ==
    ASSUME NEW where \in Layout, NEW dst \in Slots, NEW sources \in Seq(Slots), sources # << >>,
           NEW accumulate \in BOOLEAN, where[dst] # None => Beyond(where[dst])
    PROVE  FoundBeyond(ArithmeticRequest(where, dst, sources, accumulate))
<1> DEFINE answer == ArithmeticRequest(where, dst, sources, accumulate)
           lines == where[sources[1]].lines
<1>0. CASE ArithmeticInvalid(where, dst, sources, accumulate)
  BY <1>0 DEF ArithmeticRequest, FoundBeyond, Refused
<1>1. ASSUME ~ ArithmeticInvalid(where, dst, sources, accumulate)
      PROVE  FoundBeyond(answer)
  <2>1. 1 \in DOMAIN sources /\ sources[1] \in Slots
    OBVIOUS
  <2>2. where[sources[1]] \in Allocation
    BY <1>1, <2>1 DEF ArithmeticInvalid, Layout
  <2>3. lines \in Nat /\ RegularBanks \in SUBSET (0 .. 5) /\ dst % 5 \in 0 .. 4 /\ 0 \in {0, 1}
    BY <2>2, SlotsAssumption DEF Allocation, RegularBanks
  <2>4. CASE accumulate
    <3>1. where[dst] \in Allocation
      BY <1>1, <2>4 DEF ArithmeticInvalid, Layout
    <3>2. (where[dst].bank + 1) % 5 \in 0 .. 4
      BY <3>1 DEF Allocation
    <3>3. Append(sources, dst) \in Seq(Slots)
      OBVIOUS
    <3>4. ReadCost(where, Append(sources, dst)) \in [RegularBanks -> Nat]
      BY <3>3, ReadCostType
    <3>5. answer = Find(where, lines, 0, RegularBanks, (where[dst].bank + 1) % 5,
                        ReadCost(where, Append(sources, dst)))
      BY <1>1, <2>4 DEF ArithmeticRequest
    <3> HIDE DEF lines
    <3> QED
      BY <2>3, <3>2, <3>4, <3>5, FindBeyond
  <2>5. CASE ~ accumulate /\ where[dst] # None /\ where[dst].lines = lines
    <3>1. answer = Placed(where[dst])
      BY <1>1, <2>5 DEF ArithmeticRequest
    <3> QED
      BY <2>5, <3>1 DEF Placed, FoundBeyond
  <2>6. CASE ~ accumulate /\ ~ (where[dst] # None /\ where[dst].lines = lines)
    <3>1. ReadCost(where, sources) \in [RegularBanks -> Nat]
      BY ReadCostType
    <3>2. answer = Find(Without(where, dst), lines, 0, RegularBanks, dst % 5, ReadCost(where, sources))
      BY <1>1, <2>6 DEF ArithmeticRequest
    <3> HIDE DEF lines
    <3> QED
      BY <2>3, <3>1, <3>2, FindBeyond
  <2> QED
    BY <2>4, <2>5, <2>6
<1> QED
  BY <1>0, <1>1

LEMMA NttBeyond ==
    ASSUME NEW where \in Layout, NEW data \in Slots
    PROVE  FoundBeyond(NttRequest(where, data))
<1>1. CASE where[data] = None \/ where[data].type = 1
  BY <1>1 DEF NttRequest, FoundBeyond, Refused
<1>2. CASE ~ (where[data] = None \/ where[data].type = 1)
  <2>1. where[data] \in Allocation
    BY <1>2 DEF Layout
  <2> DEFINE lines == where[data].lines
             banks == RegularBanks \ {where[data].bank}
             preference == IF where[data].bank = SmallBank THEN 0 ELSE (where[data].bank + 1) % 5
  <2>2. lines \in Nat /\ banks \in SUBSET (0 .. 5) /\ preference \in 0 .. 4 /\ 0 \in {0, 1}
    BY <2>1 DEF Allocation, RegularBanks
  <2>3. NttRequest(where, data) = Find(where, lines, 0, banks, preference, NoCost)
    BY <1>2 DEF NttRequest
  <2> HIDE DEF lines, banks, preference
  <2> QED
    BY <2>2, <2>3, NoCostType, FindBeyond
<1> QED
  BY <1>1, <1>2

LEMMA KernelBeyond ==
    ASSUME IInv, Behind, KernelReady, DestinationSlot # None
    PROVE  FoundBeyond(KernelAnswer(layout))
<1>1. PICK what : what = layout
  OBVIOUS
<1>2. what \in Layout
  BY <1>1 DEF IInv, Sound
<1>3. PICK dst \in Slots : dst = DestinationSlot
  BY Destination
<1>4. PICK sources : sources = SourceSlots
  OBVIOUS
<1>5. sources \in Seq(Slots) /\ sources # << >> /\ sources[1] \in Slots
  BY <1>4, SourceSlotsTyped
<1>6. what[dst] # None => Beyond(what[dst])
  BY <1>1 DEF Behind
<1>7. CASE Current.op = "stage"
  <2>1. KernelAnswer(layout) = NttRequest(what, dst)
    BY <1>1, <1>3, <1>7, AnswerStage
  <2> QED
    BY <1>2, <2>1, NttBeyond
<1>8. CASE Current.op = "online"
  <2>1. KernelAnswer(layout) = OnlineMultiplyRequest(what, dst, sources[1], sources[2])
    BY <1>1, <1>3, <1>4, <1>8, AnswerOnline
  <2>2. CASE OnlineMultiplyInvalid(what, dst, sources[1], sources[2])
    BY <2>1, <2>2 DEF OnlineMultiplyRequest, FoundBeyond, Refused
  <2>3. CASE ~ OnlineMultiplyInvalid(what, dst, sources[1], sources[2])
    <3>1. PICK one : one = <<sources[1]>>
      OBVIOUS
    <3>2. one \in Seq(Slots) /\ one # << >>
      BY <1>5, <3>1
    <3>3. KernelAnswer(layout) = ArithmeticRequest(what, dst, one, FALSE)
      BY <2>1, <2>3, <3>1 DEF OnlineMultiplyRequest
    <3> QED
      BY <1>2, <1>6, <3>2, <3>3, ArithmeticBeyond
  <2> QED
    BY <2>2, <2>3
<1>9. CASE Current.op \notin {"stage", "online"}
  <2>1. PICK accumulate \in BOOLEAN : accumulate = (Current.op = "mac")
    OBVIOUS
  <2>2. KernelAnswer(layout) = ArithmeticRequest(what, dst, sources, accumulate)
    BY <1>1, <1>3, <1>4, <1>9, <2>1, AnswerOther
  <2> QED
    BY <1>2, <1>5, <1>6, <2>2, ArithmeticBeyond
<1> QED
  BY <1>7, <1>8, <1>9

\* The one table that is placed finds its lines free.
LEMMA TableFits ==
    ASSUME IInv, Behind, NEW o \in ToPlace, Shape[o].type = 1, OtherTables(o) = {}, slot[o] # None
    PROVE  LoadAnswer(o, layout).outcome # "full"
<1>1. o \in Objects /\ slot[o] \in Slots /\ Shape[o].lines \in 1 .. RegularLines
  BY ToPlaceTyped, Shapes DEF IInv, Sound, Slotted
<1>2. PICK where, lines : where = Without(layout, slot[o]) /\ lines = Shape[o].lines
  OBVIOUS
<1>3. CASE Shape[o].mask \notin {{}, {SmallBank}}
  BY <1>3 DEF LoadAnswer, LoadRequest, Refused
<1>4. CASE Shape[o].mask \in {{}, {SmallBank}}
  <2>1. PICK banks : banks = {SmallBank}
    OBVIOUS
  <2>2. LoadAnswer(o, layout) = Find(where, lines, 1, banks, slot[o] % 5, NoCost)
    BY <1>2, <1>4, <2>1 DEF LoadAnswer, LoadRequest
  <2>3. lines # 0
    <3>1. lines \in 1 .. RegularLines
      BY <1>1, <1>2
    <3> QED
      BY <3>1 DEF RegularLines
  <2>4. LoadAnswer(o, layout) = FindTable(where, lines, banks)
    BY <2>2, <2>3 DEF Find
  <2>5. Fits(where, SmallBank, 0, ModTableLines)
    <3>1. ASSUME NEW s \in Slots, where[s] # None, where[s].bank = SmallBank,
                 Intersects(0, ModTableLines, where[s])
          PROVE  FALSE
      <4>1. s # slot[o] /\ where[s] = layout[s]
        BY <1>1, <1>2, <3>1 DEF Without, IInv, Sound, Layout
      <4>2. layout[s] \in Allocation /\ layout[s].bank = SmallBank
        BY <3>1, <4>1 DEF IInv, Sound, Layout
      <4>3. layout[s].base < ModTableLines
        <5>1. layout[s].base < 0 + ModTableLines
          BY <3>1, <4>1 DEF Intersects
        <5> QED
          BY <5>1, OptionsAssumption
      <4>4. layout[s].type = 1
        <5>1. layout[s].type = 0 => layout[s].base >= ModTableLines
          BY <3>1, <4>1, <4>2 DEF Behind, Beyond
        <5>2. layout[s].base \in Nat /\ layout[s].type \in {0, 1} /\ ModTableLines \in Nat
          BY <4>2, OptionsAssumption DEF Allocation
        <5> QED
          BY <4>3, <5>1, <5>2
      <4>5. PICK q \in Objects : slot[q] = s /\ Shape[q].type = 1
        BY <3>1, <4>1, <4>4 DEF IInv, Sound, Owned
      <4>6. q # o /\ slot[q] # None
        BY <4>1, <4>5, NoneApart
      <4> QED
        BY <4>5, <4>6 DEF OtherTables, Resident
    <3> QED
      BY <3>1 DEF Fits
  <2> QED
    BY <2>1, <2>4, <2>5 DEF FindTable, Placed, Refused
<1> QED
  BY <1>3, <1>4

-----------------------------------------------------------------------------
(* Why an error is raised.                                                 *)

Justified ==
    IF WantedSlot = None
    THEN Cardinality(Pinned(Wanted)) > Cardinality(Slots)
    ELSE Probed(Wanted) => Answer(Wanted, Spared(Wanted)).outcome = "full"

LEMMA PlaceJustified ==
    ASSUME IInv, Behind, NEW o \in ToPlace, NoPlaceFor(o)
    PROVE  Justified
<1>1. Running /\ o = Target /\ o \in Objects /\ ~ OnChip(o) /\ Target # None
  BY ToPlaceTyped, NoneApart DEF IInv
<1>2. Wanted = o /\ WantedSlot = slot[o]
  BY <1>1 DEF Wanted, WantedSlot
<1>3. CASE slot[o] = None
  <2>1. FreeSlots = {} /\ Victims(o) = {}
    BY <1>3 DEF NoPlaceFor
  <2> QED
    BY <1>1, <1>2, <1>3, <2>1, NoSlotLeft DEF Justified
<1>4. CASE slot[o] # None
  <2>1. OtherTables(o) = {} /\ LoadAnswer(o, layout).outcome = "full" /\ Clearing(o) = {}
    BY <1>4 DEF NoPlaceFor
  <2>2. Shape[o].type = 0
    BY <1>1, <1>4, <2>1, TableFits, Shapes
  <2>3. Searches(o)
    BY <1>4, <2>2, LoadSearches
  <2>4. Answer(o, layout).outcome = "full"
    BY <1>1, <2>1 DEF Answer
  <2>5. ASSUME Probed(o)
        PROVE  Answer(o, Spared(o)).outcome = "full"
    <3>1. SmallBank \in AllowedBanks(o) => ModTableLines % 2 = 0
      BY <2>2, <2>5 DEF Probed
    <3> QED
      BY <1>1, <2>1, <2>3, <2>4, <3>1, NothingClears
  <2> QED
    BY <1>2, <1>4, <2>5 DEF Justified
<1> QED
  BY <1>3, <1>4

LEMMA KernelJustified ==
    ASSUME IInv, KernelCapacityError
    PROVE  Justified
<1>1. PICK o : o = Current.def
  OBVIOUS
<1>2. KernelReady /\ Target = None /\ Running
  BY DEF KernelCapacityError, KernelReady
<1>3. o \in Objects /\ o # Target /\ Shape[o].type = 0
  BY <1>1, <1>2, KernelOperands, InstructionRules, NoneApart
<1>4. Wanted = o /\ WantedSlot = DestinationSlot
  BY <1>1, <1>2 DEF Wanted, WantedSlot
<1>5. CASE DestinationSlot = None
  <2>1. FreeSlots = {} /\ Victims(o) = {}
    BY <1>1, <1>5 DEF KernelCapacityError
  <2>2. slot[o] = None
    BY <1>1, <1>5 DEF DestinationSlot, Transfers
  <2> QED
    BY <1>2, <1>3, <1>4, <1>5, <2>1, <2>2, NoSlotLeft DEF Justified
<1>6. CASE DestinationSlot # None
  <2>1. KernelAnswer(layout).outcome = "full" /\ Clearing(o) = {}
    BY <1>1, <1>6 DEF KernelCapacityError
  <2>2. Searches(o)
    BY <1>1, <1>2, <1>6, <2>1, KernelSearches
  <2>3. Answer(o, layout).outcome = "full"
    BY <1>3, <2>1 DEF Answer
  <2>4. ASSUME Probed(o)
        PROVE  Answer(o, Spared(o)).outcome = "full"
    <3>1. SmallBank \in AllowedBanks(o) => ModTableLines % 2 = 0
      BY <1>3, <2>4 DEF Probed
    <3> QED
      BY <1>3, <2>1, <2>2, <2>3, <3>1, NothingClears
  <2> QED
    BY <1>4, <1>6, <2>4 DEF Justified
<1> QED
  BY <1>5, <1>6

\* Nothing is placed.
Kept(what) == \A s \in Slots : what[s] # None => what[s] = layout[s]

LEMMA KeptBehind ==
    ASSUME Behind, Kept(layout')
    PROVE  Behind'
BY DEF Behind, Kept

LEMMA CompleteKept ==
    ASSUME NEW freed, Complete(freed, slot, layout, regs)
    PROVE  Kept(layout')
BY DEF Complete, Kept

LEMMA EvictKept ==
    ASSUME NEW victims, NEW preserve, Evict(victims, preserve)
    PROVE  Kept(layout')
BY DEF Evict, Kept

LEMMA FillBehind ==
    ASSUME IInv, Behind, NEW o \in ToPlace, Fill(o)
    PROVE  Behind'
<1>1. o \in Objects
  BY ToPlaceTyped DEF IInv
<1>2. /\ slot[o] # None /\ LoadAnswer(o, layout).outcome = "ok"
      /\ layout' = [layout EXCEPT ![slot[o]] = LoadAnswer(o, layout).region]
  BY DEF Fill
<1>3. PICK s \in Slots : s = slot[o]
  BY <1>1, <1>2 DEF IInv, Sound, Slotted
<1>4. PICK what : what = layout
  OBVIOUS
<1>5. Shape[o].lines \in Nat /\ Shape[o].type \in {0, 1} /\ Shape[o].mask \in SUBSET (0 .. 5)
  BY <1>1, Shapes
<1>6. LoadAnswer(o, layout) = LoadRequest(what, s, Shape[o].lines, Shape[o].type, Shape[o].mask)
  BY <1>3, <1>4 DEF LoadAnswer
<1>7. FoundBeyond(LoadAnswer(o, layout))
  BY <1>3, <1>5, <1>6, LoadBeyond
<1>8. Beyond(LoadAnswer(o, layout).region)
  BY <1>2, <1>7 DEF FoundBeyond
<1>9. \A r \in Slots : layout'[r] = layout[r] \/ layout'[r] = LoadAnswer(o, layout).region
  BY <1>2, <1>3 DEF IInv, Sound, Layout
<1> QED
  BY <1>8, <1>9 DEF Behind

LEMMA ExecuteBehind ==
    ASSUME IInv, Behind, Execute
    PROVE  Behind'
<1>1. PICK region, what : region = KernelAnswer(layout).region /\ what = [layout EXCEPT ![DestinationSlot] = region]
  OBVIOUS
<1>2. /\ KernelReady /\ DestinationSlot # None /\ KernelAnswer(layout).outcome = "ok"
      /\ \E where, contents : Complete({}, where, what, contents)
  BY <1>1 DEF Execute
<1>3. Beyond(region)
  BY <1>1, <1>2, KernelBeyond DEF FoundBeyond
<1>4. \A r \in Slots : layout'[r] # None => layout'[r] = what[r]
  BY <1>2 DEF Complete
<1>5. \A r \in Slots : what[r] = layout[r] \/ what[r] = region
  BY <1>1 DEF IInv, Sound, Layout
<1> QED
  BY <1>3, <1>4, <1>5 DEF Behind

LEMMA NextBehind ==
    ASSUME IInv, Behind, [Next]_vars
    PROVE  Behind'
<1>1. CASE StartLoad
  <2>1. CASE Lazy
    <3>1. Complete({}, slot, layout, regs)
      BY <1>1, <2>1 DEF StartLoad
    <3> QED
      BY <3>1, CompleteKept, KeptBehind
  <2>2. CASE ~ Lazy
    <3>1. layout' = [s \in Slots |-> IF s = slot[Current.def] THEN None ELSE layout[s]]
      BY <1>1, <2>2 DEF StartLoad
    <3>2. Kept(layout')
      BY <3>1 DEF Kept
    <3> QED
      BY <3>2, KeptBehind
  <2> QED
    BY <2>1, <2>2
<1>2. CASE EndLoad \/ Store \/ DeferStore \/ Free \/ LoadModulus \/ Sync
  <2>1. PICK freed : Complete(freed, slot, layout, regs)
    BY <1>2 DEF EndLoad, Store, DeferStore, Free, LoadModulus, Sync
  <2> QED
    BY <2>1, CompleteKept, KeptBehind
<1>3. CASE Place
  <2>1. PICK o \in ToPlace :
          \/ NoDefinition(o) \/ EvictTable(o)
          \/ EvictForSlot(o) \/ TakeSlot(o)
          \/ EvictForLoad(o) \/ Fill(o)
          \/ YieldPlace(o) \/ CapacityError(o) \/ InvalidLoad(o)
    BY <1>3 DEF Place
  <2>2. CASE NoDefinition(o) \/ CapacityError(o) \/ InvalidLoad(o) \/ TakeSlot(o)
    <3>1. layout' = layout
      BY <2>2 DEF NoDefinition, CapacityError, InvalidLoad, TakeSlot, RaiseError
    <3> QED
      BY <3>1 DEF Behind
  <2>3. CASE EvictTable(o) \/ EvictForSlot(o) \/ EvictForLoad(o)
    <3>1. PICK victims : Evict(victims, FALSE)
      BY <2>3 DEF EvictTable, EvictForSlot, EvictForLoad
    <3> QED
      BY <3>1, EvictKept, KeptBehind
  <2>4. CASE Fill(o)
    BY <2>4, FillBehind
  <2>5. CASE YieldPlace(o)
    <3>1. layout' = [layout EXCEPT ![slot[Current.sources[1]]] = None]
      BY <2>5 DEF YieldPlace
    <3>2. Kept(layout')
      BY <3>1 DEF Kept, IInv, Sound, Layout
    <3> QED
      BY <3>2, KeptBehind
  <2> QED
    BY <2>1, <2>2, <2>3, <2>4, <2>5
<1>4. CASE EvictForDestinationSlot \/ EvictForResult
  <2>1. PICK victims : Evict(victims, FALSE)
    BY <1>4 DEF EvictForDestinationSlot, EvictForResult
  <2> QED
    BY <2>1, EvictKept, KeptBehind
<1>5. CASE Execute
  BY <1>5, ExecuteBehind
<1>6. CASE Freeze \/ TakeDestinationSlot \/ KernelCapacityError \/ InvalidKernel \/ Return \/ UNCHANGED vars
  <2>1. layout' = layout
    BY <1>6 DEF Freeze, TakeDestinationSlot, KernelCapacityError, InvalidKernel, Return, RaiseError, vars
  <2> QED
    BY <2>1 DEF Behind
<1> QED
  BY <1>1, <1>2, <1>3, <1>4, <1>5, <1>6 DEF Next, Kernel, Terminated

\* Where an error was raised.
LEMMA StillJustified ==
    ASSUME UNCHANGED <<code, automatic, cursor, slot, home, dirty, initialized, modulus, layout,
                       loading, regs, ddr, context>>,
           Justified
    PROVE  Justified'
<1>1. Current' = Current /\ (\A o : OnChip(o)' = OnChip(o)) /\ Resident' = Resident
  BY DEF Current, OnChip, Resident
<1>2. \A o : NextUse(o)' = NextUse(o)
  BY DEF NextUse, Never, UsedFrom, UsePositions
<1>3. Never' = Never
  BY DEF Never
<1>4. \A o : Endangered(o)' = Endangered(o)
  BY <1>1, <1>2, <1>3 DEF Endangered
<1>5. ToFreeze' = ToFreeze
  BY <1>4 DEF ToFreeze
<1>6. \A list : FirstMissing(list)' = FirstMissing(list)
  BY <1>1 DEF FirstMissing
<1>7. KernelReads' = KernelReads
  BY <1>1 DEF KernelReads
<1>8. Target' = Target
  BY <1>1, <1>5, <1>6, <1>7 DEF Target
<1>9. Transferable' = Transferable
  BY <1>1, <1>2, <1>3 DEF Transferable
<1>10. Transfers' = Transfers /\ Donor' = Donor
  BY <1>1, <1>9 DEF Transfers, Donor
<1>11. DestinationSlot' = DestinationSlot /\ SourceSlots' = SourceSlots
  BY <1>1, <1>10 DEF DestinationSlot, SourceSlots
<1>12. \A where : KernelAnswer(where)' = KernelAnswer(where)
  BY <1>1, <1>11 DEF KernelAnswer
<1>13. KernelBanks' = KernelBanks
  BY <1>1, <1>11 DEF KernelBanks
<1>14. \A o : Pinned(o)' = Pinned(o)
  BY <1>1 DEF Pinned, Excluded, Operands
<1>15. \A o : Spared(o)' = Spared(o)
  BY <1>14 DEF Spared
<1>16. Wanted' = Wanted /\ WantedSlot' = WantedSlot
  BY <1>1, <1>8, <1>11 DEF Wanted, WantedSlot
<1>17. \A o : Probed(o)' = Probed(o)
  BY <1>8, <1>13 DEF Probed, AllowedBanks, LoadMask
<1>18. \A o, where : Answer(o, where)' = Answer(o, where)
  BY <1>8, <1>12 DEF Answer, LoadAnswer
<1> QED
  BY <1>14, <1>15, <1>16, <1>17, <1>18 DEF Justified

LEMMA NextJustified ==
    ASSUME IInv, Behind, CapacityJustified, [Next]_vars
    PROVE  CapacityJustified'
<1>0. CapacityJustified = (status = "capacity" => Justified)
  BY DEF CapacityJustified, Justified
<1>1. CapacityJustified' = (status' = "capacity" => Justified')
  BY DEF CapacityJustified, Justified
<1>2. ASSUME Justified, RaiseError("capacity")
      PROVE  Justified'
  BY <1>2, StillJustified DEF RaiseError
<1>3. CASE UNCHANGED vars
  <2>1. status' = "capacity" => Justified
    BY <1>0, <1>3 DEF vars
  <2>2. UNCHANGED <<code, automatic, cursor, slot, home, dirty, initialized, modulus, layout,
                    loading, regs, ddr, context>>
    BY <1>3 DEF vars
  <2> QED
    BY <1>1, <2>1, <2>2, StillJustified
<1>4. ASSUME NEW o \in ToPlace, CapacityError(o)
      PROVE  Justified'
  <2>1. Justified
    BY <1>4, PlaceJustified DEF CapacityError
  <2> QED
    BY <1>2, <1>4, <2>1 DEF CapacityError
<1>5. ASSUME KernelCapacityError
      PROVE  Justified'
  <2>1. Justified
    BY <1>5, KernelJustified
  <2> QED
    BY <1>2, <1>5, <2>1 DEF KernelCapacityError
<1>6. ASSUME Running, status' = status
      PROVE  CapacityJustified'
  BY <1>1, <1>6 DEF Running
<1>7. ASSUME status' # "capacity"
      PROVE  CapacityJustified'
  BY <1>1, <1>7
<1>8. CASE StartLoad \/ EndLoad \/ Freeze \/ Store \/ DeferStore \/ Free \/ LoadModulus \/ Sync
  <2>1. Running /\ status' = status
    BY <1>8 DEF StartLoad, EndLoad, Freeze, Store, DeferStore, Free, LoadModulus, Sync,
                Executes, Complete
  <2> QED
    BY <1>6, <2>1
<1>9. CASE Place
  <2>1. PICK o \in ToPlace :
          \/ NoDefinition(o) \/ EvictTable(o)
          \/ EvictForSlot(o) \/ TakeSlot(o)
          \/ EvictForLoad(o) \/ Fill(o)
          \/ YieldPlace(o) \/ CapacityError(o) \/ InvalidLoad(o)
    BY <1>9 DEF Place
  <2>2. Running
    BY DEF ToPlace
  <2>3. CASE NoDefinition(o) \/ InvalidLoad(o)
    BY <1>7, <2>3 DEF NoDefinition, InvalidLoad, RaiseError
  <2>4. CASE CapacityError(o)
    BY <1>1, <1>4, <2>4
  <2>5. CASE EvictTable(o) \/ EvictForSlot(o) \/ EvictForLoad(o)
    BY <1>6, <2>2, <2>5 DEF EvictTable, EvictForSlot, EvictForLoad, Evict
  <2>6. CASE TakeSlot(o) \/ Fill(o) \/ YieldPlace(o)
    BY <1>6, <2>2, <2>6 DEF TakeSlot, Fill, YieldPlace
  <2> QED
    BY <2>1, <2>3, <2>4, <2>5, <2>6
<1>10. CASE EvictForDestinationSlot \/ TakeDestinationSlot \/ EvictForResult \/ Execute
  <2>1. Running /\ status' = status
    BY <1>10 DEF EvictForDestinationSlot, TakeDestinationSlot, EvictForResult, Execute,
                 KernelReady, Complete, Evict
  <2> QED
    BY <1>6, <2>1
<1>11. CASE KernelCapacityError
  BY <1>1, <1>5, <1>11
<1>12. CASE InvalidKernel \/ Return
  BY <1>7, <1>12 DEF InvalidKernel, Return, RaiseError
<1> QED
  BY <1>3, <1>8, <1>9, <1>10, <1>11, <1>12 DEF Next, Kernel, Terminated

\* "kernel operands exceed ... bank capacity" is never reported because of what
\* earlier instructions left on the chip, or of the order in which the loop of
\* allocate_physical() tries the intervals: it means that what the instruction
\* itself has to keep on chip leaves no slot, or no room in any bank that it may use.
THEOREM CapacityErrors ==
    ASSUME NoneIsNoFunction
    PROVE  Spec => []CapacityJustified
<1>1. Init => IInv /\ Behind /\ CapacityJustified
  <2>1. Init => Behind
    BY DEF Init, EmptyLayout, Behind
  <2>2. Init => CapacityJustified
    BY DEF Init, CapacityJustified
  <2> QED
    BY <2>1, <2>2, InitIInv
<1>2. IInv /\ Behind /\ CapacityJustified /\ [Next]_vars => (IInv /\ Behind /\ CapacityJustified)'
  BY NextIInv, NextBehind, NextJustified
<1> QED
  BY <1>1, <1>2, PTL DEF Spec

=============================================================================
