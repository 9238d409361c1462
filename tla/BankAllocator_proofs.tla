------------------------ MODULE BankAllocator_proofs ------------------------
(***************************************************************************)
(* Proofs that every layout BankAllocator can reach is sound, for any set  *)
(* of slots, any number of enabled banks, any size of the reserved area    *)
(* and any requests.  The inductive invariant is the conjunction of the    *)
(* type invariant, the geometry of each region and their disjointness: the *)
(* first two are needed to know that a found interval is compared with     *)
(* intervals of known extent, the last is what the search re-establishes.  *)
(* The reasons for refusals and the bound on the peaks follow from it: a   *)
(* sum of capacities is the number of lines that are held.                 *)
(***************************************************************************)
EXTENDS BankAllocator, FiniteSetTheorems, WellFoundedInduction, TLAPS

\* The naturals are well founded, so a nonempty set of them has a least element.
LEMMA LeastNatural ==
    ASSUME NEW S \in SUBSET Nat, S # {}
    PROVE  \E n \in S : \A m \in S : n <= m
<1> DEFINE less == OpToRel(<, Nat)
<1>1. PICK n \in S : \A m \in S : ~ (<<m, n>> \in less)
    BY NatLessThanWellFounded, WFMin
<1>2. \A m \in S : <<m, n>> \in less <=> m < n
    BY DEF OpToRel
<1> HIDE DEF less
<1>3. ASSUME NEW m \in S
      PROVE  n <= m
  <2>1. ~ (m < n)
    BY <1>1, <1>2, Zenon
  <2>2. m \in Nat /\ n \in Nat
    OBVIOUS
  <2> QED
    BY <2>1, <2>2
<1> QED
    BY <1>3

\* The first-fit loops of find() return a base they have tried.
LEMMA SmallestInSet ==
    ASSUME NEW S \in SUBSET Nat, S # {}
    PROVE  Smallest(S) \in S
BY LeastNatural DEF Smallest

\* The cheapest-then-nearest bank is one of the banks that have room.
LEMMA BestBankInSet ==
    ASSUME NEW banks \in SUBSET RegularBanks, banks # {},
           NEW preference \in 0 .. 4,
           NEW cost \in [RegularBanks -> Nat]
    PROVE  BestBank(banks, preference, cost) \in banks
<1> DEFINE K == {Key(b, preference, cost) : b \in banks}
<1>1. \A b \in banks : Key(b, preference, cost) \in Nat
    BY DEF Key, RegularBanks
<1>2. K \in SUBSET Nat /\ K # {}
    BY <1>1
<1>3. PICK k \in K : \A m \in K : k <= m
    BY <1>2, LeastNatural
<1>4. PICK b \in banks : k = Key(b, preference, cost)
    BY <1>3
<1>5. \A c \in banks : Key(b, preference, cost) <= Key(c, preference, cost)
    BY <1>3, <1>4
<1> QED
    BY <1>5 DEF BestBank

\* What a successful answer must be for the layout to stay sound: a region of
\* the right shape that meets no object but the one it replaces.
Admissible(layout, id, region) ==
    /\ region \in Allocation
    /\ WellPlaced(region)
    /\ \A other \in Slots \ {id} :
          layout[other] # None => ~ Overlap(region, layout[other])

\* find() returns a region of the geometry of its bank, clear of all residents
\* of the layout it searched.
LEMMA FindSound ==
    ASSUME NEW layout, NEW lines \in Nat, NEW type \in {0, 1},
           NEW allowed \in SUBSET (0 .. 5), NEW preference \in 0 .. 4,
           NEW cost \in [RegularBanks -> Nat],
           Find(layout, lines, type, allowed, preference, cost).outcome = "ok"
    PROVE  LET region == Find(layout, lines, type, allowed, preference, cost).region
           IN  /\ region \in Allocation
               /\ WellPlaced(region)
               /\ Fits(layout, region.bank, region.base, region.capacity)
<1> DEFINE answer == Find(layout, lines, type, allowed, preference, cost)
           region == answer.region
<1>1. lines # 0
    BY DEF Find, Refused
<1>2. CASE type = 1
  <2>1. answer = FindTable(layout, lines, allowed)
    BY <1>1, <1>2 DEF Find
  <2>2. /\ answer = Placed(Region(SmallBank, 0, ModTableLines, lines, 1))
        /\ lines <= ModTableLines
        /\ Fits(layout, SmallBank, 0, ModTableLines)
    BY <2>1, OptionsAssumption DEF FindTable, Refused
  <2>3. region = Region(SmallBank, 0, ModTableLines, lines, 1)
    BY <2>2 DEF Placed
  <2> QED
    BY <1>1, <2>2, <2>3, OptionsAssumption
    DEF Region, Allocation, WellPlaced, SmallBank, RegularLines
<1>3. CASE type = 0 /\ SmallBank \in allowed /\ FreeSmallBases(layout, lines) # {}
  <2> DEFINE bases == FreeSmallBases(layout, lines)
  <2>1. answer = Placed(Region(SmallBank, Smallest(bases), lines, lines, 0))
    BY <1>1, <1>3 DEF Find, FindOrdinary
  <2>2. bases \in SUBSET Nat
    BY OptionsAssumption DEF FreeSmallBases, SmallBases, FirstOrdinaryLine, SmallLines
  <2>3. Smallest(bases) \in bases
    BY <1>3, <2>2, SmallestInSet
  <2>4. /\ Smallest(bases) \in FirstOrdinaryLine .. SmallLines
        /\ Smallest(bases) % 2 = 0
        /\ lines <= SmallLines - Smallest(bases)
        /\ Fits(layout, SmallBank, Smallest(bases), lines)
    BY <2>3 DEF FreeSmallBases, SmallBases
  <2>5. region = Region(SmallBank, Smallest(bases), lines, lines, 0)
    BY <2>1 DEF Placed
  <2> QED
    BY <1>1, <2>4, <2>5, OptionsAssumption
    DEF Region, Allocation, WellPlaced, SmallBank, RegularLines, SmallLines,
        FirstOrdinaryLine
<1>4. CASE type = 0 /\ ~ (SmallBank \in allowed /\ FreeSmallBases(layout, lines) # {})
  <2> DEFINE rooms == BanksWithRoom(layout, lines, allowed)
             bank == BestBank(rooms, preference, cost)
             bases == FreeRegularBases(layout, bank, lines)
             capacity == RegularCapacity(lines)
  <2>1. /\ rooms # {}
        /\ answer = Placed(Region(bank, Smallest(bases), capacity, lines, 0))
    BY <1>1, <1>4 DEF Find, FindOrdinary, Refused
  <2>2. rooms \in SUBSET RegularBanks
    BY DEF BanksWithRoom
  <2>3. bank \in rooms
    BY <2>1, <2>2, BestBankInSet
  <2>4. bank \in RegularBanks /\ bank < RegularBankCount /\ lines <= RegularLines /\ bases # {}
    BY <2>3 DEF BanksWithRoom
  <2>5. /\ capacity \in {128, 256, 512, 1024} /\ lines <= capacity
        /\ capacity > Granule => capacity < 2 * lines
    BY <2>4 DEF RegularCapacity, RegularLines, Granule
  <2>6. bases \in SUBSET Nat
    BY DEF FreeRegularBases, RegularBases, Granule
  <2>7. Smallest(bases) \in bases
    BY <2>4, <2>6, SmallestInSet
  <2>8. /\ Smallest(bases) \in Nat
        /\ Smallest(bases) % capacity = 0
        /\ Smallest(bases) + capacity <= RegularLines
        /\ Fits(layout, bank, Smallest(bases), capacity)
    BY <2>6, <2>7 DEF FreeRegularBases, RegularBases
  <2>9. region = Region(bank, Smallest(bases), capacity, lines, 0)
    BY <2>1 DEF Placed
  <2> HIDE DEF capacity, bases, bank
  <2>10. region \in Allocation
    BY <1>1, <2>4, <2>5, <2>8, <2>9 DEF Region, Allocation, RegularBanks, RegularLines
  <2>11. WellPlaced(region)
    BY <2>4, <2>5, <2>8, <2>9 DEF Region, WellPlaced
  <2> QED
    BY <2>8, <2>9, <2>10, <2>11 DEF Region
<1> QED
    BY <1>2, <1>3, <1>4

\* Every search ends in one of three ways.
LEMMA FindOutcome ==
    ASSUME NEW layout, NEW lines, NEW type, NEW allowed, NEW preference, NEW cost
    PROVE  Find(layout, lines, type, allowed, preference, cost).outcome
              \in {"ok", "invalid", "full"}
BY DEF Find, FindTable, FindOrdinary, Placed, Refused

-----------------------------------------------------------------------------

\* The inductive invariant.
IInv == TypeOK /\ PlacementSound /\ NoOverlap

\* A region found in a layout, with or without the object it will replace, may
\* be committed for that object.
LEMMA FitsAdmissible ==
    ASSUME NEW layout \in Layout, NEW id \in Slots, NEW region \in Allocation,
           WellPlaced(region),
           \/ Fits(layout, region.bank, region.base, region.capacity)
           \/ Fits(Without(layout, id), region.bank, region.base, region.capacity)
    PROVE  Admissible(layout, id, region)
<1>1. ASSUME NEW other \in Slots \ {id}, layout[other] # None
      PROVE  ~ Overlap(region, layout[other])
  <2>1. Without(layout, id)[other] = layout[other]
    BY DEF Without, Layout
  <2> QED
    BY <1>1, <2>1 DEF Fits, Overlap
<1> QED
    BY <1>1 DEF Admissible

\* Stream counts are numbers, one for each bank of the preference domain.
LEMMA ReadCostType ==
    ASSUME NEW layout, NEW sources \in Seq(Slots)
    PROVE  ReadCost(layout, sources) \in [RegularBanks -> Nat]
<1>1. ASSUME NEW bank \in RegularBanks
      PROVE  Cardinality({k \in DOMAIN sources : layout[sources[k]].bank = bank}) \in Nat
  <2>1. IsFiniteSet(1 .. Len(sources))
    BY FS_Interval
  <2>2. IsFiniteSet({k \in DOMAIN sources : layout[sources[k]].bank = bank})
    BY <2>1, FS_Subset
  <2> QED
    BY <2>2, FS_CardinalityType
<1> QED
    BY <1>1 DEF ReadCost

\* load() and ntt() count no streams.
LEMMA NoCostType == NoCost \in [RegularBanks -> Nat]
BY DEF NoCost

\* An answer commit() may be given for an object.
GoodAnswer(id, answer) ==
    /\ answer.outcome \in {"ok", "invalid", "full"}
    /\ answer.outcome = "ok" => Admissible(objects, id, answer.region)

\* A rejected request commits nothing, so it is a good answer.
LEMMA InvalidGood ==
    ASSUME NEW id \in Slots
    PROVE  GoodAnswer(id, Refused("invalid"))
BY DEF GoodAnswer, Refused

\* A search that ignores at most the object to be replaced gives a good answer.
LEMMA FindGood ==
    ASSUME IInv, NEW id \in Slots,
           NEW search, search = objects \/ search = Without(objects, id),
           NEW lines \in Nat, NEW type \in {0, 1},
           NEW allowed \in SUBSET (0 .. 5), NEW preference \in 0 .. 4,
           NEW cost \in [RegularBanks -> Nat]
    PROVE  GoodAnswer(id, Find(search, lines, type, allowed, preference, cost))
<1> DEFINE found == Find(search, lines, type, allowed, preference, cost)
<1>1. found.outcome \in {"ok", "invalid", "full"}
    BY FindOutcome
<1>2. ASSUME found.outcome = "ok"
      PROVE  Admissible(objects, id, found.region)
  <2>1. /\ found.region \in Allocation
        /\ WellPlaced(found.region)
        /\ Fits(search, found.region.bank, found.region.base, found.region.capacity)
    BY <1>2, FindSound
  <2>2. objects \in Layout
    BY DEF IInv, TypeOK
  <2> HIDE DEF found
  <2> QED
    BY <2>1, <2>2, FitsAdmissible
<1> HIDE DEF found
<1>3. GoodAnswer(id, found)
    BY <1>1, <1>2 DEF GoodAnswer
<1> QED
    BY <1>3 DEF found

\* load() answers with a region that may replace the old value of the slot.
LEMMA LoadSound ==
    ASSUME IInv, NEW id \in Slots, NEW lines \in Nat, NEW mod \in {0, 1},
           NEW mask \in SUBSET (0 .. 5)
    PROVE  GoodAnswer(id, LoadRequest(objects, id, lines, mod, mask))
<1> DEFINE allowed == IF mask # {} THEN mask
                      ELSE IF mod = 1 THEN {SmallBank} ELSE RegularBanks
<1>1. allowed \in SUBSET (0 .. 5) /\ id % 5 \in 0 .. 4
    BY SlotsAssumption DEF SmallBank, RegularBanks
<1>2. GoodAnswer(id, Find(Without(objects, id), lines, mod, allowed, id % 5, NoCost))
  <2> HIDE DEF allowed
  <2> QED
    BY <1>1, FindGood, NoCostType
<1> QED
    BY <1>2, InvalidGood DEF LoadRequest

\* arithmetic() answers with the destination's own region or with a new one.
LEMMA ArithmeticSound ==
    ASSUME IInv, NEW dst \in Slots, NEW sources \in Seq(Slots), sources # << >>,
           NEW accumulate \in BOOLEAN
    PROVE  GoodAnswer(dst, ArithmeticRequest(objects, dst, sources, accumulate))
<1> DEFINE lines == objects[sources[1]].lines
<1>0. objects \in Layout
    BY DEF IInv, TypeOK
<1>1. CASE ArithmeticInvalid(objects, dst, sources, accumulate)
    BY <1>1, InvalidGood DEF ArithmeticRequest
<1>2. CASE ~ ArithmeticInvalid(objects, dst, sources, accumulate)
  <2>1. sources[1] \in Slots /\ objects[sources[1]] # None
    BY <1>2 DEF ArithmeticInvalid
  <2>2. lines \in Nat
    BY <1>0, <2>1 DEF Layout, Allocation
  <2>3. RegularBanks \in SUBSET (0 .. 5)
    BY DEF RegularBanks
  <2>4. CASE accumulate
    <3>1. objects[dst] \in Allocation
      BY <1>0, <1>2, <2>4 DEF ArithmeticInvalid, Layout
    <3>2. (objects[dst].bank + 1) % 5 \in 0 .. 4
      BY <3>1 DEF Allocation
    <3>3. Append(sources, dst) \in Seq(Slots)
      OBVIOUS
    <3>4. ReadCost(objects, Append(sources, dst)) \in [RegularBanks -> Nat]
      BY <3>3, ReadCostType
    <3>5. GoodAnswer(dst, Find(objects, lines, 0, RegularBanks, (objects[dst].bank + 1) % 5,
                               ReadCost(objects, Append(sources, dst))))
      <4> HIDE DEF lines
      <4> QED
        BY <2>2, <2>3, <3>2, <3>4, FindGood
    <3> QED
      BY <1>2, <2>4, <3>5 DEF ArithmeticRequest
  <2>5. CASE ~ accumulate /\ objects[dst] # None /\ objects[dst].lines = lines
    <3>1. Admissible(objects, dst, objects[dst])
      BY <1>0, <2>5 DEF IInv, PlacementSound, NoOverlap, Residents, Admissible, Layout
    <3>2. GoodAnswer(dst, Placed(objects[dst]))
      BY <3>1 DEF GoodAnswer, Placed
    <3> QED
      BY <1>2, <2>5, <3>2 DEF ArithmeticRequest
  <2>6. CASE ~ accumulate /\ ~ (objects[dst] # None /\ objects[dst].lines = lines)
    <3>1. dst % 5 \in 0 .. 4
      BY SlotsAssumption
    <3>2. ReadCost(objects, sources) \in [RegularBanks -> Nat]
      BY ReadCostType
    <3>3. GoodAnswer(dst, Find(Without(objects, dst), lines, 0, RegularBanks, dst % 5,
                               ReadCost(objects, sources)))
      <4> HIDE DEF lines
      <4> QED
        BY <2>2, <2>3, <3>1, <3>2, FindGood
    <3> QED
      BY <1>2, <2>6, <3>3 DEF ArithmeticRequest
  <2> QED
    BY <2>4, <2>5, <2>6
<1> QED
    BY <1>1, <1>2

\* ntt() answers with a region clear of every resident, its input included.
LEMMA NttSound ==
    ASSUME IInv, NEW data \in Slots
    PROVE  GoodAnswer(data, NttRequest(objects, data))
<1> DEFINE old == objects[data]
           preference == IF old.bank = SmallBank THEN 0 ELSE (old.bank + 1) % 5
<1>1. CASE old = None \/ old.type = 1
    BY <1>1, InvalidGood DEF NttRequest
<1>2. CASE ~ (old = None \/ old.type = 1)
  <2>1. old \in Allocation
    BY <1>2 DEF IInv, TypeOK, Layout
  <2>2. /\ old.lines \in Nat
        /\ RegularBanks \ {old.bank} \in SUBSET (0 .. 5)
        /\ preference \in 0 .. 4
    BY <2>1 DEF Allocation, RegularBanks
  <2>3. GoodAnswer(data, Find(objects, old.lines, 0, RegularBanks \ {old.bank},
                              preference, NoCost))
    <3> HIDE DEF preference, old
    <3> QED
      BY <2>2, FindGood, NoCostType
  <2> QED
    BY <1>2, <2>3 DEF NttRequest
<1> QED
    BY <1>1, <1>2

\* online_multiply() checks its operands and then answers as arithmetic() does.
LEMMA OnlineMultiplySound ==
    ASSUME IInv, NEW dst \in Slots, NEW lhs \in Slots, NEW parameters \in Slots
    PROVE  GoodAnswer(dst, OnlineMultiplyRequest(objects, dst, lhs, parameters))
<1>1. <<lhs>> \in Seq(Slots) /\ <<lhs>> # << >>
    OBVIOUS
<1> QED
    BY <1>1, ArithmeticSound, InvalidGood DEF OnlineMultiplyRequest

-----------------------------------------------------------------------------

\* Committing an admissible region, or refusing, keeps the layout sound.
LEMMA CommitSound ==
    ASSUME IInv, NEW id \in Slots, NEW answer, NEW coexist \in BOOLEAN,
           GoodAnswer(id, answer),
           Commit(id, answer, coexist)
    PROVE  IInv'
<1>1. CASE answer.outcome # "ok"
    BY <1>1 DEF GoodAnswer, Commit, vars, IInv, TypeOK, PlacementSound, NoOverlap, Residents
<1>2. CASE answer.outcome = "ok"
  <2>1. /\ objects' = [objects EXCEPT ![id] = answer.region]
        /\ Admissible(objects, id, answer.region)
    BY <1>2 DEF Commit, GoodAnswer
  <2>2. DOMAIN peak' = DOMAIN peak
    BY <1>2 DEF Commit, Raise
  <2>3. objects' \in Layout
    BY <2>1 DEF IInv, TypeOK, Layout, Admissible
  <2>4. TypeOK'
    BY <2>1, <2>2, <2>3 DEF IInv, TypeOK
  <2>5. /\ objects'[id] = answer.region
        /\ \A other \in Slots \ {id} : objects'[other] = objects[other]
    BY <2>1 DEF IInv, TypeOK, Layout
  <2>6. PlacementSound'
    BY <2>1, <2>5 DEF IInv, PlacementSound, Residents, Admissible
  <2>7. ASSUME NEW i \in Residents(objects'), NEW j \in Residents(objects'), i # j
        PROVE  ~ Overlap(objects'[i], objects'[j])
    <3>1. CASE i = id
      BY <2>1, <2>5, <2>7, <3>1 DEF Residents, Admissible
    <3>2. CASE j = id
      <4>1. ~ Overlap(objects'[j], objects'[i])
        BY <2>1, <2>5, <2>7, <3>2 DEF Residents, Admissible
      <4>2. objects'[i] \in Allocation /\ objects'[j] \in Allocation
        BY <2>3 DEF Residents, Layout
      <4> QED
        BY <4>1, <4>2 DEF Overlap, Intersects, Allocation
    <3>3. CASE i # id /\ j # id
      BY <2>5, <2>7, <3>3 DEF Residents, IInv, NoOverlap
    <3> QED
      BY <3>1, <3>2, <3>3
  <2>8. NoOverlap'
    BY <2>7 DEF NoOverlap
  <2> QED
    BY <2>4, <2>6, <2>8 DEF IInv
<1> QED
    BY <1>1, <1>2

\* Dropping an object keeps the layout sound.
LEMMA ReleaseSound ==
    ASSUME IInv, NEW id \in Slots, Release(id)
    PROVE  IInv'
<1>1. CASE objects[id] = None
    BY <1>1 DEF Release, vars, IInv, TypeOK, PlacementSound, NoOverlap, Residents
<1>2. CASE objects[id] # None
  <2>1. objects' = [objects EXCEPT ![id] = None]
    BY <1>2 DEF Release, Without
  <2>2. DOMAIN peak' = DOMAIN peak
    BY <1>2 DEF Release, Raise
  <2>3. objects' \in Layout
    BY <2>1 DEF IInv, TypeOK, Layout
  <2>4. \A i \in Residents(objects') : i \in Residents(objects) /\ objects'[i] = objects[i]
    BY <2>1 DEF IInv, TypeOK, Layout, Residents
  <2> QED
    BY <2>1, <2>2, <2>3, <2>4 DEF IInv, TypeOK, PlacementSound, NoOverlap
<1> QED
    BY <1>1, <1>2

\* The constructor leaves all slots empty.
LEMMA InitSound == Init => IInv
BY DEF Init, EmptyLayout, Usage, IInv, TypeOK, Layout, PlacementSound, NoOverlap,
       Residents

\* Every operation preserves the invariant.
LEMMA NextSound ==
    ASSUME IInv, [Next]_vars
    PROVE  IInv'
<1>1. CASE \E id \in Slots, lines \in RequestLengths, mod \in {0, 1}, mask \in RequestMasks :
              Load(id, lines, mod, mask)
  <2>1. PICK id \in Slots, lines \in RequestLengths, mod \in {0, 1}, mask \in RequestMasks :
           Load(id, lines, mod, mask)
    BY <1>1
  <2>2. lines \in Nat /\ mask \in SUBSET (0 .. 5)
    BY RequestAssumption
  <2> QED
    BY <2>1, <2>2, LoadSound, CommitSound DEF Load
<1>2. CASE \E dst \in Slots, sources \in Operands, accumulate \in BOOLEAN :
              Arithmetic(dst, sources, accumulate)
  <2>1. PICK dst \in Slots, sources \in Operands, accumulate \in BOOLEAN :
           Arithmetic(dst, sources, accumulate)
    BY <1>2
  <2>2. sources \in Seq(Slots) /\ sources # << >>
    <3>1. CASE \E a \in Slots : sources = <<a>>
      BY <3>1
    <3>2. CASE \E a, b \in Slots : sources = <<a, b>>
      BY <3>2
    <3> QED
      BY <3>1, <3>2 DEF Operands
  <2> QED
    BY <2>1, <2>2, ArithmeticSound, CommitSound DEF Arithmetic
<1>3. CASE \E data \in Slots : Ntt(data)
    BY <1>3, NttSound, CommitSound DEF Ntt
<1>4. CASE \E dst, lhs, parameters \in Slots : OnlineMultiply(dst, lhs, parameters)
    BY <1>4, OnlineMultiplySound, CommitSound DEF OnlineMultiply
<1>5. CASE \E id \in Slots : Release(id)
    BY <1>5, ReleaseSound
<1>6. CASE UNCHANGED vars
    BY <1>6 DEF vars, IInv, TypeOK, PlacementSound, NoOverlap, Residents
<1> QED
    BY <1>1, <1>2, <1>3, <1>4, <1>5, <1>6 DEF Next

-----------------------------------------------------------------------------

\* The inductive invariant holds of every allocator after any calls.
THEOREM Invariance == Spec => []IInv
<1>1. Init => IInv
    BY InitSound
<1>2. IInv /\ [Next]_vars => IInv'
    BY NextSound
<1> QED
    BY <1>1, <1>2, PTL DEF Spec

\* The allocator never leaves its types: each slot holds nothing or one region
\* of a bank.
THEOREM TypeCorrectness == Spec => []TypeOK
<1>1. IInv => TypeOK
    BY DEF IInv
<1> QED
    BY <1>1, Invariance, PTL

\* Every region the allocator hands out respects the geometry of its bank, the
\* alignment to its own size in a regular bank and to even lines in bank 5, and
\* the area reserved for the modulus table.
THEOREM PlacementCorrectness == Spec => []PlacementSound
<1>1. IInv => PlacementSound
    BY DEF IInv
<1> QED
    BY <1>1, Invariance, PTL

\* No two objects ever share a line of the physical memory.
THEOREM Exclusion == Spec => []NoOverlap
<1>1. IInv => NoOverlap
    BY DEF IInv
<1> QED
    BY <1>1, Invariance, PTL

-----------------------------------------------------------------------------

\* Where find() places an ordinary object in is a bank it was allowed to use.
LEMMA FindInAllowed ==
    ASSUME NEW layout, NEW lines \in Nat, NEW allowed \in SUBSET (0 .. 5),
           NEW preference \in 0 .. 4, NEW cost \in [RegularBanks -> Nat],
           Find(layout, lines, 0, allowed, preference, cost).outcome = "ok"
    PROVE  Find(layout, lines, 0, allowed, preference, cost).region.bank \in allowed
<1> DEFINE answer == Find(layout, lines, 0, allowed, preference, cost)
           rooms == BanksWithRoom(layout, lines, allowed)
<1>1. answer = FindOrdinary(layout, lines, allowed, preference, cost)
    BY DEF Find, Refused
<1>2. CASE SmallBank \in allowed /\ FreeSmallBases(layout, lines) # {}
    BY <1>1, <1>2 DEF FindOrdinary, Placed, Region
<1>3. CASE ~ (SmallBank \in allowed /\ FreeSmallBases(layout, lines) # {})
  <2>1. rooms # {} /\ answer.region.bank = BestBank(rooms, preference, cost)
    BY <1>1, <1>3 DEF FindOrdinary, Refused, Placed, Region
  <2>2. rooms \in SUBSET RegularBanks /\ rooms \subseteq allowed
    BY DEF BanksWithRoom
  <2> HIDE DEF rooms
  <2> QED
    BY <2>1, <2>2, BestBankInSet
<1> QED
    BY <1>2, <1>3

\* A slot that changed holds what the request answered.
LEMMA CommittedRegion ==
    ASSUME IInv, NEW id \in Slots, NEW answer, NEW coexist \in BOOLEAN,
           Commit(id, answer, coexist), objects'[id] # objects[id]
    PROVE  answer.outcome = "ok" /\ objects'[id] = answer.region
BY DEF Commit, vars, IInv, TypeOK, Layout

\* A region found in the layout as it is meets no resident.
LEMMA FoundIsFree ==
    ASSUME IInv, NEW lines \in Nat, NEW allowed \in SUBSET (0 .. 5),
           NEW preference \in 0 .. 4, NEW cost \in [RegularBanks -> Nat],
           Find(objects, lines, 0, allowed, preference, cost).outcome = "ok"
    PROVE  \A other \in Residents(objects) :
              ~ Overlap(Find(objects, lines, 0, allowed, preference, cost).region,
                        objects[other])
<1> DEFINE region == Find(objects, lines, 0, allowed, preference, cost).region
<1>1. Fits(objects, region.bank, region.base, region.capacity)
    BY FindSound
<1> HIDE DEF region
<1>2. \A other \in Residents(objects) : ~ Overlap(region, objects[other])
    BY <1>1 DEF Fits, Overlap, Residents
<1> QED
    BY <1>2 DEF region

\* A transform stage leaves its input alone while it writes.
LEMMA NttBuffered ==
    ASSUME IInv, NEW id \in Slots, NttRequest(objects, id).outcome = "ok"
    PROVE  LET region == NttRequest(objects, id).region
           IN  /\ \A other \in Residents(objects) : ~ Overlap(region, objects[other])
               /\ region.bank # objects[id].bank
<1> DEFINE old == objects[id]
           allowed == RegularBanks \ {old.bank}
           preference == IF old.bank = SmallBank THEN 0 ELSE (old.bank + 1) % 5
           found == Find(objects, old.lines, 0, allowed, preference, NoCost)
<1>2. ~ (old = None \/ old.type = 1)
    BY DEF NttRequest, Refused
<1>3. NttRequest(objects, id) = found
    BY <1>2 DEF NttRequest
<1>4. old \in Allocation
    BY <1>2 DEF IInv, TypeOK, Layout
<1>5. old.lines \in Nat /\ allowed \in SUBSET (0 .. 5) /\ preference \in 0 .. 4
    BY <1>4 DEF Allocation, RegularBanks
<1>6. found.outcome = "ok"
    BY <1>3
<1> HIDE DEF old, preference
<1>7. found.region.bank \in allowed
    BY <1>5, <1>6, FindInAllowed, NoCostType
<1>8. \A other \in Residents(objects) : ~ Overlap(found.region, objects[other])
    BY <1>5, <1>6, FoundIsFree, NoCostType
<1> QED
    BY <1>3, <1>7, <1>8 DEF old

\* A PMAC writes beside its accumulator, its operands and everything else.
LEMMA AccumulationBuffered ==
    ASSUME IInv, NEW id \in Slots, NEW sources \in Seq(Slots), sources # << >>,
           ArithmeticRequest(objects, id, sources, TRUE).outcome = "ok"
    PROVE  \A other \in Residents(objects) :
              ~ Overlap(ArithmeticRequest(objects, id, sources, TRUE).region, objects[other])
<1> DEFINE lines == objects[sources[1]].lines
           preference == (objects[id].bank + 1) % 5
           cost == ReadCost(objects, Append(sources, id))
           found == Find(objects, lines, 0, RegularBanks, preference, cost)
<1>2. ~ ArithmeticInvalid(objects, id, sources, TRUE)
    BY DEF ArithmeticRequest, Refused
<1>3. ArithmeticRequest(objects, id, sources, TRUE) = found
    BY <1>2 DEF ArithmeticRequest
<1>4. objects[id] \in Allocation /\ objects[sources[1]] \in Allocation
  <2>1. objects[id] # None /\ objects[sources[1]] # None /\ sources[1] \in Slots
    BY <1>2 DEF ArithmeticInvalid
  <2> QED
    BY <2>1 DEF IInv, TypeOK, Layout
<1>5. lines \in Nat /\ preference \in 0 .. 4 /\ RegularBanks \in SUBSET (0 .. 5)
    BY <1>4 DEF Allocation, RegularBanks
<1>6. cost \in [RegularBanks -> Nat]
  <2>1. Append(sources, id) \in Seq(Slots)
    OBVIOUS
  <2> QED
    BY <2>1, ReadCostType
<1>7. found.outcome = "ok"
    BY <1>3
<1> HIDE DEF lines, preference, cost
<1>8. \A other \in Residents(objects) : ~ Overlap(found.region, objects[other])
    BY <1>5, <1>6, <1>7, FoundIsFree
<1> QED
    BY <1>3, <1>8

\* Whatever the history, a transform stage or an accumulation that succeeds
\* streams its result to lines that nothing held when it began, and a transform
\* stage to another bank than the one it reads.
THEOREM Buffering == Spec => DoubleBuffered
<1> DEFINE Step ==
      \A id \in Slots : objects'[id] \notin {None, objects[id]} =>
         /\ (\E other \in Residents(objects) : Overlap(objects'[id], objects[other])) =>
               ~ Ntt(id) /\ \A sources \in Operands : ~ Arithmetic(id, sources, TRUE)
         /\ id \in Residents(objects) /\ objects'[id].bank = objects[id].bank => ~ Ntt(id)
<1>1. IInv => Step
  <2> SUFFICES ASSUME IInv, NEW id \in Slots, objects'[id] # objects[id]
               PROVE  /\ (\E other \in Residents(objects) : Overlap(objects'[id], objects[other])) =>
                            ~ Ntt(id) /\ \A sources \in Operands : ~ Arithmetic(id, sources, TRUE)
                      /\ objects'[id].bank = objects[id].bank => ~ Ntt(id)
    OBVIOUS
  <2>1. ASSUME Ntt(id)
        PROVE  /\ \A other \in Residents(objects) : ~ Overlap(objects'[id], objects[other])
               /\ objects'[id].bank # objects[id].bank
    <3>1. /\ NttRequest(objects, id).outcome = "ok"
          /\ objects'[id] = NttRequest(objects, id).region
      BY <2>1, CommittedRegion DEF Ntt
    <3> QED
      BY <3>1, NttBuffered
  <2>2. ASSUME NEW sources \in Operands, Arithmetic(id, sources, TRUE)
        PROVE  \A other \in Residents(objects) : ~ Overlap(objects'[id], objects[other])
    <3>1. sources \in Seq(Slots) /\ sources # << >>
      <4>1. CASE \E a \in Slots : sources = <<a>>
        BY <4>1
      <4>2. CASE \E a, b \in Slots : sources = <<a, b>>
        BY <4>2
      <4> QED
        BY <4>1, <4>2 DEF Operands
    <3>2. /\ ArithmeticRequest(objects, id, sources, TRUE).outcome = "ok"
          /\ objects'[id] = ArithmeticRequest(objects, id, sources, TRUE).region
      BY <2>2, CommittedRegion DEF Arithmetic
    <3> QED
      BY <3>1, <3>2, AccumulationBuffered
  <2> QED
    BY <2>1, <2>2
<1>2. Spec => [][Step]_vars
    BY <1>1, Invariance, PTL DEF Spec
<1> QED
    BY <1>2 DEF DoubleBuffered

-----------------------------------------------------------------------------

\* The aligned blocks of a bank are those that find() tries.
LEMMA BlocksAreTried ==
    ASSUME NEW capacity \in {128, 256, 512, 1024},
           NEW block \in 0 .. (RegularLines \div capacity) - 1
    PROVE  capacity * block \in RegularBases(capacity)
<1>1. CASE capacity = 128
  <2>1. block \in 0 .. 7 /\ (128 * block) % 128 = 0
    BY <1>1 DEF RegularLines
  <2> QED
    BY <1>1, <2>1 DEF RegularBases, RegularLines, Granule
<1>2. CASE capacity = 256
  <2>1. block \in 0 .. 3 /\ (256 * block) % 256 = 0 /\ 256 * block = 128 * (2 * block)
    BY <1>2 DEF RegularLines
  <2> QED
    BY <1>2, <2>1 DEF RegularBases, RegularLines, Granule
<1>3. CASE capacity = 512
  <2>1. block \in 0 .. 1 /\ (512 * block) % 512 = 0 /\ 512 * block = 128 * (4 * block)
    BY <1>3 DEF RegularLines
  <2> QED
    BY <1>3, <2>1 DEF RegularBases, RegularLines, Granule
<1>4. CASE capacity = 1024
  <2>1. block = 0
    BY <1>4 DEF RegularLines
  <2> QED
    BY <1>4, <2>1 DEF RegularBases, RegularLines, Granule
<1> QED
    BY <1>1, <1>2, <1>3, <1>4

\* A region that meets a block has the block among those it touches.
LEMMA BlockTouched ==
    ASSUME NEW capacity \in {128, 256, 512, 1024}, NEW block \in Nat,
           NEW base \in Nat, NEW length \in Nat \ {0},
           capacity * block < base + length, base < capacity * block + capacity
    PROVE  block \in (base \div capacity) .. ((base + length - 1) \div capacity)
<1>1. CASE capacity = 128
    BY <1>1
<1>2. CASE capacity = 256
    BY <1>2
<1>3. CASE capacity = 512
    BY <1>3
<1>4. CASE capacity = 1024
    BY <1>4
<1> QED
    BY <1>1, <1>2, <1>3, <1>4

\* A search that ends as full has found every block of the size it needs, in every
\* enabled bank it was allowed, taken by an object of the layout.
LEMMA FullBlock ==
    ASSUME NEW layout \in Layout, NEW lines \in Nat, lines <= RegularLines,
           NEW allowed \in SUBSET (0 .. 5), NEW preference, NEW cost,
           Find(layout, lines, 0, allowed, preference, cost).outcome = "full",
           NEW bank \in allowed \ {SmallBank}, bank < RegularBankCount,
           NEW block \in 0 .. (RegularLines \div RegularCapacity(lines)) - 1
    PROVE  \E other \in Residents(layout) :
              /\ layout[other].bank = bank
              /\ block \in (layout[other].base \div RegularCapacity(lines)) ..
                    ((layout[other].base + layout[other].capacity - 1)
                        \div RegularCapacity(lines))
<1> DEFINE capacity == RegularCapacity(lines)
<1>1. capacity \in {128, 256, 512, 1024}
    BY DEF RegularCapacity
<1>2. BanksWithRoom(layout, lines, allowed) = {}
    BY DEF Find, FindOrdinary, Placed, Refused
<1>3. bank \in allowed \cap RegularBanks
    BY DEF RegularBanks, SmallBank
<1>4. FreeRegularBases(layout, bank, lines) = {}
    BY <1>2, <1>3 DEF BanksWithRoom
<1> HIDE DEF capacity
<1>5. capacity * block \in RegularBases(capacity)
    BY <1>1, BlocksAreTried DEF capacity
<1>6. ~ Fits(layout, bank, capacity * block, capacity)
    BY <1>4, <1>5 DEF FreeRegularBases, capacity
<1>7. PICK other \in Slots : /\ layout[other] # None /\ layout[other].bank = bank
                             /\ Intersects(capacity * block, capacity, layout[other])
    BY <1>6 DEF Fits
<1>8. layout[other] \in Allocation
    BY <1>7 DEF Layout
<1>9. /\ layout[other].base \in Nat /\ layout[other].capacity \in Nat \ {0}
      /\ capacity * block < layout[other].base + layout[other].capacity
      /\ layout[other].base < capacity * block + capacity
    BY <1>7, <1>8 DEF Intersects, Allocation
<1>10. block \in Nat
    BY <1>1 DEF RegularLines, capacity
<1>11. block \in (layout[other].base \div capacity) ..
             ((layout[other].base + layout[other].capacity - 1) \div capacity)
    BY <1>1, <1>9, <1>10, BlockTouched
<1> QED
    BY <1>7, <1>11 DEF Residents, capacity

\* And in bank 5, if it was allowed, every interval from an even line behind the
\* reserved area.
LEMMA FullSmall ==
    ASSUME NEW layout \in Layout, NEW lines \in Nat,
           NEW allowed \in SUBSET (0 .. 5), NEW preference, NEW cost,
           Find(layout, lines, 0, allowed, preference, cost).outcome = "full",
           SmallBank \in allowed,
           NEW base \in ModTableLines .. SmallLines - lines, base % 2 = 0
    PROVE  \E line \in base .. base + lines - 1 : \E other \in Residents(layout) :
              /\ layout[other].bank = SmallBank
              /\ line \in layout[other].base ..
                    layout[other].base + layout[other].capacity - 1
<1>1. ModTableLines \in 1 .. 16 /\ SmallLines = 32
    BY OptionsAssumption DEF SmallLines
<1>2. lines # 0 /\ FreeSmallBases(layout, lines) = {}
    BY DEF Find, FindOrdinary, Placed, Refused
<1>3. base \in FirstOrdinaryLine .. SmallLines /\ lines <= SmallLines - base
    BY <1>1 DEF FirstOrdinaryLine
<1>4. ~ Fits(layout, SmallBank, base, lines)
    BY <1>2, <1>3 DEF FreeSmallBases, SmallBases
<1>5. PICK other \in Slots : /\ layout[other] # None /\ layout[other].bank = SmallBank
                             /\ Intersects(base, lines, layout[other])
    BY <1>4 DEF Fits
<1>6. layout[other] \in Allocation
    BY <1>5 DEF Layout
<1>7. PICK held : held = layout[other].base
    OBVIOUS
<1>8. PICK length : length = layout[other].capacity
    OBVIOUS
<1>9. /\ held \in Nat /\ length \in Nat /\ length > 0
      /\ base < held + length /\ held < base + lines
    BY <1>5, <1>6, <1>7, <1>8 DEF Intersects, Allocation
<1>10. PICK line : line = IF held <= base THEN base ELSE held
    OBVIOUS
<1>11. line \in base .. base + lines - 1 /\ line \in held .. held + length - 1
    BY <1>1, <1>2, <1>9, <1>10
<1> QED
    BY <1>5, <1>7, <1>8, <1>11 DEF Residents

\* An ordinary request is refused as full only where those that stay leave no room.
LEMMA FullHasNoRoom ==
    ASSUME IInv, NEW layout, NEW staying,
           \/ layout = objects /\ staying = Residents(objects)
           \/ \E id \in Slots : layout = Without(objects, id) /\ staying = Residents(objects) \ {id},
           NEW lines \in Nat, NEW allowed \in SUBSET (0 .. 5), NEW preference, NEW cost,
           Find(layout, lines, 0, allowed, preference, cost).outcome = "full"
    PROVE  NoRoom(staying, lines, allowed)
<1>1. layout \in Layout /\ Residents(layout) = staying
      /\ \A other \in staying : layout[other] = objects[other]
  <2>1. objects \in Layout
    BY DEF IInv, TypeOK
  <2> QED
    BY <2>1 DEF Without, Layout, Residents
<1>2. ASSUME lines <= RegularLines, NEW bank \in allowed \ {SmallBank}, bank < RegularBankCount,
             NEW block \in 0 .. (RegularLines \div RegularCapacity(lines)) - 1
      PROVE  BlockHeld(staying, bank, RegularCapacity(lines), block)
  <2>1. PICK other \in Residents(layout) :
              /\ layout[other].bank = bank
              /\ block \in (layout[other].base \div RegularCapacity(lines)) ..
                    ((layout[other].base + layout[other].capacity - 1)
                        \div RegularCapacity(lines))
    BY <1>1, <1>2, FullBlock
  <2> QED
    BY <1>1, <2>1 DEF BlockHeld
<1>3. ASSUME SmallBank \in allowed,
             NEW base \in ModTableLines .. SmallLines - lines, base % 2 = 0
      PROVE  \E line \in base .. base + lines - 1 : SmallLineHeld(staying, line)
  <2>1. PICK line \in base .. base + lines - 1 : \E other \in Residents(layout) :
              /\ layout[other].bank = SmallBank
              /\ line \in layout[other].base ..
                    layout[other].base + layout[other].capacity - 1
    BY <1>1, <1>3, FullSmall
  <2>2. SmallLineHeld(staying, line)
    BY <1>1, <2>1 DEF SmallLineHeld
  <2> QED
    BY <2>2
<1> QED
    BY <1>2, <1>3 DEF NoRoom

\* A table is refused as full only beside another table.
LEMMA FullTable ==
    ASSUME IInv, NEW id \in Slots, NEW lines \in Nat, NEW allowed, SmallBank \in allowed,
           NEW preference, NEW cost,
           Find(Without(objects, id), lines, 1, allowed, preference, cost).outcome = "full"
    PROVE  \E other \in Residents(objects) \ {id} : objects[other].type = 1
<1> DEFINE layout == Without(objects, id)
<1>1. ~ Fits(layout, SmallBank, 0, ModTableLines)
    BY DEF Find, FindTable, Placed, Refused
<1>2. PICK other \in Slots : /\ layout[other] # None /\ layout[other].bank = SmallBank
                             /\ Intersects(0, ModTableLines, layout[other])
  <2> HIDE DEF layout
  <2> QED
    BY <1>1 DEF Fits
<1>3. objects \in Layout
    BY DEF IInv, TypeOK
<1>4. /\ other \in Residents(objects) \ {id} /\ layout[other] = objects[other]
      /\ objects[other] \in Allocation
    BY <1>2, <1>3 DEF Without, Layout, Residents
<1>5. WellPlaced(objects[other])
    BY <1>4 DEF IInv, PlacementSound
<1>6. objects[other].base < ModTableLines /\ objects[other].bank = SmallBank
    BY <1>2, <1>4, OptionsAssumption DEF Intersects
<1>7. objects[other].type = 1
    BY <1>4, <1>5, <1>6, OptionsAssumption DEF WellPlaced, Allocation, SmallBank
<1> QED
    BY <1>4, <1>7

\* Every request that is refused as full is refused for want of room: what a load, an
\* arithmetic instruction, a PMAC, a transform stage or an online multiplication needs is
\* held by objects that stay, in every bank it may use, and a table finds another table.
THEOREM Refusals == Spec => []RefusalIsJustified
<1>1. ASSUME IInv PROVE RefusalIsJustified
  <2>0. objects \in Layout /\ RegularBanks \in SUBSET (0 .. 5)
    BY <1>1 DEF IInv, TypeOK, RegularBanks
  <2>1. ASSUME NEW id \in Slots, NEW lines \in RequestLengths, NEW mask \in RequestMasks
        PROVE  /\ LoadRequest(objects, id, lines, 0, mask).outcome = "full" =>
                     NoRoom(Residents(objects) \ {id}, lines, IF mask = {} THEN RegularBanks ELSE mask)
               /\ LoadRequest(objects, id, lines, 1, mask).outcome = "full" =>
                     \E other \in Residents(objects) \ {id} : objects[other].type = 1
    <3>1. lines \in Nat /\ mask \in SUBSET (0 .. 5)
      BY RequestAssumption
    <3>2. ASSUME LoadRequest(objects, id, lines, 0, mask).outcome = "full"
          PROVE  NoRoom(Residents(objects) \ {id}, lines, IF mask = {} THEN RegularBanks ELSE mask)
      <4>1. PICK allowed \in SUBSET (0 .. 5) : allowed = IF mask = {} THEN RegularBanks ELSE mask
        BY <2>0, <3>1
      <4>2. Find(Without(objects, id), lines, 0, allowed, id % 5, NoCost).outcome = "full"
        BY <3>2, <4>1 DEF LoadRequest
      <4>3. NoRoom(Residents(objects) \ {id}, lines, allowed)
        BY <1>1, <3>1, <4>2, FullHasNoRoom
      <4> QED
        BY <4>1, <4>3
    <3>3. ASSUME LoadRequest(objects, id, lines, 1, mask).outcome = "full"
          PROVE  \E other \in Residents(objects) \ {id} : objects[other].type = 1
      <4>1. Find(Without(objects, id), lines, 1, {SmallBank}, id % 5, NoCost).outcome = "full"
        BY <3>3 DEF LoadRequest, Refused
      <4> QED
        BY <1>1, <3>1, <4>1, FullTable
    <3> QED
      BY <3>2, <3>3
  <2>2. ASSUME NEW dst \in Slots, NEW sources, sources[1] \in Slots, 1 \in DOMAIN sources
        PROVE  /\ ArithmeticRequest(objects, dst, sources, FALSE).outcome = "full" =>
                     NoRoom(Residents(objects) \ {dst}, objects[sources[1]].lines, RegularBanks)
               /\ ArithmeticRequest(objects, dst, sources, TRUE).outcome = "full" =>
                     NoRoom(Residents(objects), objects[sources[1]].lines, RegularBanks)
    <3>1. ASSUME NEW accumulate \in BOOLEAN,
                 ArithmeticRequest(objects, dst, sources, accumulate).outcome = "full"
          PROVE  /\ ~ ArithmeticInvalid(objects, dst, sources, accumulate)
                 /\ objects[sources[1]].lines \in Nat
      <4>1. ~ ArithmeticInvalid(objects, dst, sources, accumulate)
        BY <3>1 DEF ArithmeticRequest, Refused
      <4>2. objects[sources[1]] # None
        BY <2>2, <4>1 DEF ArithmeticInvalid
      <4> QED
        BY <2>0, <2>2, <4>1, <4>2 DEF Layout, Allocation
    <3>2. ASSUME ArithmeticRequest(objects, dst, sources, FALSE).outcome = "full"
          PROVE  NoRoom(Residents(objects) \ {dst}, objects[sources[1]].lines, RegularBanks)
      <4>1. Find(Without(objects, dst), objects[sources[1]].lines, 0, RegularBanks, dst % 5,
                 ReadCost(objects, sources)).outcome = "full"
        BY <3>1, <3>2 DEF ArithmeticRequest, Placed
      <4> QED
        BY <1>1, <2>0, <3>1, <3>2, <4>1, FullHasNoRoom
    <3>3. ASSUME ArithmeticRequest(objects, dst, sources, TRUE).outcome = "full"
          PROVE  NoRoom(Residents(objects), objects[sources[1]].lines, RegularBanks)
      <4>1. Find(objects, objects[sources[1]].lines, 0, RegularBanks,
                 (objects[dst].bank + 1) % 5,
                 ReadCost(objects, Append(sources, dst))).outcome = "full"
        BY <3>1, <3>3 DEF ArithmeticRequest
      <4> QED
        BY <1>1, <2>0, <3>1, <3>3, <4>1, FullHasNoRoom
    <3> QED
      BY <3>2, <3>3
  <2>3. ASSUME NEW data \in Slots, NttRequest(objects, data).outcome = "full"
        PROVE  NoRoom(Residents(objects), objects[data].lines, RegularBanks \ {objects[data].bank})
    <3>1. PICK preference :
             preference = IF objects[data].bank = SmallBank THEN 0 ELSE (objects[data].bank + 1) % 5
      OBVIOUS
    <3>2. /\ objects[data] # None
          /\ Find(objects, objects[data].lines, 0, RegularBanks \ {objects[data].bank},
                  preference, NoCost).outcome = "full"
      BY <2>3, <3>1 DEF NttRequest, Refused
    <3>3. objects[data] \in Allocation
      BY <2>0, <3>2 DEF Layout
    <3>4. objects[data].lines \in Nat
      BY <3>3 DEF Allocation
    <3>5. RegularBanks \ {objects[data].bank} \in SUBSET (0 .. 5)
      BY <2>0
    <3> QED
      BY <1>1, <3>2, <3>4, <3>5, FullHasNoRoom
  <2>4. ASSUME NEW dst \in Slots, NEW sources \in Operands
        PROVE  sources[1] \in Slots /\ 1 \in DOMAIN sources
    <3>1. CASE \E a \in Slots : sources = <<a>>
      BY <3>1
    <3>2. CASE \E a, b \in Slots : sources = <<a, b>>
      BY <3>2
    <3> QED
      BY <3>1, <3>2, <2>4 DEF Operands
  <2>5. ASSUME NEW dst \in Slots, NEW lhs \in Slots, NEW parameters \in Slots,
               OnlineMultiplyRequest(objects, dst, lhs, parameters).outcome = "full"
        PROVE  NoRoom(Residents(objects) \ {dst}, objects[lhs].lines, RegularBanks)
    <3>1. ArithmeticRequest(objects, dst, <<lhs>>, FALSE).outcome = "full"
      BY <2>5 DEF OnlineMultiplyRequest, Refused
    <3>2. <<lhs>>[1] = lhs /\ 1 \in DOMAIN <<lhs>>
      OBVIOUS
    <3>3. PICK sources : sources = <<lhs>>
      OBVIOUS
    <3>4. NoRoom(Residents(objects) \ {dst}, objects[sources[1]].lines, RegularBanks)
      BY <2>2, <3>1, <3>2, <3>3
    <3> QED
      BY <3>2, <3>3, <3>4
  <2> QED
    BY <2>1, <2>2, <2>3, <2>4, <2>5 DEF RefusalIsJustified
<1> QED
    BY <1>1, Invariance, PTL

-----------------------------------------------------------------------------
(* The peaks: lines that are counted are lines of the hardware.            *)

One(s) == CHOOSE x \in s : TRUE

\* The sum that the folds of the community modules compute, for every subset.
Sums(S, w, sum) ==
    sum = [s \in SUBSET S |-> IF s = {} THEN 0 ELSE w[One(s)] + sum[s \ {One(s)}]]

\* What is left of a finite set without one element is smaller.
LEMMA OneLess ==
    ASSUME NEW S, IsFiniteSet(S), NEW s \in SUBSET S
    PROVE  /\ Cardinality(s) \in Nat /\ Cardinality(s) <= Cardinality(S)
           /\ s # {} => /\ One(s) \in s /\ s \ {One(s)} \in SUBSET S
                        /\ Cardinality(s \ {One(s)}) = Cardinality(s) - 1
           /\ Cardinality(s) = 0 => s = {}
  <1>1. IsFiniteSet(s) /\ Cardinality(s) \in Nat /\ Cardinality(s) <= Cardinality(S)
    BY FS_Subset, FS_CardinalityType
  <1>2. s # {} => One(s) \in s
    BY DEF One
  <1> QED
    BY <1>1, <1>2, FS_RemoveElement, FS_EmptySet

\* There is such a sum, by induction on the size of the subsets.
LEMMA SumsExist ==
    ASSUME NEW S, IsFiniteSet(S), NEW w \in [S -> Nat]
    PROVE  \E sum \in [SUBSET S -> Nat] : Sums(S, w, sum)
  <1> DEFINE upTo(n) == {s \in SUBSET S : Cardinality(s) <= n}
             next(f, s) == IF s = {} THEN 0 ELSE w[One(s)] + f[s \ {One(s)}]
             sound(n, f) == \A s \in upTo(n) : f[s] = next(f, s)
             bad == {n \in Nat : ~ \E f \in [SUBSET S -> Nat] : sound(n, f)}
  <1>0. \A s \in SUBSET S :
           Cardinality(s) \in Nat /\ Cardinality(s) <= Cardinality(S) /\ (Cardinality(s) = 0 => s = {})
    BY OneLess
  <1>1. bad = {}
    <2> SUFFICES ASSUME bad # {} PROVE FALSE
      OBVIOUS
    <2>1. PICK n \in bad : \A m \in bad : n <= m
      <3> HIDE DEF bad
      <3>1. bad \in SUBSET Nat
        BY DEF bad
      <3> QED
        BY <3>1, LeastNatural
    <2>2. CASE n = 0
      <3>1. [s \in SUBSET S |-> 0] \in [SUBSET S -> Nat]
        OBVIOUS
      <3>2. \A s \in upTo(0) : s = {}
        <4> TAKE s \in upTo(0)
        <4>1. s \in SUBSET S /\ Cardinality(s) <= 0
          OBVIOUS
        <4>2. Cardinality(s) = 0
          BY <1>0, <4>1
        <4> QED
          BY <1>0, <4>1, <4>2
      <3>3. sound(0, [s \in SUBSET S |-> 0])
        BY <3>2
      <3> QED
        BY <2>1, <2>2, <3>1, <3>3
    <2>3. CASE n # 0
      <3>1. n \in Nat
        BY <2>1
      <3>2. n - 1 \in Nat /\ ~ (n <= n - 1)
        BY <2>3, <3>1
      <3>3. n - 1 \notin bad
        <4> HIDE DEF bad
        <4> QED
          BY <2>1, <3>2
      <3>4. PICK f \in [SUBSET S -> Nat] : sound(n - 1, f)
        BY <3>2, <3>3
      <3> DEFINE g == [s \in SUBSET S |-> next(f, s)]
      <3>5. ASSUME NEW s \in SUBSET S, s # {}
            PROVE  w[One(s)] + f[s \ {One(s)}] \in Nat
        <4>1. w[One(s)] \in Nat /\ f[s \ {One(s)}] \in Nat
          BY <3>5, OneLess
        <4> QED
          BY <4>1
      <3>6. g \in [SUBSET S -> Nat]
        BY <3>5
      <3>7. \A s \in upTo(n - 1) : g[s] = f[s]
        BY <3>4
      <3>8. ASSUME NEW s \in upTo(n), s # {}
            PROVE  s \ {One(s)} \in upTo(n - 1)
        BY <3>1, <3>8, OneLess
      <3>9. sound(n, g)
        BY <3>7, <3>8
      <3> HIDE DEF g, sound
      <3> QED
        BY <2>1, <3>6, <3>9
    <2> QED
      BY <2>2, <2>3
  <1>2. Cardinality(S) \in Nat
    BY FS_CardinalityType
  <1>3. PICK f \in [SUBSET S -> Nat] : sound(Cardinality(S), f)
    BY <1>1, <1>2
  <1>4. \A s \in SUBSET S : f[s] = next(f, s)
    BY <1>3, OneLess
  <1>5. Sums(S, w, f)
    BY <1>4 DEF Sums
  <1> QED
    BY <1>5

\* A sum of the sizes of sets that have nothing in common is the size of their union.
LEMMA SumsCount ==
    ASSUME NEW S, IsFiniteSet(S), NEW w \in [S -> Nat], NEW sum, Sums(S, w, sum), NEW cells,
           \A x \in S : IsFiniteSet(cells[x]) /\ Cardinality(cells[x]) = w[x],
           \A x, y \in S : x # y => cells[x] \cap cells[y] = {}
    PROVE  /\ IsFiniteSet(UNION {cells[x] : x \in S})
           /\ sum[S] = Cardinality(UNION {cells[x] : x \in S})
  <1> DEFINE all(s) == UNION {cells[x] : x \in s}
             sound(s) == IsFiniteSet(all(s)) /\ sum[s] = Cardinality(all(s))
             bad == {n \in Nat : \E s \in SUBSET S : Cardinality(s) = n /\ ~ sound(s)}
  <1>1. \A s \in SUBSET S : sum[s] = IF s = {} THEN 0 ELSE w[One(s)] + sum[s \ {One(s)}]
    BY DEF Sums
  <1>2. bad = {}
    <2> SUFFICES ASSUME bad # {} PROVE FALSE
      OBVIOUS
    <2>1. PICK n \in bad : \A m \in bad : n <= m
      <3> HIDE DEF bad
      <3>1. bad \in SUBSET Nat
        BY DEF bad
      <3> QED
        BY <3>1, LeastNatural
    <2>2. PICK s \in SUBSET S : Cardinality(s) = n /\ ~ sound(s)
      BY <2>1
    <2>3. s # {}
      <3> SUFFICES ASSUME s = {} PROVE sound({})
        BY <2>2
      <3>1. sum[{}] = 0 /\ all({}) = {}
        BY <1>1
      <3> QED
        BY <3>1, FS_EmptySet
    <2> DEFINE x == One(s)
               rest == s \ {x}
    <2>4. x \in s /\ rest \in SUBSET S /\ Cardinality(rest) = n - 1 /\ n - 1 \in Nat
      <3>1. /\ Cardinality(s) \in Nat /\ (Cardinality(s) = 0 => s = {})
            /\ x \in s /\ rest \in SUBSET S /\ Cardinality(rest) = Cardinality(s) - 1
        BY <2>3, OneLess
      <3> HIDE DEF x, rest
      <3> QED
        BY <2>2, <2>3, <3>1
    <2>5. sum[s] = w[x] + sum[rest]
      BY <1>1, <2>3
    <2> HIDE DEF x
    <2>6. n - 1 \notin bad
      <3>1. n \in Nat
        BY <2>1
      <3> HIDE DEF bad
      <3> QED
        BY <2>1, <2>4, <3>1
    <2>7. sound(rest)
      BY <2>4, <2>6
    <2>8. all(s) = all(rest) \cup cells[x] /\ all(rest) \cap cells[x] = {}
      <3>1. \A y \in rest : y # x /\ y \in S /\ x \in S
        BY <2>4
      <3>2. \A y \in rest : cells[y] \cap cells[x] = {}
        BY <3>1
      <3>3. s = rest \cup {x}
        BY <2>4
      <3> HIDE DEF rest
      <3> QED
        BY <3>2, <3>3
    <2>9. x \in S /\ IsFiniteSet(cells[x]) /\ Cardinality(cells[x]) = w[x]
      BY <2>4
    <2> HIDE DEF rest, all
    <2>10. /\ IsFiniteSet(all(rest) \cup cells[x])
           /\ Cardinality(all(rest) \cup cells[x]) = Cardinality(all(rest)) + w[x]
      <3>1. PICK A, B : A = all(rest) /\ B = cells[x]
        OBVIOUS
      <3>2. IsFiniteSet(A) /\ IsFiniteSet(B) /\ A \cap B = {}
        BY <2>7, <2>8, <2>9, <3>1
      <3>3. Cardinality(A) \in Nat /\ Cardinality(B) \in Nat /\ Cardinality({}) = 0
        BY <3>2, FS_CardinalityType, FS_EmptySet
      <3>4. /\ IsFiniteSet(A \cup B)
            /\ Cardinality(A \cup B) = Cardinality(A) + Cardinality(B) - Cardinality(A \cap B)
        BY <3>2, FS_Union
      <3>5. Cardinality(A \cap B) = 0
        BY <3>2, <3>3
      <3>6. Cardinality(A \cup B) = Cardinality(A) + Cardinality(B)
        BY <3>3, <3>4, <3>5
      <3> QED
        BY <2>9, <3>1, <3>4, <3>6
    <2>11. Cardinality(all(rest)) \in Nat /\ w[x] \in Nat
      BY <2>7, <2>9, FS_CardinalityType
    <2>12. sound(s)
      BY <2>5, <2>7, <2>8, <2>10, <2>11
    <2> QED
      BY <2>2, <2>12
  <1>3. Cardinality(S) \in Nat
    BY FS_CardinalityType
  <1> QED
    BY <1>2, <1>3

\* The lines of a region, numbered through all banks.
Cells(a) == 1024 * a.bank + a.base .. 1024 * a.bank + a.base + a.capacity - 1

LEMMA CellsOfRegion ==
    ASSUME NEW a \in Allocation
    PROVE  /\ IsFiniteSet(Cells(a)) /\ Cardinality(Cells(a)) = a.capacity
           /\ WellPlaced(a) /\ InRegularBank(a) => Cells(a) \subseteq 0 .. RegularBankCount * 1024 - 1
           /\ WellPlaced(a) /\ OrdinaryInSmall(a)
               => Cells(a) \subseteq 5120 + ModTableLines .. 5120 + SmallLines - 1
<1>1. /\ a.bank \in 0 .. 5 /\ a.base \in Nat /\ a.capacity \in Nat /\ a.capacity > 0
      /\ 1024 * a.bank + a.base \in Int /\ 1024 * a.bank + a.base + a.capacity - 1 \in Int
    BY DEF Allocation
<1>2. IsFiniteSet(Cells(a)) /\ Cardinality(Cells(a)) = a.capacity
    BY <1>1, FS_Interval DEF Cells
<1>3. ASSUME WellPlaced(a), InRegularBank(a)
      PROVE  Cells(a) \subseteq 0 .. RegularBankCount * 1024 - 1
  <2>1. a.bank + 1 <= RegularBankCount /\ a.base + a.capacity <= 1024
    BY <1>1, <1>3, OptionsAssumption DEF WellPlaced, InRegularBank, RegularLines
  <2> QED
    BY <1>1, <2>1, OptionsAssumption DEF Cells
<1>4. ASSUME WellPlaced(a), OrdinaryInSmall(a)
      PROVE  Cells(a) \subseteq 5120 + ModTableLines .. 5120 + SmallLines - 1
    BY <1>1, <1>4, OptionsAssumption DEF WellPlaced, OrdinaryInSmall, SmallBank, SmallLines, Cells
<1> QED
    BY <1>2, <1>3, <1>4

\* Regions that do not overlap have no line in common.
LEMMA CellsApart ==
    ASSUME NEW a \in Allocation, NEW b \in Allocation, WellPlaced(a), WellPlaced(b),
           ~ Overlap(a, b)
    PROVE  Cells(a) \cap Cells(b) = {}
<1>1. ASSUME NEW r \in Allocation, WellPlaced(r)
      PROVE  r.bank \in 0 .. 5 /\ r.base \in Nat /\ r.capacity \in Nat /\ r.base + r.capacity <= 1024
  <2>1. r.bank \in 0 .. 5 /\ r.base \in Nat /\ r.capacity \in Nat
    BY DEF Allocation
  <2> QED
    BY <1>1, <2>1, OptionsAssumption DEF WellPlaced, RegularLines, SmallLines
<1>2. \/ a.bank # b.bank
      \/ a.base >= b.base + b.capacity \/ b.base >= a.base + a.capacity
    BY <1>1 DEF Overlap, Intersects
<1>3. CASE a.bank # b.bank
    BY <1>1, <1>3 DEF Cells
<1>4. CASE a.bank = b.bank
    BY <1>1, <1>2, <1>4 DEF Cells
<1> QED
    BY <1>3, <1>4

\* What the layout is counted to occupy is the number of the lines it occupies.
LEMMA LinesCounted ==
    ASSUME NEW layout \in Layout, NEW T \in SUBSET Residents(layout),
           \A id \in T : WellPlaced(layout[id]),
           \A i, j \in T : i # j => ~ Overlap(layout[i], layout[j])
    PROVE  /\ IsFiniteSet(UNION {Cells(layout[id]) : id \in T})
           /\ MapThenSumSet(LAMBDA id : layout[id].capacity, T)
                 = Cardinality(UNION {Cells(layout[id]) : id \in T})
<1>1. IsFiniteSet(T)
  <2>1. PICK m, n \in Int : m = 0 /\ n = 63
    OBVIOUS
  <2>2. IsFiniteSet(m .. n)
    BY FS_Interval
  <2>3. T \in SUBSET (m .. n)
    BY <2>1, SlotsAssumption DEF Residents
  <2> QED
    BY <2>2, <2>3, FS_Subset
<1>2. \A id \in T : layout[id] \in Allocation /\ layout[id].capacity \in Nat
    BY DEF Residents, Layout, Allocation
<1>3. PICK w, cells : /\ w = [id \in T |-> layout[id].capacity]
                      /\ cells = [id \in T |-> Cells(layout[id])]
    OBVIOUS
<1>4. w \in [T -> Nat]
    BY <1>2, <1>3
<1>5. \A id \in T : IsFiniteSet(cells[id]) /\ Cardinality(cells[id]) = w[id]
    BY <1>2, <1>3, CellsOfRegion
<1>6. \A i, j \in T : i # j => cells[i] \cap cells[j] = {}
    BY <1>2, <1>3, CellsApart
<1> DEFINE summed(sum) ==
             sum = [s \in SUBSET T |->
                      IF s = {} THEN 0 ELSE layout[One(s)].capacity + sum[s \ {One(s)}]]
           total == CHOOSE sum : summed(sum)
<1>7. \A sum : summed(sum) <=> Sums(T, w, sum)
  <2>1. \A s \in SUBSET T : s # {} => One(s) \in T
    BY DEF One
  <2> QED
    BY <1>3, <2>1 DEF Sums
<1>8. summed(total)
  <2>1. \E sum : Sums(T, w, sum)
    BY <1>1, <1>4, SumsExist
  <2>2. \E sum : summed(sum)
    BY <1>7, <2>1
  <2> HIDE DEF summed
  <2> QED
    BY <2>2
<1>9. MapThenSumSet(LAMBDA id : layout[id].capacity, T) = total[T]
    BY DEF MapThenSumSet, MapThenFoldSet, One
<1> HIDE DEF total, summed
<1>10. /\ IsFiniteSet(UNION {cells[id] : id \in T})
       /\ total[T] = Cardinality(UNION {cells[id] : id \in T})
    BY <1>1, <1>4, <1>5, <1>6, <1>7, <1>8, SumsCount
<1>11. {cells[id] : id \in T} = {Cells(layout[id]) : id \in T}
    BY <1>3
<1> QED
    BY <1>9, <1>10, <1>11

\* A region beside the layout is counted with its capacity.
LEMMA SumOfOne ==
    /\ SumSet({}) = 0
    /\ \A c \in Nat : SumSet({c}) = c
<1>1. ASSUME NEW S, IsFiniteSet(S), NEW w \in [S -> Nat], \A x \in S : w[x] = x
      PROVE  \E total : Sums(S, w, total) /\ SumSet(S) = total[S]
  <2> DEFINE summed(sum) ==
               sum = [s \in SUBSET S |-> IF s = {} THEN 0 ELSE One(s) + sum[s \ {One(s)}]]
             total == CHOOSE sum : summed(sum)
  <2>1. \A sum : summed(sum) <=> Sums(S, w, sum)
    <3>1. \A s \in SUBSET S : s # {} => One(s) \in S
      BY DEF One
    <3> QED
      BY <1>1, <3>1 DEF Sums
  <2>2. summed(total)
    <3>1. \E sum : Sums(S, w, sum)
      BY <1>1, SumsExist
    <3>2. \E sum : summed(sum)
      BY <2>1, <3>1
    <3> HIDE DEF summed
    <3> QED
      BY <3>2
  <2>3. SumSet(S) = total[S]
    BY DEF SumSet, FoldSet, MapThenFoldSet, One
  <2> HIDE DEF total, summed
  <2> QED
    BY <2>1, <2>2, <2>3
<1>2. SumSet({}) = 0
  <2>1. IsFiniteSet({}) /\ [x \in {} |-> x] \in [{} -> Nat]
    BY FS_EmptySet
  <2>2. PICK w : w = [x \in {} |-> x]
    OBVIOUS
  <2>3. PICK total : Sums({}, w, total) /\ SumSet({}) = total[{}]
    BY <1>1, <2>1, <2>2
  <2> QED
    BY <2>3 DEF Sums
<1>3. ASSUME NEW c \in Nat PROVE SumSet({c}) = c
  <2>1. PICK w, S : S = {c} /\ w = [x \in S |-> x]
    OBVIOUS
  <2>2. IsFiniteSet(S) /\ w \in [S -> Nat] /\ \A x \in S : w[x] = x
    BY <2>1, FS_Singleton
  <2>3. PICK total : Sums(S, w, total) /\ SumSet(S) = total[S]
    BY <1>1, <2>2
  <2>4. One(S) = c
    BY <2>1 DEF One
  <2>5. total = [s \in SUBSET S |-> IF s = {} THEN 0 ELSE w[One(s)] + total[s \ {One(s)}]]
    BY <2>3 DEF Sums
  <2>6. S # {} /\ S \in SUBSET S /\ {} \in SUBSET S /\ S \ {One(S)} = {}
    BY <2>1, <2>4
  <2>7. total[S] = w[c] + total[{}] /\ total[{}] = 0
    BY <2>4, <2>5, <2>6
  <2> QED
    BY <2>1, <2>3, <2>7
<1> QED
    BY <1>2, <1>3

\* The sum that account() computes for some objects.
Held(layout, T) == MapThenSumSet(LAMBDA id : layout[id].capacity, T)

\* n lines are within an interval, and so is a region that meets none of T besides.
Within(layout, T, n, lo, hi) ==
    /\ n \in Nat /\ n <= hi - lo + 1
    /\ \A a \in Allocation :
          /\ WellPlaced(a) /\ Cells(a) \subseteq lo .. hi
          /\ \A id \in T : ~ Overlap(a, layout[id])
          => n + a.capacity <= hi - lo + 1

\* Counted lines that lie in an interval are no more than it has, together with those
\* of a region that meets none of them.
LEMMA Bounded ==
    ASSUME NEW layout \in Layout, NEW T \in SUBSET Residents(layout),
           \A id \in T : WellPlaced(layout[id]),
           \A i, j \in T : i # j => ~ Overlap(layout[i], layout[j]),
           NEW lo \in Int, NEW hi \in Int, lo <= hi,
           \A id \in T : Cells(layout[id]) \subseteq lo .. hi,
           NEW n, n = Held(layout, T)
    PROVE  Within(layout, T, n, lo, hi)
<1>1. PICK held : held = UNION {Cells(layout[id]) : id \in T}
    OBVIOUS
<1>2. IsFiniteSet(held) /\ n = Cardinality(held)
    BY <1>1, LinesCounted DEF Held
<1>3. IsFiniteSet(lo .. hi) /\ Cardinality(lo .. hi) = hi - lo + 1
    BY FS_Interval
<1>4. held \subseteq lo .. hi
    BY <1>1
<1>5. n \in Nat
    BY <1>2, FS_CardinalityType
<1>6. n <= hi - lo + 1
    BY <1>2, <1>3, <1>4, FS_Subset
<1>7. ASSUME NEW a \in Allocation, WellPlaced(a), Cells(a) \subseteq lo .. hi,
             \A id \in T : ~ Overlap(a, layout[id])
      PROVE  n + a.capacity <= hi - lo + 1
  <2>1. PICK B : B = Cells(a)
    OBVIOUS
  <2>2. IsFiniteSet(B) /\ Cardinality(B) = a.capacity /\ a.capacity \in Nat
    BY <2>1, CellsOfRegion DEF Allocation
  <2>3. \A id \in T : layout[id] \in Allocation /\ Cells(a) \cap Cells(layout[id]) = {}
    <3> TAKE id \in T
    <3>1. layout[id] \in Allocation
      BY DEF Residents, Layout
    <3> QED
      BY <1>7, <3>1, CellsApart
  <2>4. held \cap B = {}
    BY <1>1, <2>1, <2>3
  <2>5. Cardinality(held \cap B) = 0
    BY <2>4, FS_EmptySet
  <2>6. /\ IsFiniteSet(held \cup B)
        /\ Cardinality(held \cup B) = Cardinality(held) + Cardinality(B) - Cardinality(held \cap B)
    BY <1>2, <2>2, FS_Union
  <2>7. (held \cup B) \in SUBSET (lo .. hi)
    BY <1>4, <1>7, <2>1
  <2>8. Cardinality(held \cup B) <= hi - lo + 1
    BY <1>3, <2>7, FS_Subset
  <2> QED
    BY <1>2, <1>5, <2>2, <2>5, <2>6, <2>8
<1> QED
    BY <1>5, <1>6, <1>7 DEF Within

\* A layout the hardware can build.
Buildable(layout) ==
    /\ layout \in Layout
    /\ \A id \in Residents(layout) : WellPlaced(layout[id])
    /\ \A i, j \in Residents(layout) : i # j => ~ Overlap(layout[i], layout[j])

\* A region that may be written beside it.
Beside(layout, a) ==
    a \in Allocation /\ WellPlaced(a) /\ \A id \in Residents(layout) : ~ Overlap(a, layout[id])

\* account() counts no more than there is, also with the second region.
LEMMA UsageBound ==
    ASSUME NEW layout, Buildable(layout), NEW extra,
           extra = {} \/ \E a : extra = {a} /\ Beside(layout, a)
    PROVE  /\ Usage(layout, extra).regular \in Nat
           /\ Usage(layout, extra).regular <= RegularBankCount * RegularLines
           /\ Usage(layout, extra).small \in Nat
           /\ Usage(layout, extra).small <= SmallLines
<1>1. RegularBankCount \in 1 .. 5 /\ ModTableLines \in 1 .. 16
    BY OptionsAssumption
<1>2. layout \in Layout /\ \A id \in Residents(layout) : layout[id] \in Allocation
    BY DEF Buildable, Residents, Layout
<1>3. PICK n : n = Lines(layout, InRegularBank)
    OBVIOUS
<1>4. PICK m : m = Lines(layout, OrdinaryInSmall)
    OBVIOUS
<1>5. PICK T : T = {id \in Residents(layout) : InRegularBank(layout[id])}
    OBVIOUS
<1>6. PICK U : U = {id \in Residents(layout) : OrdinaryInSmall(layout[id])}
    OBVIOUS
<1>7. n = Held(layout, T)
    BY <1>3, <1>5 DEF Lines, Held
<1>8. m = Held(layout, U)
    BY <1>4, <1>6 DEF Lines, Held
<1>9. PICK zero, top \in Int : zero = 0 /\ top = RegularBankCount * 1024 - 1 /\ 0 <= top
    BY <1>1
<1>10. PICK low, high \in Int : low = 5120 + ModTableLines /\ high = 5120 + SmallLines - 1 /\ low <= high
    BY <1>1 DEF SmallLines
<1>11. Within(layout, T, n, zero, top)
  <2>1. T \in SUBSET Residents(layout) /\ \A id \in T : WellPlaced(layout[id])
    BY <1>5 DEF Buildable
  <2>2. \A i, j \in T : i # j => ~ Overlap(layout[i], layout[j])
    BY <1>5 DEF Buildable
  <2>3. \A id \in T : Cells(layout[id]) \subseteq zero .. top
    BY <1>2, <1>5, <1>9, <2>1, CellsOfRegion
  <2> QED
    BY <1>2, <1>7, <1>9, <2>1, <2>2, <2>3, Bounded
<1>12. Within(layout, U, m, low, high)
  <2>1. U \in SUBSET Residents(layout) /\ \A id \in U : WellPlaced(layout[id])
    BY <1>6 DEF Buildable
  <2>2. \A i, j \in U : i # j => ~ Overlap(layout[i], layout[j])
    BY <1>6 DEF Buildable
  <2>3. \A id \in U : Cells(layout[id]) \subseteq low .. high
    BY <1>2, <1>6, <1>10, <2>1, CellsOfRegion
  <2> QED
    BY <1>2, <1>8, <1>10, <2>1, <2>2, <2>3, Bounded
<1>13. PICK p : p = SumSet({a.capacity : a \in {b \in extra : InRegularBank(b)}})
    OBVIOUS
<1>14. PICK q : q = SumSet({a.capacity : a \in {b \in extra : OrdinaryInSmall(b)}})
    OBVIOUS
<1>15. p \in Nat /\ n + p <= top + 1
  <2>1. CASE {b \in extra : InRegularBank(b)} = {}
    <3>1. {a.capacity : a \in {b \in extra : InRegularBank(b)}} = {}
      BY <2>1
    <3>2. p = 0
      BY <1>13, <3>1, SumOfOne
    <3>3. n \in Nat /\ n <= top - zero + 1
      BY <1>11 DEF Within
    <3> QED
      BY <1>9, <3>2, <3>3
  <2>2. CASE {b \in extra : InRegularBank(b)} # {}
    <3>1. PICK a : extra = {a} /\ Beside(layout, a) /\ InRegularBank(a)
      BY <2>2
    <3>2. {c.capacity : c \in {b \in extra : InRegularBank(b)}} = {a.capacity}
      BY <3>1
    <3>3. a \in Allocation /\ WellPlaced(a) /\ a.capacity \in Nat
      BY <3>1 DEF Beside, Allocation
    <3>4. p = a.capacity
      BY <1>13, <3>2, <3>3, SumOfOne
    <3>5. Cells(a) \subseteq zero .. top
      BY <1>9, <3>1, <3>3, CellsOfRegion
    <3>6. \A id \in T : ~ Overlap(a, layout[id])
      BY <1>5, <3>1 DEF Beside
    <3> QED
      BY <1>9, <1>11, <3>3, <3>4, <3>5, <3>6 DEF Within
  <2> QED
    BY <2>1, <2>2
<1>16. q \in Nat /\ m + q <= high - low + 1
  <2>1. CASE {b \in extra : OrdinaryInSmall(b)} = {}
    <3>1. {a.capacity : a \in {b \in extra : OrdinaryInSmall(b)}} = {}
      BY <2>1
    <3>2. q = 0
      BY <1>14, <3>1, SumOfOne
    <3>3. m \in Nat /\ m <= high - low + 1
      BY <1>12 DEF Within
    <3> QED
      BY <1>10, <3>2, <3>3
  <2>2. CASE {b \in extra : OrdinaryInSmall(b)} # {}
    <3>1. PICK a : extra = {a} /\ Beside(layout, a) /\ OrdinaryInSmall(a)
      BY <2>2
    <3>2. {c.capacity : c \in {b \in extra : OrdinaryInSmall(b)}} = {a.capacity}
      BY <3>1
    <3>3. a \in Allocation /\ WellPlaced(a) /\ a.capacity \in Nat
      BY <3>1 DEF Beside, Allocation
    <3>4. q = a.capacity
      BY <1>14, <3>2, <3>3, SumOfOne
    <3>5. Cells(a) \subseteq low .. high
      BY <1>10, <3>1, <3>3, CellsOfRegion
    <3>6. \A id \in U : ~ Overlap(a, layout[id])
      BY <1>6, <3>1 DEF Beside
    <3> QED
      BY <1>10, <1>12, <3>3, <3>4, <3>5, <3>6 DEF Within
  <2> QED
    BY <2>1, <2>2
<1>17. Usage(layout, extra) = [regular |-> n + p, small |-> ModTableLines + m + q]
    BY <1>3, <1>4, <1>13, <1>14 DEF Usage
<1>18. n + p \in Nat /\ n + p <= RegularBankCount * 1024
    BY <1>1, <1>9, <1>11, <1>15 DEF Within
<1>19. ModTableLines + m + q \in Nat /\ ModTableLines + m + q <= SmallLines
    BY <1>1, <1>10, <1>12, <1>16 DEF SmallLines, Within
<1> QED
    BY <1>17, <1>18, <1>19 DEF RegularLines

\* The figures that are bounded, and by what.
Figures == {"regular", "small"}
Limits == [regular |-> RegularBankCount * RegularLines, small |-> SmallLines]

\* The peaks are numbers within the hardware and cover what is resident.
PInv ==
    /\ IInv
    /\ peak \in [Figures -> Nat]
    /\ \A figure \in Figures :
          Usage(objects, {})[figure] <= peak[figure] /\ peak[figure] <= Limits[figure]

\* Usage() counts within the limits.
WithinLimits(usage) ==
    \A figure \in Figures : usage[figure] \in Nat /\ usage[figure] <= Limits[figure]

LEMMA UsageWithin ==
    ASSUME NEW layout, Buildable(layout), NEW extra,
           extra = {} \/ \E a : extra = {a} /\ Beside(layout, a)
    PROVE  WithinLimits(Usage(layout, extra))
BY UsageBound DEF WithinLimits, Figures, Limits

\* Raised figures are above both.
LEMMA Raised ==
    ASSUME NEW old \in [Figures -> Nat], \A figure \in Figures : old[figure] <= Limits[figure],
           NEW usage, WithinLimits(usage)
    PROVE  /\ Raise(old, usage) \in [Figures -> Nat]
           /\ \A figure \in Figures :
                 /\ Raise(old, usage)[figure] <= Limits[figure]
                 /\ old[figure] <= Raise(old, usage)[figure]
                 /\ usage[figure] <= Raise(old, usage)[figure]
<1>1. DOMAIN old = Figures /\ \A figure \in Figures : old[figure] \in Nat /\ usage[figure] \in Nat
    BY DEF WithinLimits
<1>2. Raise(old, usage) = [figure \in Figures |-> Larger(old[figure], usage[figure])]
    BY <1>1 DEF Raise
<1>3. \A figure \in Figures :
          /\ Larger(old[figure], usage[figure]) \in Nat
          /\ Larger(old[figure], usage[figure]) <= Limits[figure]
          /\ old[figure] <= Larger(old[figure], usage[figure])
          /\ usage[figure] <= Larger(old[figure], usage[figure])
    BY <1>1 DEF WithinLimits, Larger
<1> QED
    BY <1>2, <1>3

\* What the inductive invariant says of the layout.
LEMMA IInvBuildable == IInv => Buildable(objects)
BY DEF IInv, TypeOK, PlacementSound, NoOverlap, Buildable

\* commit() raises the peaks to what it counts.
LEMMA CommitPeaks ==
    ASSUME PInv, IInv', NEW id \in Slots, NEW answer, NEW coexist \in BOOLEAN,
           GoodAnswer(id, answer), Commit(id, answer, coexist),
           coexist /\ answer.outcome = "ok"
           => \A other \in Residents(objects) : ~ Overlap(answer.region, objects[other])
    PROVE  PInv'
<1>1. CASE answer.outcome # "ok"
    BY <1>1 DEF Commit, vars, PInv
<1>2. CASE answer.outcome = "ok"
  <2>1. objects' = [objects EXCEPT ![id] = answer.region]
    BY <1>2 DEF Commit
  <2>3. Buildable(objects) /\ Buildable(objects')
    <3>1. Buildable(objects)
      BY IInvBuildable DEF PInv
    <3>2. Buildable(objects')
      BY DEF IInv, TypeOK, PlacementSound, NoOverlap, Buildable
    <3> QED
      BY <3>1, <3>2
  <2> DEFINE both == IF coexist THEN Raise(peak, Usage(objects, {answer.region})) ELSE peak
             now == Usage(objects', {})
  <2>4. both \in [Figures -> Nat] /\ \A figure \in Figures : both[figure] <= Limits[figure]
    <3>1. CASE ~ coexist
      BY <3>1 DEF PInv
    <3>2. CASE coexist
      <4>1. answer.region \in Allocation /\ WellPlaced(answer.region)
        BY <1>2 DEF GoodAnswer, Admissible
      <4>2. Beside(objects, answer.region)
        BY <1>2, <3>2, <4>1 DEF Beside
      <4>3. WithinLimits(Usage(objects, {answer.region}))
        BY <2>3, <4>2, UsageWithin
      <4>4. \A figure \in Figures : peak[figure] <= Limits[figure]
        BY DEF PInv
      <4> QED
        BY <3>2, <4>3, <4>4, Raised DEF PInv
    <3> QED
      BY <3>1, <3>2
  <2>5. WithinLimits(now)
    BY <2>3, UsageWithin
  <2>6. peak' = Raise(both, now)
    BY <1>2 DEF Commit
  <2> HIDE DEF both, now
  <2>7. /\ peak' \in [Figures -> Nat]
        /\ \A figure \in Figures : now[figure] <= peak'[figure] /\ peak'[figure] <= Limits[figure]
    BY <2>4, <2>5, <2>6, Raised
  <2> QED
    BY <2>7 DEF now, PInv
<1> QED
    BY <1>1, <1>2

\* The empty allocator, and then every operation.
LEMMA InitPeaks == Init => PInv
<1> SUFFICES ASSUME Init PROVE PInv
    OBVIOUS
<1>1. IInv
    BY InitSound
<1>2. WithinLimits(Usage(objects, {}))
    BY <1>1, IInvBuildable, UsageWithin
<1>3. peak = Usage(objects, {})
    BY DEF Init
<1>4. DOMAIN peak = Figures /\ peak = [figure \in Figures |-> peak[figure]]
    BY <1>3 DEF Usage, Figures
<1> QED
    BY <1>1, <1>2, <1>3, <1>4 DEF PInv, WithinLimits

LEMMA NextPeaks == PInv /\ [Next]_vars => PInv'
<1> SUFFICES ASSUME PInv, [Next]_vars PROVE PInv'
    OBVIOUS
<1>1. IInv /\ IInv'
    BY NextSound DEF PInv
<1>2. CASE \E id \in Slots, lines \in RequestLengths, mod \in {0, 1}, mask \in RequestMasks :
              Load(id, lines, mod, mask)
  <2>1. PICK id \in Slots, lines \in RequestLengths, mod \in {0, 1}, mask \in RequestMasks :
            Load(id, lines, mod, mask)
    BY <1>2
  <2>2. GoodAnswer(id, LoadRequest(objects, id, lines, mod, mask))
    BY <1>1, RequestAssumption, LoadSound
  <2> QED
    BY <1>1, <2>1, <2>2, CommitPeaks DEF Load
<1>3. CASE \E dst \in Slots, sources \in Operands, accumulate \in BOOLEAN :
              Arithmetic(dst, sources, accumulate)
  <2>1. PICK dst \in Slots, sources \in Operands, accumulate \in BOOLEAN :
            Arithmetic(dst, sources, accumulate)
    BY <1>3
  <2>2. sources \in Seq(Slots) /\ sources # << >>
    <3>1. CASE \E a \in Slots : sources = <<a>>
      BY <3>1
    <3>2. CASE \E a, b \in Slots : sources = <<a, b>>
      BY <3>2
    <3> QED
      BY <3>1, <3>2 DEF Operands
  <2>3. accumulate /\ ArithmeticRequest(objects, dst, sources, accumulate).outcome = "ok"
        => \A other \in Residents(objects) :
              ~ Overlap(ArithmeticRequest(objects, dst, sources, accumulate).region, objects[other])
    BY <1>1, <2>2, AccumulationBuffered
  <2>4. GoodAnswer(dst, ArithmeticRequest(objects, dst, sources, accumulate))
    BY <1>1, <2>2, ArithmeticSound
  <2> QED
    BY <1>1, <2>1, <2>3, <2>4, CommitPeaks DEF Arithmetic
<1>4. CASE \E data \in Slots : Ntt(data)
  <2>1. PICK data \in Slots : Ntt(data)
    BY <1>4
  <2>2. NttRequest(objects, data).outcome = "ok" =>
           \A other \in Residents(objects) :
              ~ Overlap(NttRequest(objects, data).region, objects[other])
    BY <1>1, <2>1, NttBuffered
  <2> QED
    BY <1>1, <2>1, <2>2, NttSound, CommitPeaks DEF Ntt
<1>5. CASE \E dst, lhs, parameters \in Slots : OnlineMultiply(dst, lhs, parameters)
    BY <1>1, <1>5, OnlineMultiplySound, CommitPeaks DEF OnlineMultiply
<1>6. CASE \E id \in Slots : Release(id)
  <2>1. PICK id \in Slots : Release(id)
    BY <1>6
  <2>2. CASE objects[id] = None
    BY <1>1, <2>1, <2>2 DEF Release, vars, PInv
  <2>3. CASE objects[id] # None
    <3>1. peak' = Raise(peak, Usage(objects', {}))
      BY <2>1, <2>3 DEF Release
    <3>2. Buildable(objects')
      BY <1>1 DEF IInv, TypeOK, PlacementSound, NoOverlap, Buildable
    <3>3. WithinLimits(Usage(objects', {}))
      BY <3>2, UsageWithin
    <3>4. peak \in [Figures -> Nat] /\ \A figure \in Figures : peak[figure] <= Limits[figure]
      BY DEF PInv
    <3>5. PICK now : now = Usage(objects', {})
      OBVIOUS
    <3>6. /\ peak' \in [Figures -> Nat]
          /\ \A figure \in Figures : now[figure] <= peak'[figure] /\ peak'[figure] <= Limits[figure]
      BY <3>1, <3>3, <3>4, <3>5, Raised
    <3> QED
      BY <1>1, <3>5, <3>6 DEF PInv
  <2> QED
    BY <2>2, <2>3
<1>7. CASE UNCHANGED vars
    BY <1>1, <1>7 DEF vars, PInv
<1> QED
    BY <1>2, <1>3, <1>4, <1>5, <1>6, <1>7 DEF Next

\* Whatever the history, the peaks that are reported cover what is resident and never
\* exceed the hardware, although the operations that keep their old region and their
\* new one at once are counted with both.
THEOREM Peaks == Spec => []PeaksWithinHardware
<1>1. PInv => PeaksWithinHardware
    BY DEF PInv, IInv, TypeOK, PeaksWithinHardware, Figures, Limits
<1> QED
    BY <1>1, InitPeaks, NextPeaks, PTL DEF Spec

=============================================================================
