----------------------------- MODULE BankLayout -----------------------------
(***************************************************************************)
(* The placement rules of hpu::runtime::BankAllocator, the compile-time    *)
(* mirror of the physical on-chip memory.  Up to 64 logical objects        *)
(* (slots) hold regions of six independently allocated banks: banks 0..4   *)
(* have 1024 lines each and hand out aligned power-of-two intervals, bank  *)
(* 5 has 32 lines of which the first mod_table_lines are permanently       *)
(* reserved for one modulus table.                                         *)
(*                                                                         *)
(* Every request is a function of a LAYOUT (an allocation or None for each *)
(* slot), as in the C++ where the allocator is a value that the compiler   *)
(* copies to probe a placement.  A request has three outcomes: "ok",       *)
(* "invalid" (std::invalid_argument) and "full" (BankAllocationError).     *)
(* BankAllocator is the state machine over these rules.                    *)
(***************************************************************************)
EXTENDS Integers, Sequences, FiniteSets, FiniteSetsExt

CONSTANTS
    Slots,             \* the logical object IDs in use, among 0..63
    RegularBankCount,  \* options.regular_bank_count
    ModTableLines,     \* options.mod_table_lines
    None               \* std::nullopt

\* The constructor's check of its options.
ASSUME OptionsAssumption ==
    /\ RegularBankCount \in 1 .. 5
    /\ ModTableLines \in 1 .. 16

ASSUME SlotsAssumption == Slots \subseteq 0 .. 63

RegularLines == 1024       \* options.regular_bank_lines, fixed by the check
Granule      == 128        \* options.allocation_granule_lines
SmallLines   == 32         \* options.small_bank_lines
SmallBank    == 5
RegularBanks == 0 .. 4     \* the preference domain, whatever RegularBankCount

Allocation == [bank : 0 .. 5, base : 0 .. RegularLines,
               capacity : 1 .. RegularLines, lines : 1 .. RegularLines,
               type : {0, 1}]
Layout == [Slots -> Allocation \cup {None}]

-----------------------------------------------------------------------------
(* find(): where an object of a given length goes in a layout.             *)

Intersects(base, capacity, a) ==
    /\ base < a.base + a.capacity
    /\ a.base < base + capacity

\* Mutant: only the first line of the interval is looked at.
FitsFirstLine(layout, bank, base, capacity) ==
    \A id \in Slots : \/ layout[id] = None
                      \/ layout[id].bank # bank
                      \/ ~ Intersects(base, 1, layout[id])

Fits(layout, bank, base, capacity) ==
    \A id \in Slots : \/ layout[id] = None
                      \/ layout[id].bank # bank
                      \/ ~ Intersects(base, capacity, layout[id])

\* The smallest power-of-two number of granules holding the object.
RegularCapacity(lines) ==
    IF lines <= 128 THEN 128 ELSE IF lines <= 256 THEN 256
                    ELSE IF lines <= 512 THEN 512 ELSE 1024

\* Aligned interval starts of a regular bank.
RegularBases(capacity) ==
    {base \in {Granule * k : k \in 0 .. 7} :
        base % capacity = 0 /\ base + capacity <= RegularLines}

\* Ordinary objects in bank 5 start on even lines behind the reserved area.
FirstOrdinaryLine == IF ModTableLines % 2 = 0 THEN ModTableLines
                                              ELSE ModTableLines + 1

\* Mutant: the first line behind the reserved area is not rounded to an even one.
SmallBasesUnrounded(lines) ==
    {base \in ModTableLines .. SmallLines :
        (base - ModTableLines) % 2 = 0 /\ lines <= SmallLines - base}

SmallBases(lines) ==
    {base \in FirstOrdinaryLine .. SmallLines :
        base % 2 = 0 /\ lines <= SmallLines - base}

Smallest(S) == CHOOSE n \in S : \A m \in S : n <= m

FreeSmallBases(layout, lines) ==
    {base \in SmallBases(lines) : Fits(layout, SmallBank, base, lines)}

FreeRegularBases(layout, bank, lines) ==
    {base \in RegularBases(RegularCapacity(lines)) :
        Fits(layout, bank, base, RegularCapacity(lines))}

\* Mutant: without the check that the capacity reaches the length.
BanksWithRoomForAnything(layout, lines, allowed) ==
    {bank \in allowed \cap RegularBanks :
        /\ bank < RegularBankCount
        /\ FreeRegularBases(layout, bank, lines) # {}}

BanksWithRoom(layout, lines, allowed) ==
    {bank \in allowed \cap RegularBanks :
        /\ bank < RegularBankCount
        /\ lines <= RegularLines
        /\ FreeRegularBases(layout, bank, lines) # {}}

\* Cheapest reads first, ties by distance from the preferred bank: the loop
\* over k = 0..4 replaces its best candidate only by a strictly cheaper one.
Key(bank, preference, cost) == 5 * cost[bank] + ((bank + 5 - preference) % 5)

BestBank(banks, preference, cost) ==
    CHOOSE b \in banks : \A c \in banks :
        Key(b, preference, cost) <= Key(c, preference, cost)

Region(bank, base, capacity, lines, type) ==
    [bank |-> bank, base |-> base, capacity |-> capacity,
     lines |-> lines, type |-> type]

Placed(region) == [outcome |-> "ok", region |-> region]
Refused(why)   == [outcome |-> why, region |-> None]

FindTable(layout, lines, allowed) ==
    IF SmallBank \in allowed /\ lines > ModTableLines THEN Refused("invalid")
    ELSE IF SmallBank \in allowed /\ Fits(layout, SmallBank, 0, ModTableLines)
         THEN Placed(Region(SmallBank, 0, ModTableLines, lines, 1))
         ELSE Refused("full")

FindOrdinary(layout, lines, allowed, preference, cost) ==
    LET rooms == BanksWithRoom(layout, lines, allowed)
        bank  == BestBank(rooms, preference, cost)
    IN  IF SmallBank \in allowed /\ FreeSmallBases(layout, lines) # {}
        THEN Placed(Region(SmallBank, Smallest(FreeSmallBases(layout, lines)),
                           lines, lines, 0))
        ELSE IF rooms # {}
        THEN Placed(Region(bank, Smallest(FreeRegularBases(layout, bank, lines)),
                           RegularCapacity(lines), lines, 0))
        ELSE Refused("full")

Find(layout, lines, type, allowed, preference, cost) ==
    IF lines = 0 THEN Refused("invalid")
    ELSE IF type = 1 THEN FindTable(layout, lines, allowed)
    ELSE FindOrdinary(layout, lines, allowed, preference, cost)

-----------------------------------------------------------------------------
(* The requests: what each operation decides in a layout.                  *)

NoCost == [bank \in RegularBanks |-> 0]
Without(layout, id) == [layout EXCEPT ![id] = None]

\* Mutant: the replaced object still blocks the search.
LoadRequestBesideOld(layout, id, lines, mod, mask) ==
    IF mod = 1 /\ mask \notin {{}, {SmallBank}} THEN Refused("invalid")
    ELSE Find(layout, lines, mod,
              IF mask # {} THEN mask
              ELSE IF mod = 1 THEN {SmallBank} ELSE RegularBanks,
              id % 5, NoCost)

LoadRequest(layout, id, lines, mod, mask) ==
    IF mod = 1 /\ mask \notin {{}, {SmallBank}} THEN Refused("invalid")
    ELSE Find(Without(layout, id), lines, mod,
              IF mask # {} THEN mask
              ELSE IF mod = 1 THEN {SmallBank} ELSE RegularBanks,
              id % 5, NoCost)

\* Sustained read streams per bank; sources is a sequence of slots.
ReadCost(layout, sources) ==
    [bank \in RegularBanks |->
        Cardinality({k \in DOMAIN sources : layout[sources[k]].bank = bank})]

ArithmeticInvalid(layout, dst, sources, accumulate) ==
    \/ \E k \in DOMAIN sources : layout[sources[k]] = None
    \/ \E k \in DOMAIN sources :
          \/ layout[sources[k]].type = 1
          \/ layout[sources[k]].lines # layout[sources[1]].lines
    \/ IF accumulate
       THEN \/ layout[dst] = None
            \/ layout[dst].type = 1
            \/ layout[dst].lines # layout[sources[1]].lines
       ELSE /\ layout[dst] # None
            /\ \/ layout[dst].type = 1
               \/ /\ layout[dst].lines # layout[sources[1]].lines
                  /\ \E k \in DOMAIN sources : sources[k] = dst

\* A PMAC reserves its result beside the old accumulator, which it also reads;
\* any other destination of the same length is overwritten where it is.
ArithmeticRequest(layout, dst, sources, accumulate) ==
    IF ArithmeticInvalid(layout, dst, sources, accumulate) THEN Refused("invalid")
    ELSE LET lines == layout[sources[1]].lines
         IN  IF accumulate
             THEN Find(layout, lines, 0, RegularBanks, (layout[dst].bank + 1) % 5,
                       ReadCost(layout, Append(sources, dst)))
             ELSE IF layout[dst] # None /\ layout[dst].lines = lines
             THEN Placed(layout[dst])
             ELSE Find(Without(layout, dst), lines, 0, RegularBanks, dst % 5,
                       ReadCost(layout, sources))

\* Mutant: the input bank is not excluded.
NttRequestAnyBank(layout, data) ==
    IF layout[data] = None \/ layout[data].type = 1 THEN Refused("invalid")
    ELSE LET old == layout[data]
         IN  Find(layout, old.lines, 0, RegularBanks,
                  IF old.bank = SmallBank THEN 0 ELSE (old.bank + 1) % 5, NoCost)

\* A transform stage reads its input while it writes elsewhere: the result
\* region is found beside the input and outside the input's regular bank.
NttRequest(layout, data) ==
    IF layout[data] = None \/ layout[data].type = 1 THEN Refused("invalid")
    ELSE LET old == layout[data]
         IN  Find(layout, old.lines, 0, RegularBanks \ {old.bank},
                  IF old.bank = SmallBank THEN 0 ELSE (old.bank + 1) % 5, NoCost)

OnlineMultiplyInvalid(layout, dst, lhs, parameters) ==
    \/ parameters \in {lhs, dst}
    \/ layout[lhs] = None
    \/ layout[parameters] = None
    \/ layout[lhs].lines \notin {2^k : k \in 1 .. 10}
    \/ layout[lhs].type = 1
    \/ layout[parameters].type = 1
    \/ layout[parameters].lines # 2

OnlineMultiplyRequest(layout, dst, lhs, parameters) ==
    IF OnlineMultiplyInvalid(layout, dst, lhs, parameters) THEN Refused("invalid")
    ELSE ArithmeticRequest(layout, dst, <<lhs>>, FALSE)

-----------------------------------------------------------------------------
(* account(): what a layout occupies.                                      *)

Residents(layout) == {id \in Slots : layout[id] # None}

Lines(layout, Counted(_)) ==
    MapThenSumSet(LAMBDA id : layout[id].capacity,
                  {id \in Residents(layout) : Counted(layout[id])})

InRegularBank(a)   == a.bank # SmallBank
OrdinaryInSmall(a) == a.bank = SmallBank /\ a.type # 1

\* The line figures of stats_ (its counts of objects and banks are left out);
\* extra holds the second region of an operation that keeps its old and its
\* new region at once.
Usage(layout, extra) ==
    [regular |-> Lines(layout, InRegularBank)
                 + SumSet({a.capacity : a \in {b \in extra : InRegularBank(b)}}),
     small   |-> ModTableLines + Lines(layout, OrdinaryInSmall)
                 + SumSet({a.capacity : a \in {b \in extra : OrdinaryInSmall(b)}})]

Larger(m, n) == IF m >= n THEN m ELSE n
Raise(peak, usage) == [figure \in DOMAIN peak |-> Larger(peak[figure], usage[figure])]

\* A region that respects the geometry of the bank it lies in: in a regular bank
\* an aligned interval, the smallest power of two of granules for its object;
\* in bank 5 the reserved area for a table, and for any other object just its
\* lines, from an even line.
WellPlaced(a) ==
    \/ /\ a.bank = SmallBank
       /\ a.type = 1
       /\ a.base = 0
       /\ a.capacity = ModTableLines
       /\ a.lines <= ModTableLines
    \/ /\ a.bank = SmallBank
       /\ a.type = 0
       /\ a.base >= ModTableLines
       /\ a.base % 2 = 0
       /\ a.base + a.capacity <= SmallLines
       /\ a.capacity = a.lines
    \/ /\ a.bank < RegularBankCount
       /\ a.type = 0
       /\ a.capacity \in {128, 256, 512, 1024}
       /\ a.base % a.capacity = 0
       /\ a.base + a.capacity <= RegularLines
       /\ a.lines <= a.capacity
       /\ a.capacity > Granule => a.capacity < 2 * a.lines

Overlap(a, b) == a.bank = b.bank /\ Intersects(a.base, a.capacity, b)

EmptyLayout == [id \in Slots |-> None]

=============================================================================
