---------------------------- MODULE BankAllocator ----------------------------
(***************************************************************************)
(* hpu::runtime::BankAllocator as a state machine: one action per          *)
(* operation, over the placement rules of BankLayout.                      *)
(***************************************************************************)
EXTENDS BankLayout

CONSTANTS
    RequestLengths,    \* lengths of the loads that are tried
    RequestMasks       \* bank masks of the loads that are tried, as sets of banks

ASSUME RequestAssumption ==
    /\ RequestLengths \subseteq Nat
    /\ RequestMasks \subseteq SUBSET (0 .. 5)

VARIABLES
    objects,    \* objects_
    peak        \* peak_regular_lines and peak_small_lines of stats_

vars == <<objects, peak>>

Init ==
    /\ objects = EmptyLayout
    /\ peak = Usage(EmptyLayout, {})

\* Mutant: only the double-buffered operations reach account().
CommitWithoutAccount(id, answer, coexist) ==
    IF answer.outcome = "ok"
    THEN /\ objects' = [objects EXCEPT ![id] = answer.region]
         /\ peak' = IF coexist
                    THEN Raise(peak, Usage(objects, {answer.region}))
                    ELSE peak
    ELSE UNCHANGED vars

\* commit(): a refused request leaves the object and the figures as they were.
Commit(id, answer, coexist) ==
    IF answer.outcome = "ok"
    THEN /\ objects' = [objects EXCEPT ![id] = answer.region]
         /\ peak' = Raise(IF coexist
                          THEN Raise(peak, Usage(objects, {answer.region}))
                          ELSE peak,
                          Usage(objects', {}))
    ELSE UNCHANGED vars

Load(id, lines, mod, mask) ==
    Commit(id, LoadRequest(objects, id, lines, mod, mask), FALSE)

Arithmetic(dst, sources, accumulate) ==
    Commit(dst, ArithmeticRequest(objects, dst, sources, accumulate), accumulate)

Ntt(data) == Commit(data, NttRequest(objects, data), TRUE)

OnlineMultiply(dst, lhs, parameters) ==
    Commit(dst, OnlineMultiplyRequest(objects, dst, lhs, parameters), FALSE)

Release(id) ==
    IF objects[id] = None
    THEN UNCHANGED vars
    ELSE /\ objects' = Without(objects, id)
         /\ peak' = Raise(peak, Usage(objects', {}))

Operands == {<<a>> : a \in Slots} \cup {<<a, b>> : a, b \in Slots}

Next ==
    \/ \E id \in Slots, lines \in RequestLengths, mod \in {0, 1}, mask \in RequestMasks :
          Load(id, lines, mod, mask)
    \/ \E dst \in Slots, sources \in Operands, accumulate \in BOOLEAN :
          Arithmetic(dst, sources, accumulate)
    \/ \E data \in Slots : Ntt(data)
    \/ \E dst, lhs, parameters \in Slots : OnlineMultiply(dst, lhs, parameters)
    \/ \E id \in Slots : Release(id)

Spec == Init /\ [][Next]_vars

-----------------------------------------------------------------------------
(* Properties.                                                             *)

\* Every call leaves an allocation within the banks, or nothing, in each slot.
TypeOK ==
    /\ objects \in Layout
    /\ DOMAIN peak = {"regular", "small"}

\* Every resident region stays inside its own enabled bank, aligned to its size
\* and no larger than its object needs, or on an even line of bank 5; an ordinary
\* object never enters the lines reserved for the modulus table (also while no
\* table is resident), and the table never leaves them: the layout that load,
\* arithmetic, ntt and online_multiply commit is one the hardware can build.
PlacementSound == \A id \in Residents(objects) : WellPlaced(objects[id])

\* No two resident objects share a line, through any sequence of loads,
\* replacements, in-place arithmetic, moves of ntt and PMAC and releases.
NoOverlap ==
    \A i, j \in Residents(objects) : i # j => ~ Overlap(objects[i], objects[j])

\* The peaks reported to the resource report cover what is resident now and
\* never exceed the hardware, although PMAC and NTT steps count the old and
\* the new region of an object at once.
PeaksWithinHardware ==
    /\ \A figure \in DOMAIN peak : Usage(objects, {})[figure] <= peak[figure]
    /\ peak.regular <= RegularBankCount * RegularLines
    /\ peak.small <= SmallLines

\* A transform stage or a PMAC writes where nothing that was resident lies, its
\* own input included, and a stage never writes the regular bank it reads: the
\* hardware streams old and new region at the same time.
DoubleBuffered ==
    [][\A id \in Slots : objects'[id] \notin {None, objects[id]} =>
         /\ (\E other \in Residents(objects) : Overlap(objects'[id], objects[other])) =>
               ~ Ntt(id) /\ \A sources \in Operands : ~ Arithmetic(id, sources, TRUE)
         /\ id \in Residents(objects) /\ objects'[id].bank = objects[id].bank => ~ Ntt(id)]_vars

\* A block, of as many lines as its size, or a line of bank 5 that is held by one
\* of the objects that stay.
BlockHeld(staying, bank, size, block) ==
    \E other \in staying :
       /\ objects[other].bank = bank
       /\ block \in (objects[other].base \div size) ..
                      ((objects[other].base + objects[other].capacity - 1) \div size)
SmallLineHeld(staying, line) ==
    \E other \in staying :
       /\ objects[other].bank = SmallBank
       /\ line \in objects[other].base .. objects[other].base + objects[other].capacity - 1

\* There is no room for an ordinary object of some length beside those that stay:
\* in each enabled regular bank every aligned block of the size it needs is held
\* at least in part, and so is, in bank 5, every interval from an even line
\* behind the reserved area.
NoRoom(staying, lines, banks) ==
    /\ lines <= RegularLines =>
          \A bank \in banks \ {SmallBank} : bank < RegularBankCount =>
             \A block \in 0 .. (RegularLines \div RegularCapacity(lines)) - 1 :
                BlockHeld(staying, bank, RegularCapacity(lines), block)
    /\ SmallBank \in banks =>
          \A base \in ModTableLines .. SmallLines - lines : base % 2 = 0 =>
             \E line \in base .. base + lines - 1 : SmallLineHeld(staying, line)

\* Whatever would be refused as full has no room: a load or the result of an
\* arithmetic instruction none beside the objects other than the one it replaces,
\* a PMAC and a transform stage none beside all of them, a stage outside the bank
\* it reads; and a table is refused only beside another table.  Releasing what is
\* replaced is always taken into account, and fragmentation is the only excuse.
RefusalIsJustified ==
    /\ \A id \in Slots, lines \in RequestLengths, mask \in RequestMasks :
          /\ LoadRequest(objects, id, lines, 0, mask).outcome = "full" =>
                NoRoom(Residents(objects) \ {id}, lines, IF mask = {} THEN RegularBanks ELSE mask)
          /\ LoadRequest(objects, id, lines, 1, mask).outcome = "full" =>
                \E other \in Residents(objects) \ {id} : objects[other].type = 1
    /\ \A dst \in Slots, sources \in Operands :
          /\ ArithmeticRequest(objects, dst, sources, FALSE).outcome = "full" =>
                NoRoom(Residents(objects) \ {dst}, objects[sources[1]].lines, RegularBanks)
          /\ ArithmeticRequest(objects, dst, sources, TRUE).outcome = "full" =>
                NoRoom(Residents(objects), objects[sources[1]].lines, RegularBanks)
    /\ \A data \in Slots : NttRequest(objects, data).outcome = "full" =>
          NoRoom(Residents(objects), objects[data].lines, RegularBanks \ {objects[data].bank})
    /\ \A dst, lhs, parameters \in Slots :
          OnlineMultiplyRequest(objects, dst, lhs, parameters).outcome = "full" =>
             NoRoom(Residents(objects) \ {dst}, objects[lhs].lines, RegularBanks)

=============================================================================
