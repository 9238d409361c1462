------------------------------ MODULE Scheduler ------------------------------
(***************************************************************************)
(* The Scheduler of hpu/compiler/resource_ir.cpp: it turns a               *)
(* VirtualProgram, whose objects are unlimited, into the instructions of a *)
(* machine with a few slots and banks, inserting loads, spills, frees and  *)
(* the saving of values whose memory is about to be overwritten.           *)
(*                                                                         *)
(* The machine is part of the model: every instruction that the Scheduler  *)
(* emits takes effect at once on regs (the contents of the slots), ddr and *)
(* context.  The C++ functions are loops; one step here is one turn of     *)
(* such a loop (one eviction, one placement) or the final effect of the    *)
(* current instruction.  The Scheduler is correct if what it emits does    *)
(* what VirtualMachine does.                                               *)
(***************************************************************************)
EXTENDS BankLayout, VirtualProgram

CONSTANTS
    Objects,       \* ObjectIds of program.objects
    Shape,         \* VirtualObject: [lines, type, mask], and its width in cells
    Programs,      \* suites: a mode and the instruction lists considered in it
    ImageCells,    \* the cells of the memory image
    ReadOnly       \* those of read-only buffers

ASSUME ShapeAssumption ==
    /\ Objects \subseteq Nat \ {0}
    /\ Shape \in [Objects -> [lines : 1 .. RegularLines, type : {0, 1},
                              mask : SUBSET (0 .. 5), width : Nat \ {0}]]

ASSUME NoneAssumption == None \notin Slots \cup Objects \cup Allocation

\* Spill buffers are no part of the image.
ASSUME CellsAssumption == \A cell \in ImageCells, o \in Objects : cell[1] # -o

ASSUME ModeAssumption == \A suite \in Programs : suite.automatic \in BOOLEAN

\* Consecutive lines of one buffer.
Views == {range \in Seq(ImageCells) : \A j, k \in DOMAIN range : range[j] = range[k] => j = k}

\* The instructions of imported programs.  Transfers are as long as their
\* object; a result is as long as the first source.  Tables are loaded from
\* read-only memory and never an operand: nothing keeps their memory as it is.
VirtualInstructions ==
    {i \in [op : {"load", "store", "arith", "mac", "stage", "online", "modld", "free", "sync"},
            sources : Seq(Objects), def : Objects \cup {None}, range : Views,
            required : BOOLEAN, retained : BOOLEAN, release : BOOLEAN] :
        /\ (i.op = "load" \/ IsKernel(i)) = (i.def # None)
        /\ i.op \in {"store", "free"} \/ IsKernel(i) => i.sources # << >>
        /\ i.op = "load" => Len(i.range) = Shape[i.def].width
        /\ i.op = "store" => Len(i.range) = Shape[i.sources[1]].width
        /\ i.op = "online" => Len(i.sources) = 2
        /\ i.op \in {"arith", "online"} => Shape[i.def].lines = Shape[i.sources[1]].lines
        /\ IsKernel(i) => Shape[i.def].type = 0
        /\ i.retained => i.op = "load" /\ Shape[i.def].type = 0
        /\ i.op = "store" => \A k \in DOMAIN i.range : i.range[k] \notin ReadOnly
        /\ i.op = "load" /\ Shape[i.def].type = 1 => \A k \in DOMAIN i.range : i.range[k] \in ReadOnly
        /\ \A o \in Uses(i) : i.op # "free" => Shape[o].type = 0}

ASSUME ProgramsAssumption == \A suite \in Programs : suite.codes \subseteq Seq(VirtualInstructions)

\* Each load of read-only memory makes an object of its own: only reloads of
\* stored objects may share one with a definition before them.
ASSUME ReferencesAssumption ==
    \A suite \in Programs : \A list \in suite.codes : \A q \in DOMAIN list :
        /\ list[q].op = "load" /\ ~ list[q].retained
        /\ \A k \in DOMAIN list[q].range : list[q].range[k] \in ReadOnly
        => \A p \in 1 .. q - 1 : list[p].def # list[q].def

VARIABLES
    code,          \* program_.instructions
    automatic,     \* automatic_: options.automatic_lifetimes
    cursor,        \* cursor_
    slot,          \* State::slot of each object
    home,          \* State::home
    dirty,         \* State::dirty
    initialized,   \* State::initialized
    modulus,       \* modulus_
    layout,        \* allocator_
    loading,       \* load() has recorded its definition and is placing it
    regs,          \* machine: the contents of each slot
    ddr,           \* machine: the contents of image and spill cells
    context,       \* machine: the modulus context
    status         \* "running", "done" or the exception that ended run()

vars == <<code, automatic, cursor, slot, home, dirty, initialized, modulus, layout,
          loading, regs, ddr, context, status>>

-----------------------------------------------------------------------------
(* Future uses and the current instruction.                                *)

Current == code[cursor]
Never   == Len(code) + 1     \* kNoUse: later than every instruction

\* UseIndex::next once the current instruction has been consumed.
NextUse(o) ==
    IF UsedFrom(code, o, cursor + 1)
    THEN Smallest(UsePositions(code, o, cursor + 1)) ELSE Never

Operands == Uses(Current) \cup (IF Current.def = None THEN {} ELSE {Current.def})

Resident  == {o \in Objects : slot[o] # None}
OnChip(o) == slot[o] # None /\ layout[slot[o]] # None

FreeSlots == {s \in Slots : \A o \in Resident : slot[o] # s}

\* A modulus table takes p4 when it can, everything else the lowest free slot.
ChosenSlot(o) == IF Shape[o].type = 1 /\ 4 \in FreeSlots THEN 4 ELSE Smallest(FreeSlots)

\* Mutant: only the object being placed is protected.
ExcludedAlone(o) == {o}

\* excluded_: the operands of the instruction and the object being placed.
Excluded(o) == Operands \cup {o}

-----------------------------------------------------------------------------
(* Eviction.                                                               *)

SpillRange(o) == [k \in 1 .. Shape[o].width |-> <<-o, k>>]
SpillCells    == UNION {{<<-o, k>> : k \in 1 .. Shape[o].width} : o \in Objects}

\* Mutant: a dirty value is written back only when told to.
SpilledOnDemand(victims, preserve) == {o \in victims : dirty[o] /\ preserve}

\* evict() of a set of objects, one after the other.  A value that exists only
\* on chip and will be used is written to the object's own spill buffer.
Spilled(victims, preserve) ==
    {o \in victims : dirty[o] /\ (preserve \/ NextUse(o) # Never)}

Evict(victims, preserve) ==
    LET spilled == Spilled(victims, preserve)
        freed   == {slot[o] : o \in victims}
    IN  /\ slot' = [o \in Objects |-> IF o \in victims THEN None ELSE slot[o]]
        /\ layout' = [s \in Slots |-> IF s \in freed THEN None ELSE layout[s]]
        /\ regs' = [s \in Slots |-> IF s \in freed THEN None ELSE regs[s]]
        /\ home' = [o \in Objects |-> IF o \in spilled THEN SpillRange(o) ELSE home[o]]
        /\ dirty' = [o \in Objects |-> dirty[o] /\ o \notin spilled]
        /\ ddr' = [cell \in DOMAIN ddr |->
                      IF \E o \in spilled : cell[1] = -o
                      THEN regs[slot[-cell[1]]][cell[2]] ELSE ddr[cell]]
        /\ UNCHANGED <<code, automatic, cursor, initialized, modulus, loading, context, status>>

EvictionCost(o) ==
    IF NextUse(o) = Never THEN 0
    ELSE IF dirty[o] THEN 2 * Shape[o].lines ELSE Shape[o].lines

\* evict_one(): cheapest (in automatic mode), then farthest use, then lowest id.
Victims(o) ==
    {v \in Resident \ Excluded(o) : ~ (automatic /\ v = modulus)}

Preferable(v, w) ==
    \/ automatic /\ EvictionCost(v) < EvictionCost(w)
    \/ /\ automatic => EvictionCost(v) = EvictionCost(w)
       /\ \/ NextUse(v) > NextUse(w)
          \/ NextUse(v) = NextUse(w) /\ v < w

\* The victim evict_one() finds, if any.
Victim(o) == {v \in Victims(o) : \A w \in Victims(o) \ {v} : Preferable(v, w)}

\* allocate_physical() in automatic mode: the residents of each aligned
\* interval an object of that length could occupy, in the order of the loops.
Interval(bank, base, capacity) == [bank |-> bank, base |-> base, capacity |-> capacity]

\* Mutant: base + capacity < limit.
IntervalsBelowLimit(lines, allowed) ==
    {Interval(bank, base, RegularCapacity(lines)) :
        bank \in allowed \cap RegularBanks,
        base \in RegularBases(RegularCapacity(lines)) \ {RegularLines - RegularCapacity(lines)}}

Intervals(lines, allowed) ==
    {Interval(bank, base, RegularCapacity(lines)) :
        bank \in allowed \cap RegularBanks, base \in RegularBases(RegularCapacity(lines))}
    \cup
    (IF SmallBank \in allowed
     THEN {Interval(SmallBank, ModTableLines + 2 * k, lines) :
              k \in {n \in 0 .. SmallLines : ModTableLines + 2 * n + lines <= SmallLines}}
     ELSE {})

Occupants(interval) ==
    {o \in Resident :
        /\ layout[slot[o]] # None
        /\ layout[slot[o]].bank = interval.bank
        /\ Intersects(interval.base, interval.capacity, layout[slot[o]])}

Vacated(victims) == [s \in Slots |-> IF \E v \in victims : slot[v] = s THEN None ELSE layout[s]]

-----------------------------------------------------------------------------
(* The placement an instruction asks for: place_load() and kernel().       *)

LoadMask(o) == IF Shape[o].mask # {} THEN Shape[o].mask
               ELSE IF Shape[o].type = 1 THEN {SmallBank} ELSE RegularBanks

LoadAnswer(o, where) ==
    LoadRequest(where, slot[o], Shape[o].lines, Shape[o].type, Shape[o].mask)

\* Mutant: the slot of a source that is still needed.
TransferableAlive ==
    {k \in DOMAIN Current.sources :
        /\ Current.op = "online" => k = 1
        /\ Shape[Current.sources[k]].type # 1}

\* kernel() hands the slot of a source that dies here to a new destination.
Transferable ==
    {k \in DOMAIN Current.sources :
        /\ Current.op = "online" => k = 1
        /\ NextUse(Current.sources[k]) = Never
        /\ Shape[Current.sources[k]].type # 1}

Transfers ==
    /\ automatic
    /\ slot[Current.def] = None
    /\ Current.op \in {"arith", "online"}
    /\ Transferable # {}

Donor == Current.sources[Smallest(Transferable)]

DestinationSlot == IF Transfers THEN slot[Donor] ELSE slot[Current.def]

SourceSlots == [k \in DOMAIN Current.sources |-> slot[Current.sources[k]]]

KernelAnswer(where) ==
    CASE Current.op = "stage"  -> NttRequest(where, DestinationSlot)
      [] Current.op = "online" -> OnlineMultiplyRequest(where, DestinationSlot,
                                      SourceSlots[1], SourceSlots[2])
      [] OTHER -> ArithmeticRequest(where, DestinationSlot, SourceSlots,
                                    Current.op = "mac")

KernelBanks ==
    IF Current.op = "stage" THEN RegularBanks \ {layout[DestinationSlot].bank}
                            ELSE RegularBanks

-----------------------------------------------------------------------------
(* Which object must be on chip before the instruction can proceed.        *)

\* Mutant: only versions on chip are saved.
EndangeredOnChip(o) ==
    /\ automatic
    /\ o # Current.sources[1]
    /\ initialized[o] /\ OnChip(o)
    /\ home[o] # None
    /\ NextUse(o) # Never
    /\ \E j \in DOMAIN home[o], k \in DOMAIN Current.range : home[o][j] = Current.range[k]

\* store() saves every other version that lives in the lines it overwrites.
\* A store() in the encoded-import mode saves none.
Endangered(o) ==
    /\ automatic
    /\ o # Current.sources[1]
    /\ initialized[o]
    /\ home[o] # None
    /\ NextUse(o) # Never
    /\ \E j \in DOMAIN home[o], k \in DOMAIN Current.range : home[o][j] = Current.range[k]

ToFreeze == {o \in Objects : Endangered(o)}

\* ensure() calls in the order of the code, those already satisfied skipped.
KernelReads == IF Current.op = "mac" THEN Append(Current.sources, Current.def)
                                     ELSE Current.sources

FirstMissing(list) ==
    LET missing == {k \in DOMAIN list : ~ OnChip(list[k])}
    IN  IF missing = {} THEN None ELSE list[Smallest(missing)]

Target ==
    CASE IsKernel(Current) -> FirstMissing(KernelReads)
      [] Current.op = "store" /\ Current.required ->
            IF ToFreeze # {} THEN FirstMissing(<<Smallest(ToFreeze)>>)
                             ELSE FirstMissing(Current.sources)
      [] Current.op = "load" /\ (Current.retained \/ loading) ->
            FirstMissing(<<Current.def>>)
      [] Current.op = "modld" /\ modulus # None -> FirstMissing(<<modulus>>)
      [] OTHER -> None

Running == status = "running" /\ cursor <= Len(code)

\* The object to be placed next, if any.
ToPlace == IF Running THEN {Target} \ {None} ELSE {}

\* What is asked of the allocator for an object that has a slot: a place to load
\* it, or, once all that the instruction reads is on chip, one for its result.
Answer(o, where) == IF o = Target THEN LoadAnswer(o, where) ELSE KernelAnswer(where)
AllowedBanks(o)  == IF o = Target THEN LoadMask(o) ELSE KernelBanks

\* ensure() has no definition to reload the object from.
Unreloadable(o) == slot[o] = None /\ (~ initialized[o] \/ home[o] = None)

OtherTables(o) ==
    IF Shape[o].type = 1
    THEN {t \in Resident \ {o} : Shape[t].type = 1} ELSE {}

-----------------------------------------------------------------------------
(* allocate_physical() after a refused request.                            *)

\* An interval is a candidate if nothing pinned lies in it and clearing it lets
\* the request succeed.
Candidates(o) ==
    {i \in Intervals(Shape[o].lines, AllowedBanks(o)) :
        /\ Occupants(i) # {}
        /\ Occupants(i) \cap (Excluded(o) \cup {modulus}) = {}
        /\ Answer(o, Vacated(Occupants(i))).outcome # "full"}

ClearingCost(i)     == MapThenSumSet(EvictionCost, Occupants(i))
ClearingDistance(i) == Smallest({NextUse(o) : o \in Occupants(i)})

Cheaper(i, j) ==
    \/ ClearingCost(i) < ClearingCost(j)
    \/ /\ ClearingCost(i) = ClearingCost(j)
       /\ \/ ClearingDistance(i) > ClearingDistance(j)
          \/ /\ ClearingDistance(i) = ClearingDistance(j)
             /\ 1024 * i.bank + i.base < 1024 * j.bank + j.base

\* What one turn of the loop evicts for o: a set of objects, or nothing.
Clearing(o) ==
    IF automatic
    THEN LET candidates == Candidates(o)
         IN  {Occupants(i) : i \in
                {c \in candidates : \A d \in candidates \ {c} : Cheaper(c, d)}}
    ELSE {{v} : v \in Victim(o)}

-----------------------------------------------------------------------------
(* Actions that place an object.                                           *)

RaiseError(what) ==
    /\ status' = what
    /\ UNCHANGED <<code, automatic, cursor, slot, home, dirty, initialized, modulus, layout,
                   loading, regs, ddr, context>>

NoDefinition(o) ==
    /\ Unreloadable(o)
    /\ RaiseError("logic_error")

\* place_load(): the one modulus table on chip makes way for another.
EvictTable(o) ==
    /\ ~ Unreloadable(o)
    /\ OtherTables(o) # {}
    /\ Evict({Smallest(OtherTables(o))}, FALSE)

EvictForSlot(o) ==
    /\ ~ Unreloadable(o) /\ OtherTables(o) = {}
    /\ slot[o] = None /\ FreeSlots = {}
    /\ \E v \in Victim(o) : Evict({v}, FALSE)

TakeSlot(o) ==
    /\ ~ Unreloadable(o) /\ OtherTables(o) = {}
    /\ slot[o] = None /\ FreeSlots # {}
    /\ slot' = [slot EXCEPT ![o] = ChosenSlot(o)]
    /\ UNCHANGED <<code, automatic, cursor, home, dirty, initialized, modulus, layout, loading,
                   regs, ddr, context, status>>

\* The allocator refused: evict and ask again.
EvictForLoad(o) ==
    /\ OtherTables(o) = {} /\ slot[o] # None
    /\ LoadAnswer(o, layout).outcome = "full"
    /\ \E victims \in Clearing(o) : Evict(victims, FALSE)

\* The DLOAD of place_load()'s callers, from the recorded home.
Fill(o) ==
    LET answer == LoadAnswer(o, layout)
    IN  /\ OtherTables(o) = {} /\ slot[o] # None
        /\ answer.outcome = "ok"
        /\ layout' = [layout EXCEPT ![slot[o]] = answer.region]
        /\ regs' = [regs EXCEPT ![slot[o]] = Read(ddr, home[o])]
        /\ UNCHANGED <<code, automatic, cursor, slot, home, dirty, initialized, modulus, loading,
                       ddr, context, status>>

NoPlaceFor(o) ==
    /\ ~ Unreloadable(o) /\ OtherTables(o) = {}
    /\ IF slot[o] = None
       THEN FreeSlots = {} /\ Victims(o) = {}
       ELSE /\ LoadAnswer(o, layout).outcome = "full"
            /\ Clearing(o) = {}

\* store() may give up the stored object's own place to a version it must save.
Yields(o) == Current.op = "store" /\ o # Current.sources[1] /\ slot[Current.sources[1]] # None

YieldPlace(o) ==
    /\ NoPlaceFor(o) /\ Yields(o)
    /\ LET id == Current.sources[1]
       IN  /\ slot' = [slot EXCEPT ![o] = None, ![id] = None]
           /\ layout' = [layout EXCEPT ![slot[id]] = None]
           /\ regs' = [regs EXCEPT ![slot[id]] = None]
           /\ home' = [home EXCEPT ![id] = IF dirty[id] THEN SpillRange(id) ELSE @]
           /\ dirty' = [dirty EXCEPT ![id] = FALSE]
           /\ ddr' = IF dirty[id] THEN Written(ddr, SpillRange(id), regs[slot[id]]) ELSE ddr
    /\ UNCHANGED <<code, automatic, cursor, initialized, modulus, loading, context, status>>

CapacityError(o) ==
    /\ NoPlaceFor(o) /\ ~ Yields(o)
    /\ RaiseError("capacity")

InvalidLoad(o) ==
    /\ OtherTables(o) = {} /\ slot[o] # None
    /\ LoadAnswer(o, layout).outcome = "invalid"
    /\ RaiseError("invalid")

-----------------------------------------------------------------------------
(* Actions that complete an instruction.                                   *)

\* The end of the loop body of run(): in automatic mode operands without a
\* further use are freed.  where, what and contents are the slots, the layout
\* and the registers after the instruction's own effect.
Dead(where) ==
    {o \in Operands : /\ automatic
                      /\ o # modulus'
                      /\ NextUse(o) = Never
                      /\ where[o] # None}

\* Mutant: the allocator is not told.
CompleteUnreleased(freed, where, what, contents) ==
    LET gone  == freed \cup Dead(where)
        slots == {where[o] : o \in gone} \ {None}
    IN  /\ slot' = [o \in Objects |-> IF o \in gone THEN None ELSE where[o]]
        /\ layout' = what
        /\ regs' = [s \in Slots |-> IF s \in slots THEN None ELSE contents[s]]
        /\ cursor' = cursor + 1
        /\ UNCHANGED <<code, automatic, status>>

Complete(freed, where, what, contents) ==
    LET gone  == freed \cup Dead(where)
        slots == {where[o] : o \in gone} \ {None}
    IN  /\ slot' = [o \in Objects |-> IF o \in gone THEN None ELSE where[o]]
        /\ layout' = [s \in Slots |-> IF s \in slots THEN None ELSE what[s]]
        /\ regs' = [s \in Slots |-> IF s \in slots THEN None ELSE contents[s]]
        /\ cursor' = cursor + 1
        /\ UNCHANGED <<code, automatic, status>>

Executes(op) == Running /\ Current.op = op /\ Target = None

\* load(): the definition is recorded; an immutable input stays a reference.
Lazy == automatic /\ \A k \in DOMAIN Current.range : Current.range[k] \in ReadOnly

StartLoad ==
    LET id == Current.def
    IN  /\ Running /\ Current.op = "load" /\ ~ Current.retained /\ ~ loading
        /\ home' = [home EXCEPT ![id] = Current.range]
        /\ initialized' = [initialized EXCEPT ![id] = TRUE]
        /\ dirty' = [dirty EXCEPT ![id] = FALSE]
        /\ modulus' = IF Shape[id].type = 1 THEN id ELSE modulus
        /\ IF Lazy
           THEN Complete({}, slot, layout, regs) /\ UNCHANGED loading
           ELSE /\ loading' = TRUE
                /\ slot' = [slot EXCEPT ![id] = None]
                /\ layout' = [s \in Slots |-> IF s = slot[id] THEN None ELSE layout[s]]
                /\ regs' = [s \in Slots |-> IF s = slot[id] THEN None ELSE regs[s]]
                /\ UNCHANGED <<code, automatic, cursor, status>>
        /\ UNCHANGED <<ddr, context>>

\* The end of an eager load, and the reload of a retained object, whose store
\* was deferred: ensure() has found or made it resident.
EndLoad ==
    /\ Executes("load") /\ (loading \/ Current.retained)
    /\ loading' = FALSE
    /\ UNCHANGED <<modulus, home, initialized, dirty, ddr, context>>
    /\ Complete({}, slot, layout, regs)

\* store(): a version that lives in the lines about to be written, and is on
\* chip by now, loses its home and will be spilled if evicted.
Freeze ==
    LET o == Smallest(ToFreeze)
    IN  /\ Executes("store") /\ Current.required
        /\ ToFreeze # {}
        /\ dirty' = [dirty EXCEPT ![o] = TRUE]
        /\ home' = [home EXCEPT ![o] = None]
        /\ UNCHANGED <<code, automatic, cursor, slot, initialized, modulus, layout, loading,
                       regs, ddr, context, status>>

Store ==
    LET id == Current.sources[1]
        released == IF automatic THEN NextUse(id) = Never ELSE Current.release
    IN  /\ Executes("store") /\ Current.required
        /\ ToFreeze = {}
        /\ ddr' = Written(ddr, Current.range, regs[slot[id]])
        /\ home' = [home EXCEPT ![id] = Current.range]
        /\ dirty' = [dirty EXCEPT ![id] = FALSE]
        /\ UNCHANGED <<modulus, initialized, loading, context>>
        /\ Complete(IF released THEN {id} ELSE {}, slot, layout, regs)

\* Mutant: a deferred store leaves its object clean.
DeferStoreAsWritten ==
    /\ Executes("store") /\ ~ Current.required
    /\ dirty' = [dirty EXCEPT ![Current.sources[1]] = FALSE]
    /\ home' = [home EXCEPT ![Current.sources[1]] = Current.range]
    /\ UNCHANGED <<modulus, initialized, loading, ddr, context>>
    /\ Complete({}, slot, layout, regs)

\* A deferred scratch store emits nothing.
DeferStore ==
    /\ Executes("store") /\ ~ Current.required
    /\ UNCHANGED <<modulus, home, initialized, dirty, loading, ddr, context>>
    /\ Complete({}, slot, layout, regs)

Free ==
    LET o == Current.sources[1]
    IN  /\ Executes("free")
        /\ UNCHANGED <<modulus, home, initialized, dirty, loading, ddr, context>>
        /\ Complete(IF NextUse(o) = Never THEN {o} ELSE {}, slot, layout, regs)

LoadModulus ==
    /\ Executes("modld")
    /\ context' = IF modulus = None THEN context ELSE regs[slot[modulus]]
    /\ UNCHANGED <<modulus, home, initialized, dirty, loading, ddr>>
    /\ Complete({}, slot, layout, regs)

\* PSYNC only waits.
Sync ==
    /\ Executes("sync")
    /\ UNCHANGED <<modulus, home, initialized, dirty, loading, ddr, context>>
    /\ Complete({}, slot, layout, regs)

-----------------------------------------------------------------------------
(* kernel(): a destination slot, room for the result, the instruction.     *)

KernelReady == Running /\ IsKernel(Current) /\ Target = None

EvictForDestinationSlot ==
    /\ KernelReady /\ DestinationSlot = None
    /\ FreeSlots = {}
    /\ \E v \in Victim(Current.def) : Evict({v}, FALSE)

TakeDestinationSlot ==
    /\ KernelReady /\ DestinationSlot = None
    /\ FreeSlots # {}
    /\ slot' = [slot EXCEPT ![Current.def] = ChosenSlot(Current.def)]
    /\ UNCHANGED <<code, automatic, cursor, home, dirty, initialized, modulus, layout, loading,
                   regs, ddr, context, status>>

EvictForResult ==
    /\ KernelReady /\ DestinationSlot # None
    /\ KernelAnswer(layout).outcome = "full"
    /\ \E victims \in Clearing(Current.def) : Evict(victims, FALSE)

Execute ==
    LET id      == Current.def
        answer  == KernelAnswer(layout)
        reads   == [k \in DOMAIN KernelReads |-> regs[slot[KernelReads[k]]]]
        handed  == IF Transfers THEN [slot EXCEPT ![Donor] = None] ELSE slot
    IN  /\ KernelReady /\ DestinationSlot # None
        /\ answer.outcome = "ok"
        /\ initialized' = [initialized EXCEPT ![id] = TRUE]
        /\ dirty' = [dirty EXCEPT ![id] = TRUE]
        /\ UNCHANGED <<modulus, home, loading, ddr, context>>
        /\ Complete({}, [handed EXCEPT ![id] = DestinationSlot],
                    [layout EXCEPT ![DestinationSlot] = answer.region],
                    [regs EXCEPT ![DestinationSlot] =
                        Result(cursor, Shape[id].width, reads, context)])

KernelCapacityError ==
    /\ KernelReady
    /\ IF DestinationSlot = None
       THEN FreeSlots = {} /\ Victims(Current.def) = {}
       ELSE /\ KernelAnswer(layout).outcome = "full"
            /\ Clearing(Current.def) = {}
    /\ RaiseError("capacity")

InvalidKernel ==
    /\ KernelReady /\ DestinationSlot # None
    /\ KernelAnswer(layout).outcome = "invalid"
    /\ RaiseError("invalid")

-----------------------------------------------------------------------------

Init ==
    /\ \E suite \in Programs : code \in suite.codes /\ automatic = suite.automatic
    /\ cursor = 1
    /\ slot = [o \in Objects |-> None]
    /\ home = [o \in Objects |-> None]
    /\ dirty = [o \in Objects |-> FALSE]
    /\ initialized = [o \in Objects |-> FALSE]
    /\ modulus = None
    /\ layout = EmptyLayout
    /\ loading = FALSE
    /\ regs = [s \in Slots |-> None]
    /\ ddr = [cell \in ImageCells \cup SpillCells |-> InitialAtom(cell)]
    /\ context = None
    /\ status = "running"

Return ==
    /\ status = "running" /\ cursor > Len(code)
    /\ RaiseError("done")

Place ==
    \E o \in ToPlace :
        \/ NoDefinition(o) \/ EvictTable(o)
        \/ EvictForSlot(o) \/ TakeSlot(o)
        \/ EvictForLoad(o) \/ Fill(o)
        \/ YieldPlace(o) \/ CapacityError(o) \/ InvalidLoad(o)

Kernel ==
    \/ EvictForDestinationSlot \/ TakeDestinationSlot
    \/ EvictForResult \/ Execute
    \/ KernelCapacityError \/ InvalidKernel

Terminated == status # "running" /\ UNCHANGED vars

Next ==
    \/ StartLoad \/ EndLoad
    \/ Freeze \/ Store \/ DeferStore
    \/ Free \/ LoadModulus \/ Sync
    \/ Place \/ Kernel
    \/ Return \/ Terminated

\* run() is called and runs: it cannot stop between two instructions.
Spec == Init /\ [][Next]_vars /\ WF_vars(Next)

-----------------------------------------------------------------------------
(* Properties.                                                             *)

\* Every State, the allocator and the machine keep to their types.
TypeOK ==
    /\ cursor \in 1 .. Len(code) + 1
    /\ slot \in [Objects -> Slots \cup {None}]
    /\ \A o \in Objects : home[o] # None => Len(home[o]) = Shape[o].width
    /\ dirty \in [Objects -> BOOLEAN] /\ initialized \in [Objects -> BOOLEAN]
    /\ modulus \in Objects \cup {None}
    /\ layout \in Layout
    /\ loading \in BOOLEAN
    /\ DOMAIN regs = Slots /\ DOMAIN ddr = ImageCells \cup SpillCells
    /\ status \in {"running", "done", "capacity", "invalid", "logic_error"}

\* The scheduler's states, the allocator and the machine never disagree: two
\* objects never share a slot, a slot holds contents exactly if the allocator
\* gave it lines, they belong to one resident object and are as long as it, and
\* at most one modulus table is placed.  (PFREE, DSTORE with release, eviction
\* and the hand-over of a dying source's slot each update all three.)
SlotsConsistent ==
    /\ TypeOK
    /\ \A o, q \in Resident : o # q => slot[o] # slot[q]
    /\ \A s \in Slots :
          /\ (layout[s] = None) = (regs[s] = None)
          /\ layout[s] # None =>
                \E o \in Resident : slot[o] = s /\ layout[s].lines = Shape[o].lines
    /\ \A o, q \in {t \in Objects : OnChip(t) /\ Shape[t].type = 1} : o = q

\* The contents the compiled state stands for: on chip, or else at home.
Position == IF loading THEN cursor + 1 ELSE cursor

Denoted(o) ==
    IF OnChip(o) THEN regs[slot[o]]
    ELSE IF home[o] # None THEN Read(ddr, home[o]) ELSE None

Values ==
    [o \in Objects |->
        IF initialized[o] /\ UsedFrom(code, o, Position) THEN Denoted(o) ELSE None]
Memory == [cell \in ImageCells |-> ddr[cell]]
Table  == IF modulus = None THEN None ELSE Denoted(modulus)

Reference == INSTANCE VirtualMachine WITH
    pc <- Position, values <- Values, memory <- Memory, table <- Table

\* The emitted instructions do what the virtual program means, whatever had to
\* be evicted, spilled, reloaded, moved or frozen on the way: each live value
\* can be had from the chip or from its home, each kernel reads the current
\* versions of its operands under the right modulus context, and each store
\* leaves the memory image as the program does.
ImplementsProgram == Reference!Spec

\* A backing is a particular version of memory: while a clean or evicted object
\* still has uses, no write changes the lines it would be reloaded from.
BackingsKept ==
    [][\A o \in Objects :
         /\ initialized[o] /\ home[o] # None /\ home'[o] = home[o]
         /\ ~ dirty[o] /\ UsedFrom(code, o, cursor')
         => Read(ddr', home[o]) = Read(ddr, home[o])]_vars

\* The instruction leaves the object with these lines as its home.
HomeAt(list, q, o) ==
    \/ list[q].op = "load" /\ ~ list[q].retained /\ list[q].def = o
    \/ list[q].op = "store" /\ list[q].required /\ list[q].sources[1] = o

Recomputed(list, o, q, p) == \E k \in q + 1 .. p - 1 : IsKernel(list[k]) /\ list[k].def = o

\* No store writes to lines that the current version of another object came from
\* or went to, while that has uses left.
Undisturbed(list) ==
    \A p \in DOMAIN list : list[p].op = "store" /\ list[p].required =>
        \A o \in Objects \ {list[p].sources[1]} : UsedFrom(list, o, p + 1) =>
            \A q \in 1 .. p - 1 :
                HomeAt(list, q, o) /\ ~ Recomputed(list, o, q, p) =>
                    \A j \in DOMAIN list[q].range, k \in DOMAIN list[p].range :
                        list[q].range[j] # list[p].range[k]

\* What keeps the memory of evicted objects: the scheduler, in automatic mode, or
\* the program.
Guarded(suites) ==
    \A suite \in suites : suite.automatic \/ \A list \in suite.codes : Undisturbed(list)

\* Each object is defined by a load or a kernel before its first use.
DefinedBefore(o, p) == \E q \in 1 .. (p - 1) : code[q].def = o /\ ~ code[q].retained
WellFormed ==
    \A p \in 1 .. Len(code) : \A o \in Objects :
        UsedBy(o, code[p]) => DefinedBefore(o, p)

\* "virtual object has no reloadable definition" is only ever the program's
\* fault: eviction and freezing never leave a value without a copy.
NoVersionLost == status = "logic_error" => ~ WellFormed

\* What has to stay on chip while a place for o is sought; the table in use only
\* in automatic mode.
Pinned(o) == Excluded(o) \cup (IF automatic THEN {modulus} \ {None} ELSE {})

\* The allocator's layout if all else were evicted.
Spared(o) == [s \in Slots |-> IF \E p \in Pinned(o) : slot[p] = s THEN layout[s] ELSE None]

\* What the current instruction cannot go on without, and the slot it would have.
Wanted     == IF Target = None THEN Current.def ELSE Target
WantedSlot == IF Target = None THEN DestinationSlot ELSE slot[Wanted]

\* "kernel operands exceed ... bank capacity" is only reported when what the
\* instruction has to keep on chip leaves no slot, or no room in any bank it may
\* use: what earlier instructions left there, and where, never stands in the way,
\* although no turn of the loop evicts more than one interval, and none at all
\* if that does not help.
\* (Not so for data in bank 5 behind an odd number of lines for the table, where
\* the loop tries odd lines only and find() even ones.)
Probed(o) == SmallBank \in AllowedBanks(o) => ModTableLines % 2 = 0 \/ Shape[o].type = 1

CapacityJustified ==
    status = "capacity" =>
        IF WantedSlot = None
        THEN Cardinality(Pinned(Wanted)) > Cardinality(Slots)
        ELSE Probed(Wanted) => Answer(Wanted, Spared(Wanted)).outcome = "full"

\* Every compilation ends: evicting to make room never undoes what an earlier
\* turn of the same instruction placed.
Terminates == <>(status # "running")

=============================================================================
