----------------------------- MODULE EncodedImport -----------------------------
(***************************************************************************)
(* import_resolved_program(): encoded instructions, which name the slots   *)
(* of the machine, become virtual instructions, which name objects.        *)
(*                                                                         *)
(* The module runs three things side by side, one instruction a step: the  *)
(* importer, the machine on the encoded instruction, and the virtual       *)
(* instructions that the importer makes of it.  An encoded instruction has *)
(* op "load", "store", "free", "stage" (a transform, in place), "arith",   *)
(* "mac", "modld" or "sync", the slots it reads, the slot it writes, its   *)
(* range, release (REL) and, if it is a load, the kind of object it asks   *)
(* for (MOD and the bank mask).                                            *)
(***************************************************************************)
EXTENDS DeferredStores, SequencesExt, VirtualProgram

CONSTANTS
    Slots,         \* object slots of the machine
    Programs,      \* the encoded programs considered
    ImageCells,    \* the cells of the memory image
    None

\* A DMA moves a run of lines; kind is MOD and bank mask.
Views == {range \in Seq(ImageCells) : \A j, k \in DOMAIN range : range[j] = range[k] => j = k}
Kinds == [type : Nat, mask : SUBSET Nat]

Encoded(op, sources, dst, range, release, kind) ==
    [op |-> op, sources |-> sources, dst |-> dst, range |-> range,
     release |-> release, kind |-> kind]

\* What the formats of the instructions allow.
Encodings ==
    {i \in [op : {"load", "store", "free", "stage", "arith", "mac", "modld", "sync"},
            sources : Seq(Slots), dst : Slots \cup {None}, range : Views, release : BOOLEAN, kind : Kinds] :
        /\ i.op \in {"load", "stage", "arith", "mac"} => i.dst # None
        /\ i.op \in {"store", "free", "stage", "arith", "mac"} => i.sources # << >>
        /\ i.op = "load" => i.sources = << >>}

ASSUME NoneAssumption == None \notin Nat /\ None \notin Slots
ASSUME ProgramsAssumption == Programs \subseteq Seq(Encodings)

\* A store whose load comes later gives its slot up, so that nothing can change
\* or share the object in between.
Disciplined(list) ==
    \A k \in DOMAIN list : list[k].op = "store" /\ ~ list[k].release => Consumer(list, k) = 0

VARIABLES
    code,          \* instructions
    pos,           \* index
    live,          \* live: the object that each slot holds
    objects,       \* result.objects: lines and kind
    pending,       \* pending_reload: position of the load, object
    values,        \* virtual program: the contents of each object
    memory,        \* virtual program: the memory image
    slots,         \* machine: the contents of each slot
    ddr,           \* machine: the memory image
    status

vars == <<code, pos, live, objects, pending, values, memory, slots, ddr, status>>

-----------------------------------------------------------------------------
(* validate_executable_program().                                          *)

Reads(i) == Range(i.sources) \cup (IF i.op \in {"mac", "stage"} THEN {i.dst} ELSE {})

Freed(i) ==
    CASE i.op = "free" -> {i.sources[1]}
      [] i.op = "store" /\ i.release -> {i.sources[1]}
      [] OTHER -> {}

TakesTable(i) == i.op = "load" /\ i.kind.type = 1
LosesTable(i, table) == table \in Freed(i) \/ (i.op = "load" /\ i.dst = table)

\* What is live after an instruction, and the slot of the modulus table.
Lives(state, i) ==
    [ok    |-> /\ state.ok
               /\ Reads(i) \subseteq state.live
               /\ TakesTable(i) => state.table \in {None, i.dst}
               /\ i.op = "modld" => state.table # None,
     live  |-> (state.live \ Freed(i)) \cup ({i.dst} \ {None}),
     table |-> IF TakesTable(i) THEN i.dst
               ELSE IF LosesTable(i, state.table) THEN None ELSE state.table]

Executable(list) ==
    /\ FoldLeft(Lives, [ok |-> TRUE, live |-> {}, table |-> None], list).ok
    /\ list # << >> /\ Last(list).op = "sync"

-----------------------------------------------------------------------------

Current == code[pos]
Lines(o) == objects[o].lines

\* The load that the current store is paired with.
Paired ==
    LET load == Consumer(code, pos)
    IN  IF load # 0 /\ code[load].kind = objects[live[Current.sources[1]]].kind
        THEN load ELSE 0

Awaited == {r \in pending : r.load = pos}

Init ==
    /\ code \in Programs
    /\ pos = 1
    /\ live = [s \in Slots |-> None]
    /\ objects = << >>
    /\ pending = {}
    /\ values = << >>
    /\ memory = [cell \in ImageCells |-> InitialAtom(cell)]
    /\ slots = [s \in Slots |-> None]
    /\ ddr = memory
    /\ status = "new"

Validate ==
    /\ status = "new"
    /\ status' = IF Executable(code) THEN "importing" ELSE "rejected"
    /\ UNCHANGED <<code, pos, live, objects, pending, values, memory, slots, ddr>>

Importing == status = "importing" /\ pos <= Len(code)

Step == pos' = pos + 1 /\ UNCHANGED <<code, status>>

\* The machine fills a slot.
Fill(s, contents) == slots' = [slots EXCEPT ![s] = contents]

\* A slot takes a new object.
NewObject(s, kind, contents) ==
    /\ objects' = Append(objects, [lines |-> Len(contents), kind |-> kind])
    /\ live' = [live EXCEPT ![s] = Len(objects) + 1]
    /\ values' = Append(values, contents)

\* A transform works in place; arithmetic does if the old object fits.
InPlace ==
    \/ Current.op = "stage"
    \/ live[Current.dst] # None /\ Lines(live[Current.dst]) = Lines(live[Current.sources[1]])

\* Else std::invalid_argument: an operand was released, the object does not have
\* the length of the store, or the accumulator not that of the source.
Accepted ==
    /\ \A s \in Reads(Current) : live[s] # None
    /\ Current.op = "store" => Lines(live[Current.sources[1]]) = Len(Current.range)
    /\ Current.op = "mac" => InPlace

Load ==
    /\ Importing /\ Current.op = "load" /\ Awaited = {}
    /\ NewObject(Current.dst, Current.kind, Read(memory, Current.range))
    /\ Fill(Current.dst, Read(ddr, Current.range))
    /\ Step
    /\ UNCHANGED <<pending, memory, ddr>>

\* The second half of a deferred store: the object is there already.
Reload ==
    /\ Importing /\ Current.op = "load"
    /\ \E r \in Awaited : live' = [live EXCEPT ![Current.dst] = r.object]
    /\ Fill(Current.dst, Read(ddr, Current.range))
    /\ Step
    /\ UNCHANGED <<objects, pending, values, memory, ddr>>

Store ==
    LET s == Current.sources[1]
        o == live[s]
    IN  /\ Importing /\ Current.op = "store" /\ Accepted
        /\ IF Paired # 0
           THEN /\ pending' = pending \cup {[load |-> Paired, object |-> o]}
                /\ UNCHANGED memory
           ELSE /\ memory' = Written(memory, Current.range, values[o])
                /\ UNCHANGED pending
        /\ ddr' = Written(ddr, Current.range, slots[s])
        /\ live' = [live EXCEPT ![s] = IF Current.release THEN None ELSE @]
        /\ slots' = [slots EXCEPT ![s] = IF Current.release THEN None ELSE @]
        /\ Step
        /\ UNCHANGED <<objects, values>>

Free ==
    /\ Importing /\ Current.op = "free" /\ Accepted
    /\ live' = [live EXCEPT ![Current.sources[1]] = None]
    /\ Fill(Current.sources[1], None)
    /\ Step
    /\ UNCHANGED <<objects, pending, values, memory, ddr>>

\* What the current instruction computes from the contents of its operands.
Operands  == IF Current.op \in {"mac", "stage"} THEN <<Current.dst>> \o Current.sources
             ELSE Current.sources
Computed(contents) == Result(pos, Len(contents[1]), contents, None)
OnMachine == Computed([k \in DOMAIN Operands |-> slots[Operands[k]]])
OnObjects == Computed([k \in DOMAIN Operands |-> values[live[Operands[k]]]])

KernelInPlace ==
    /\ Importing /\ Current.op \in {"stage", "arith", "mac"} /\ Accepted /\ InPlace
    /\ values' = [values EXCEPT ![live[Current.dst]] = OnObjects]
    /\ Fill(Current.dst, OnMachine)
    /\ Step
    /\ UNCHANGED <<live, objects, pending, memory, ddr>>

KernelToNew ==
    /\ Importing /\ Current.op = "arith" /\ Accepted /\ ~ InPlace
    /\ NewObject(Current.dst, [objects[live[Current.sources[1]]].kind EXCEPT !.mask = {}], OnObjects)
    /\ Fill(Current.dst, OnMachine)
    /\ Step
    /\ UNCHANGED <<pending, memory, ddr>>

\* PMODLD and PSYNC are passed on.
PassOn ==
    /\ Importing /\ Current.op \in {"modld", "sync"}
    /\ Step
    /\ UNCHANGED <<live, objects, pending, values, memory, slots, ddr>>

Reject ==
    /\ Importing /\ ~ Accepted
    /\ status' = "rejected"
    /\ UNCHANGED <<code, pos, live, objects, pending, values, memory, slots, ddr>>

Return ==
    /\ status = "importing" /\ pos > Len(code)
    /\ status' = "done"
    /\ UNCHANGED <<code, pos, live, objects, pending, values, memory, slots, ddr>>

Next ==
    \/ Validate \/ Load \/ Reload \/ Store \/ Free \/ KernelInPlace \/ KernelToNew
    \/ PassOn \/ Reject \/ Return

Spec == Init /\ [][Next]_vars

-----------------------------------------------------------------------------
(* Properties.                                                             *)

\* Objects have the length that their record says, slots what they hold.
TypeOK ==
    /\ status \in {"new", "importing", "rejected", "done"}
    /\ \A o \in DOMAIN objects : Len(values[o]) = Lines(o)
    /\ DOMAIN values = DOMAIN objects
    /\ \A s \in Slots : live[s] # None => live[s] \in DOMAIN objects /\ Len(slots[s]) = Lines(live[s])
    /\ \A r \in pending : r.load \in DOMAIN code /\ r.object \in DOMAIN objects

\* "Removing a writeback is safe only when there is one exact consumer before the
\* next overlapping write": whatever stores are left out, every slot of the
\* machine holds what the object that stands for it holds.
RegistersAgree ==
    \A s \in Slots : live[s] # None => slots[s] = values[live[s]]

\* Memory that is not scratch memory never differs, and objects stay as long as
\* the slots that they stand for.
OutputsAgree ==
    /\ TypeOK
    /\ \A cell \in ImageCells \ Workspace : memory[cell] = ddr[cell]

================================================================================
