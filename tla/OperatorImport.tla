---------------------------- MODULE OperatorImport ----------------------------
(***************************************************************************)
(* import_operator_program(): values, which never change, are given        *)
(* objects, which kernels may overwrite; and what compile_resources() then *)
(* makes of deferred stores.                                               *)
(*                                                                         *)
(* As in EncodedImport, the importer, the source program and the virtual   *)
(* program run side by side, one operation a step.                         *)
(***************************************************************************)
EXTENDS DeferredStores, OperatorProgram

CONSTANTS
    Programs,      \* the operator programs considered
    ImageCells,    \* the cells of the memory image
    ReadOnly,      \* those of read-only allocations
    Required       \* cells of workspace that the caller lists in required_outputs

\* A view is a run of lines; kind is MOD and bank mask.
Views == {range \in Seq(ImageCells) : \A j, k \in DOMAIN range : range[j] = range[k] => j = k}
Kinds == [type : Nat, mask : SUBSET Nat]
SsaOperations ==
    [op : {"load", "store", "arith", "stage", "mac", "free", "sync"}, inputs : Seq(Values),
     output : Values \cup {None}, reuse : Values \cup {None}, tied : Nat \cup {None},
     range : Views, kind : Kinds]

ASSUME NoneAssumption == None \notin Nat /\ None \notin Values
ASSUME ProgramsAssumption == Programs \subseteq Seq(SsaOperations)

VARIABLES
    code,          \* source.operations
    optimized,     \* options.optimization is not NoOpt
    pos,           \* i
    objectOf,      \* objects: the object of each value
    shapes,        \* result.objects: lines and kind
    lastUse,       \* object_last_use
    homes,         \* initial_homes
    pending,       \* pending_reload: position of the load, object
    values,        \* source: the contents of each value
    memory,        \* source: the memory image
    contents,      \* virtual program: the contents of each object
    ddr,           \* virtual program: the memory image
    status

vars == <<code, optimized, pos, objectOf, shapes, lastUse, homes, pending, values, memory,
          contents, ddr, status>>

-----------------------------------------------------------------------------

Current == code[pos]
Lines(o) == shapes[o].lines
Inputs  == [k \in DOMAIN Current.inputs |-> objectOf[Current.inputs[k]]]

Shape(lines, kind) == [lines |-> lines, kind |-> kind]

Larger(a, b) == IF a < b THEN b ELSE a

Paired ==
    LET load == Consumer(code, pos)
    IN  IF load # 0 /\ code[load].kind = shapes[Inputs[1]].kind THEN load ELSE 0

Awaited == {r \in pending : r.load = pos}

Init ==
    /\ code \in Programs
    /\ optimized \in BOOLEAN
    /\ pos = 1
    /\ objectOf = [v \in Values |-> None]
    /\ shapes = << >> /\ lastUse = << >> /\ homes = << >> /\ contents = << >>
    /\ pending = {}
    /\ values = [v \in Values |-> None]
    /\ memory = [cell \in ImageCells |-> InitialAtom(cell)]
    /\ ddr = memory
    /\ status = "new"

Validate ==
    /\ status = "new"
    /\ status' = IF WellFormed(code, ReadOnly) THEN "importing" ELSE "rejected"
    /\ UNCHANGED <<code, optimized, pos, objectOf, shapes, lastUse, homes, pending,
                   values, memory, contents, ddr>>

Importing == status = "importing" /\ pos <= Len(code)

\* The source program takes its step.
Step ==
    /\ pos' = pos + 1
    /\ values' = ValuesAfter(Current, pos, values, memory)
    /\ memory' = MemoryAfter(Current, values, memory)
    /\ UNCHANGED <<code, optimized, status>>

\* new_object(), whose first value is the output of the operation.
NewObject(shape, home, read) ==
    /\ shapes' = Append(shapes, shape)
    /\ homes' = Append(homes, home)
    /\ lastUse' = Append(lastUse, LastUse(code, Current.output))
    /\ contents' = Append(contents, read)
    /\ objectOf' = [objectOf EXCEPT ![Current.output] = Len(shapes) + 1]

Load ==
    /\ Importing /\ Current.op = "load" /\ Awaited = {}
    /\ NewObject(Shape(Len(Current.range), Current.kind), Current.range, Read(ddr, Current.range))
    /\ Step
    /\ UNCHANGED <<pending, ddr>>

\* The second half of a deferred store.  Without optimization the load is made.
Reload ==
    /\ Importing /\ Current.op = "load"
    /\ \E r \in Awaited :
          /\ objectOf' = [objectOf EXCEPT ![Current.output] = r.object]
          /\ lastUse' = [lastUse EXCEPT ![r.object] = Larger(@, LastUse(code, Current.output))]
          /\ homes' = [homes EXCEPT ![r.object] = Current.range]
          /\ contents' = IF optimized THEN contents
                         ELSE [contents EXCEPT ![r.object] = Read(ddr, Current.range)]
    /\ Step
    /\ UNCHANGED <<shapes, pending, ddr>>

\* Mutant: the object may be overwritten between the store and its load.
AwaitReloadOnly(o) ==
    /\ pending' = pending \cup {[load |-> Paired, object |-> o]}
    /\ UNCHANGED lastUse

\* "A deferred reload is an implicit SSA consumer."
AwaitReload(o) ==
    /\ pending' = pending \cup {[load |-> Paired, object |-> o]}
    /\ lastUse' = [lastUse EXCEPT ![o] = Larger(@, Paired)]

Deferred == Paired # 0 /\ optimized /\ Cells(Current) \cap Required = {}

Store ==
    LET o == Inputs[1]
    IN  /\ Importing /\ Current.op = "store"
        /\ Lines(o) = Len(Current.range)
        /\ IF Paired # 0 THEN AwaitReload(o) ELSE UNCHANGED <<pending, lastUse>>
        /\ ddr' = IF Deferred THEN ddr ELSE Written(ddr, Current.range, contents[o])
        /\ Step
        /\ UNCHANGED <<objectOf, shapes, homes, contents>>

-----------------------------------------------------------------------------
(* Kernels.                                                                *)

\* Mutant: the hint is followed even if the old value is still needed.
ReplaceableAlways(o) == Lines(o) = Lines(Inputs[1])

\* An object of the right length that no later operation needs.
Replaceable(o) == Lines(o) = Lines(Inputs[1]) /\ lastUse[o] <= pos

Tied == Inputs[Current.tied]
TiedFits == Current.tied # None => Lines(Tied) = Lines(Inputs[1])

\* The object that a kernel overwrites, None if it must have one of its own.
Destination ==
    IF Current.tied # None THEN IF lastUse[Tied] <= pos THEN Tied ELSE None
    ELSE IF Current.reuse = None THEN None
    ELSE IF Replaceable(objectOf[Current.reuse]) THEN objectOf[Current.reuse] ELSE None

Computed(operands) == Result(pos, Lines(Inputs[1]), operands, None)
OnObjects == Computed([k \in DOMAIN Inputs |-> contents[Inputs[k]]])

KernelInPlace ==
    /\ Importing /\ Computes(Current) /\ TiedFits /\ Destination # None
    /\ contents' = [contents EXCEPT ![Destination] = OnObjects]
    /\ objectOf' = [objectOf EXCEPT ![Current.output] = Destination]
    /\ lastUse' = [lastUse EXCEPT ![Destination] = Larger(@, LastUse(code, Current.output))]
    /\ homes' = [homes EXCEPT ![Destination] = None]
    /\ Step
    /\ UNCHANGED <<shapes, pending, ddr>>

KernelToNew ==
    /\ Importing /\ Computes(Current) /\ Current.tied = None /\ Destination = None
    /\ NewObject(Shape(Lines(Inputs[1]), [shapes[Inputs[1]].kind EXCEPT !.mask = {}]), None, OnObjects)
    /\ Step
    /\ UNCHANGED <<pending, ddr>>

\* An exact copy of a tied input that is still needed: read again where it came
\* from if nobody can have written there, else through a buffer of its own.
Copy ==
    IF homes[Tied] # None /\ Range(homes[Tied]) \subseteq ReadOnly
    THEN Read(ddr, homes[Tied]) ELSE contents[Tied]

\* The copy takes the place of the tied input, and of the result.
KernelOnCopy ==
    LET operands == [k \in DOMAIN Inputs |-> IF k = Current.tied THEN Copy ELSE contents[Inputs[k]]]
    IN  /\ Importing /\ Computes(Current) /\ Current.tied # None
        /\ TiedFits /\ Destination = None
        /\ NewObject(shapes[Inputs[1]], None, Computed(operands))
        /\ Step
        /\ UNCHANGED <<pending, ddr>>

\* PFREE and PSYNC.
PassOn ==
    /\ Importing /\ Current.op \in {"free", "sync"}
    /\ Step
    /\ UNCHANGED <<objectOf, shapes, lastUse, homes, pending, contents, ddr>>

\* std::invalid_argument: an output or a tied input has another length.
Reject ==
    /\ Importing
    /\ \/ Current.op = "store" /\ Lines(Inputs[1]) # Len(Current.range)
       \/ Computes(Current) /\ ~ TiedFits
    /\ status' = "rejected"
    /\ UNCHANGED <<code, optimized, pos, objectOf, shapes, lastUse, homes, pending,
                   values, memory, contents, ddr>>

Return ==
    /\ status = "importing" /\ pos > Len(code)
    /\ status' = "done"
    /\ UNCHANGED <<code, optimized, pos, objectOf, shapes, lastUse, homes, pending,
                   values, memory, contents, ddr>>

Next ==
    \/ Validate \/ Load \/ Reload \/ Store \/ KernelInPlace \/ KernelToNew \/ KernelOnCopy
    \/ PassOn \/ Reject \/ Return

Spec == Init /\ [][Next]_vars

-----------------------------------------------------------------------------
(* Properties.                                                             *)

\* Each value that has an object has one of its own length.
TypeOK ==
    /\ status \in {"new", "importing", "rejected", "done"}
    /\ DOMAIN shapes = DOMAIN contents /\ DOMAIN lastUse = DOMAIN shapes /\ DOMAIN homes = DOMAIN shapes
    /\ \A o \in DOMAIN shapes : Len(contents[o]) = Lines(o)
    /\ \A v \in Values :
          objectOf[v] # None => objectOf[v] \in DOMAIN shapes /\ Len(values[v]) = Lines(objectOf[v])
    /\ \A r \in pending : r.load \in DOMAIN code /\ r.object \in DOMAIN shapes

\* A value that is still needed is in its object, although kernels overwrite
\* objects, share them between values and leave stores and loads out; and
\* objects stay as long as their values.
ValuesAgree ==
    /\ TypeOK
    /\ \A v \in Values :
          objectOf[v] # None /\ LastUse(code, v) >= pos => contents[objectOf[v]] = values[v]

\* "Keep the producer's storage intact across the gap": nothing is written to an
\* object between a deferred store and its reload.
StorageKept ==
    [][\A r \in pending : r.load >= pos => contents'[r.object] = contents[r.object]]_vars

\* Memory that somebody may look at is as if every store were made.
OutputsAgree ==
    \A cell \in ImageCells :
        ~ optimized \/ cell \notin Workspace \/ cell \in Required => ddr[cell] = memory[cell]

================================================================================
