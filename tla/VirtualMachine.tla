---------------------------- MODULE VirtualMachine ----------------------------
(***************************************************************************)
(* What a VirtualProgram of the resource compiler means: its instructions  *)
(* executed in order on objects that never leave the chip and never run    *)
(* out of room.  This is the promise the Scheduler keeps for its callers   *)
(* with 64 slots and six banks: the module is the abstract specification   *)
(* that Scheduler implements.                                              *)
(***************************************************************************)
EXTENDS VirtualProgram

CONSTANTS
    Objects,       \* ObjectIds of program.objects
    Shape,         \* VirtualObject: [lines, type, mask], and its width in cells
    ImageCells,    \* the cells of the memory image
    None           \* std::nullopt

VARIABLES
    code,       \* program.instructions, whatever they are
    pc,         \* the next instruction
    values,     \* the contents of each object, None once it has no more uses
    memory,     \* the contents of each cell of the image
    table,      \* the contents of the last modulus table loaded
    context     \* the modulus context of the last PMODLD

machine == <<code, pc, values, memory, table, context>>

-----------------------------------------------------------------------------

Init ==
    /\ pc = 1
    /\ values = [o \in Objects |-> None]
    /\ memory = [cell \in ImageCells |-> InitialAtom(cell)]
    /\ table = None
    /\ context = None

\* A value that no later instruction uses is forgotten.
Pruned(contents) ==
    [o \in Objects |-> IF UsedFrom(code, o, pc + 1) THEN contents[o] ELSE None]

Advance(contents) ==
    /\ pc' = pc + 1
    /\ values' = Pruned(contents)
    /\ UNCHANGED code

LoadObject ==
    LET i == code[pc]
        read == Read(memory, i.range)
    IN  /\ i.op = "load" /\ ~ i.retained
        /\ Advance([values EXCEPT ![i.def] = read])
        /\ table' = IF Shape[i.def].type = 1 THEN read ELSE table
        /\ UNCHANGED <<memory, context>>

StoreObject ==
    LET i == code[pc]
    IN  /\ i.op = "store" /\ i.required
        /\ memory' = Written(memory, i.range, values[i.sources[1]])
        /\ Advance(values)
        /\ UNCHANGED <<table, context>>

Compute ==
    LET i == code[pc]
        read == IF i.op = "mac" THEN Append(i.sources, i.def) ELSE i.sources
        operands == [k \in DOMAIN read |-> values[read[k]]]
    IN  /\ IsKernel(i)
        /\ Advance([values EXCEPT
              ![i.def] = Result(pc, Shape[i.def].width, operands, context)])
        /\ UNCHANGED <<memory, table, context>>

LoadModulus ==
    /\ code[pc].op = "modld"
    /\ context' = IF table = None THEN context ELSE table
    /\ Advance(values)
    /\ UNCHANGED <<memory, table>>

\* A deferred store and its reload, a PFREE and a PSYNC leave all contents.
PassOver ==
    /\ \/ code[pc].op \in {"free", "sync"}
       \/ code[pc].op = "store" /\ ~ code[pc].required
       \/ code[pc].op = "load" /\ code[pc].retained
    /\ Advance(values)
    /\ UNCHANGED <<memory, table, context>>

Next ==
    /\ pc <= Len(code)
    /\ LoadObject \/ StoreObject \/ Compute \/ LoadModulus \/ PassOver

Spec == Init /\ [][Next]_machine

=============================================================================
