---------------------------- MODULE VirtualProgram ----------------------------
(***************************************************************************)
(* The program representation of hpu/compiler/resource_ir.hpp: virtual     *)
(* instructions over objects and ranges of the memory image, and the       *)
(* symbolic contents that VirtualMachine and Scheduler compute with.       *)
(*                                                                         *)
(* A memory cell initially holds an atom of its own; an instruction that   *)
(* computes yields a term made of its position, the values it read and the *)
(* loaded modulus context, so two contents are equal only if the same      *)
(* instruction computed them from the same inputs.  A cell is a run of DDR *)
(* lines that the program's ranges do not divide; a range is a sequence of *)
(* cells.                                                                  *)
(***************************************************************************)
EXTENDS Integers, Sequences

(* Instructions: op is "load", "store", "arith", "mac", "stage", "online", *)
(* "modld", "free" or "sync".  sources lists the operands that are read,   *)
(* def is the object written.  An unrequired store and the retained load   *)
(* that shares its object are the two halves of a deferred scratch store.  *)

Instr(op, sources, def, range) ==
    [op |-> op, sources |-> sources, def |-> def, range |-> range,
     required |-> TRUE, retained |-> FALSE, release |-> FALSE]

IsKernel(i) == i.op \in {"arith", "mac", "stage", "online"}

SourceSet(i) == {i.sources[k] : k \in DOMAIN i.sources}

\* VirtualInstruction::uses; a PMAC also reads its accumulator.
Uses(i) == SourceSet(i) \cup (IF i.op = "mac" THEN {i.def} ELSE {})

\* What UseIndex records: every use but that of a PFREE, and the implicit use
\* of a retained object by its reload.
UsedBy(o, i) ==
    \/ i.op # "free" /\ o \in Uses(i)
    \/ i.retained /\ o = i.def

\* Positions from first on at which the object is used.
UsePositions(list, o, first) == {p \in first .. Len(list) : UsedBy(o, list[p])}
UsedFrom(list, o, first) == UsePositions(list, o, first) # {}

InitialAtom(cell) == <<"mem", cell>>
Read(contents, range) == [k \in DOMAIN range |-> contents[range[k]]]
Written(contents, range, value) ==
    [cell \in DOMAIN contents |->
        IF \E k \in DOMAIN range : range[k] = cell
        THEN value[CHOOSE k \in DOMAIN range : range[k] = cell]
        ELSE contents[cell]]

\* The contents computed by the instruction at a position.
Result(position, width, operands, modulus) ==
    [k \in 1 .. width |-> <<"computed", position, operands, modulus, k>>]

=============================================================================
