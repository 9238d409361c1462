---------------------------- MODULE OperatorProgram ----------------------------
(***************************************************************************)
(* The SSA form of hpu/compiler/operator_resources.hpp: operations on      *)
(* values, each of which one operation defines, and what they mean.        *)
(*                                                                         *)
(* op is "load", "store", "arith" (PADD, PSUB and PMUL), "stage" (PNTT and *)
(* PINTT), "mac" (PMAC), "free" or "sync".  reuse is the value whose       *)
(* variable the output replaces, tied the position of the input that the   *)
(* hardware overwrites.  kind is what a load asks for, MOD and bank mask.  *)
(***************************************************************************)
EXTENDS VirtualProgram, Functions

CONSTANTS
    Values,        \* ValueIds, natural numbers
    None

Operation(op, inputs, output, reuse, tied, range, kind) ==
    [op |-> op, inputs |-> inputs, output |-> output, reuse |-> reuse,
     tied |-> tied, range |-> range, kind |-> kind]

Computes(i) == i.op \in {"arith", "stage", "mac"}

\* How many inputs an operation has, and which of them it overwrites.
Operands(i) ==
    CASE i.op \in {"store", "free"} -> {1}
      [] i.op = "stage" -> {2}
      [] i.op = "arith" -> {1, 2}
      [] i.op = "mac"   -> {2, 3}
      [] OTHER          -> {0}

TiedInput(i) ==
    CASE i.op = "stage" -> 1
      [] i.op = "mac"   -> Len(i.inputs)
      [] OTHER          -> None

DefinedBefore(list, k) == {list[n].output : n \in 1 .. k - 1} \ {None}

\* The checks of import_operator_program(): operands, one definition for each
\* value, before all its uses, and no store to memory that is read only.
WellFormed(list, readOnly) ==
    /\ list # << >>
    /\ \A k \in DOMAIN list :
          LET i == list[k]
          IN  /\ Len(i.inputs) \in Operands(i) /\ i.tied = TiedInput(i)
              /\ (i.output # None) = (Computes(i) \/ i.op = "load")
              /\ Range(i.inputs) \subseteq DefinedBefore(list, k)
              /\ i.reuse \in DefinedBefore(list, k) \cup {None}
              /\ i.output \notin DefinedBefore(list, k)
              /\ i.op = "store" => Range(i.range) \cap readOnly = {}

\* The last operation but PFREE that uses a value, 0 if there is none.
LastUse(list, v) ==
    LET uses == {k \in DOMAIN list : list[k].op # "free" /\ v \in Range(list[k].inputs)}
    IN  IF uses = {} THEN 0 ELSE CHOOSE k \in uses : \A n \in uses : n <= k

-----------------------------------------------------------------------------
(* Meaning: contents of values and memory after an operation.               *)

OutputContents(i, pos, contents, memory) ==
    IF i.op = "load" THEN Read(memory, i.range)
    ELSE Result(pos, Len(contents[i.inputs[1]]),
                [k \in DOMAIN i.inputs |-> contents[i.inputs[k]]], None)

ValuesAfter(i, pos, contents, memory) ==
    IF i.output = None THEN contents
    ELSE [contents EXCEPT ![i.output] = OutputContents(i, pos, contents, memory)]

MemoryAfter(i, contents, memory) ==
    IF i.op = "store" THEN Written(memory, i.range, contents[i.inputs[1]]) ELSE memory

================================================================================
