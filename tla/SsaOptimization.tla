---------------------------- MODULE SsaOptimization ----------------------------
(***************************************************************************)
(* The candidates that compile_application() derives from an operator      *)
(* program: canonical_operator_program() leaves its memory traffic alone,  *)
(* output_root_operator_program() drops what nobody observes, and          *)
(* optimize_operator_program() merges loads, forwards stores to loads and  *)
(* may reorder what is left.                                               *)
(*                                                                         *)
(* The source program runs beside eliminate_io(), the result while it is   *)
(* emitted.  For canonical_operator_program(), which skips eliminate_io(), *)
(* that is a pass that keeps everything.  Operations are those of          *)
(* OperatorProgram with a layout (that of the data port) and mod, the      *)
(* modulus context that a "modld" selects or that "belongs to the          *)
(* operation, not its position".                                           *)
(***************************************************************************)
EXTENDS OperatorProgram, FiniteSetsExt, SequencesExt

CONSTANTS
    Programs,      \* the operator programs considered
    ImageCells,    \* the cells of the memory image
    Workspace,     \* those of workspace allocations
    ReadOnly,      \* those of read-only allocations
    RequiredSets   \* choices of required_outputs, as sets of cells

Modes == {"canonical", "output_root", "reuse", "reorder"}

VARIABLES
    code,          \* source.operations
    mode,
    required,      \* required, the empty set if the caller names none
    status,
    pos,           \* position in the source program
    context,       \* normalize(): the modulus context selected last
    kept,          \* kept: operations with what is known of them
    replacement,
    shapes,        \* lines and kind of each value
    reads,         \* CachedReads of the loads
    writes,        \* CachedReads of the stores
    lastWriters,   \* the last store to each cell, as a position in kept
    table,         \* modulus_table
    observed,      \* observed_writers
    live,          \* positions in kept
    before,        \* predecessors of each of them
    chosen,        \* chosen, a position in kept, 0 if there is none
    emitted,       \* positions in kept
    source,        \* the machine that runs the source program
    target         \* the machine that runs the result

inputs   == <<code, mode, required>>
caches   == <<reads, writes>>
memory   == <<lastWriters, observed>>
analysis == <<pos, context, kept, replacement, shapes, caches, memory, table>>
vars     == <<inputs, status, analysis, live, before, chosen, emitted, source, target>>

Cells(i)   == Range(i.range)
IsTable(i) == i.op = "load" /\ i.kind.type = 1
IsDma(i)   == i.op \in {"load", "store"}

Observable ==
    CASE mode = "canonical" -> ImageCells
      [] mode # "canonical" /\ required = {} -> ImageCells \ Workspace
      [] OTHER -> required

-----------------------------------------------------------------------------
(* The programs.                                                           *)

\* What the recorder makes of an instruction; a range is consecutive cells.
Recorded(i) ==
    /\ i.op \in {"load", "store", "arith", "stage", "mac", "modld", "free", "sync"}
    /\ i.inputs \in Seq(Values) /\ (Computes(i) \/ i.op = "store" => i.inputs # << >>)
    /\ i.output \in IF Computes(i) \/ i.op = "load" THEN Values ELSE {None}
    /\ i.range \in Seq(ImageCells) /\ IsInjective(i.range)
    /\ i.op = "modld" => i.mod # None

\* "arithmetic has no active modulus", "PMODLD has no modulus table": each
\* operation that computes has a table and a modulus to select from it, ...
Selects(p) ==
    \A k \in DOMAIN p : Computes(p[k]) =>
        /\ \E n \in 1 .. k - 1 : IsTable(p[n])
        /\ p[k].mod # None \/ \E n \in 1 .. k - 1 : p[n].op = "modld"

\* ... or the program is considered without its moduli.
Modeless(p) == \A k \in DOMAIN p : p[k].op # "modld" /\ (Computes(p[k]) => p[k].mod = None)

ASSUME ProgramAssumption ==
    /\ \A p \in Programs :
          /\ p \in Seq(Range(p)) /\ \A i \in Range(p) : Recorded(i)
          /\ Selects(p) \/ Modeless(p)
    /\ None \notin Values
    /\ RequiredSets \subseteq SUBSET ImageCells

-----------------------------------------------------------------------------
(* The machine.                                                            *)

Started ==
    [values |-> [v \in Values |-> None], memory |-> [c \in ImageCells |-> InitialAtom(c)],
     table |-> None, modulus |-> None, selected |-> None, seen |-> << >>]

\* The machine after PMODLD; selected is what materialize() remembers of it.
Selecting(m, mod) == [m EXCEPT !.modulus = <<m.table, mod>>, !.selected = mod]

\* The machine after operation k of the source, which is i.
After(m, i, k) ==
    CASE i.op = "load" ->
            [m EXCEPT !.values[i.output] = Read(m.memory, i.range),
                      !.table    = IF IsTable(i) THEN Read(m.memory, i.range) ELSE @,
                      !.selected = IF IsTable(i) THEN None ELSE @]
      [] i.op = "store" -> [m EXCEPT !.memory = Written(@, i.range, m.values[i.inputs[1]])]
      [] i.op = "sync"  -> [m EXCEPT !.seen = Append(@, [c \in Observable |-> m.memory[c]])]
      [] Computes(i) ->
            [m EXCEPT !.values[i.output] =
                Result(k, Len(m.values[i.inputs[1]]),
                       [n \in DOMAIN i.inputs |-> m.values[i.inputs[n]]], m.modulus)]
      [] OTHER -> m

Init ==
    /\ code \in Programs /\ mode \in Modes /\ required \in RequiredSets
    /\ mode = "canonical" => required = {}
    /\ status = "new"
    /\ pos = 1 /\ context = None /\ table = None
    /\ kept = << >>
    /\ replacement = [v \in Values |-> v]
    /\ shapes = [v \in Values |-> None]
    /\ reads = {} /\ writes = {}
    /\ lastWriters = [c \in ImageCells |-> 0]
    /\ observed = {} /\ live = {} /\ before = << >> /\ chosen = 0 /\ emitted = {}
    /\ source = Started /\ target = Started

-----------------------------------------------------------------------------
(* normalize().                                                            *)

Consistent ==
    /\ \A k \in DOMAIN code :
          LET i == code[k]
          IN  /\ Range(i.inputs) \subseteq DefinedBefore(code, k)
              /\ i.output \notin DefinedBefore(code, k)
              /\ IsDma(i) => i.range # << >>
              /\ i.op = "store" => Cells(i) \cap ReadOnly = {}
              /\ IsTable(i) => Cells(i) \subseteq ReadOnly
    /\ \A k, n \in DOMAIN code : IsTable(code[k]) /\ IsTable(code[n]) => code[k].range = code[n].range

Normalize ==
    /\ status = "new"
    /\ status' = IF Consistent THEN "eliminate" ELSE "rejected"
    /\ UNCHANGED <<inputs, analysis, live, before, chosen, emitted, source, target>>

Current == code[pos]

Modulus == IF ~ Computes(Current) \/ Current.mod # None THEN Current.mod ELSE context

-----------------------------------------------------------------------------
(* eliminate_io(), one operation a step.                                   *)

Shape(lines, kind) == [lines |-> lines, kind |-> kind]

CachedRead(value, shape) ==
    [range |-> Current.range, value |-> value, shape |-> shape, layout |-> Current.layout]

Resolved == [n \in DOMAIN Current.inputs |-> replacement[Current.inputs[n]]]

Producers(values) == {n \in DOMAIN kept : kept[n].output \in values}

Needs(operands, implicit) == Range(operands) \cup ({implicit} \ {None})

Implicit == IF Computes(Current) THEN table ELSE None

\* after are the memory_dependencies, cone is all that an operation needs.
Keep(dependencies) ==
    LET direct == Producers(Needs(Resolved, Implicit)) \cup dependencies
    IN  kept' = Append(kept,
            [op |-> Current.op, inputs |-> Resolved, output |-> Current.output, range |-> Current.range,
             kind |-> Current.kind, mod |-> Modulus, implicit |-> Implicit, after |-> dependencies,
             cone |-> direct \cup UNION {kept[n].cone : n \in direct}, origin |-> pos])

Step(ops) ==
    /\ status = "eliminate" /\ pos <= Len(code) /\ Current.op \in ops
    /\ pos' = pos + 1
    /\ source' = After(IF Computes(Current) /\ Modulus # None THEN Selecting(source, Modulus) ELSE source,
                       Current, pos)
    /\ UNCHANGED <<inputs, status, live, before, chosen, emitted, target>>

\* normalize() keeps neither context selections nor lifetime hints.
Drop ==
    /\ Step({"modld", "free"})
    /\ context' = IF Current.op = "modld" THEN Current.mod ELSE context
    /\ UNCHANGED <<kept, replacement, shapes, caches, memory, table>>

Requested == Shape(Len(Current.range), Current.kind)

Matching(entries) ==
    {e \in entries : /\ e.range = Current.range /\ e.shape = Requested
                     /\ e.layout = Current.layout}

Known ==
    IF ~ mode \in {"reuse", "reorder"} \/ IsTable(Current) THEN {}
    ELSE IF Matching(reads) # {} THEN Matching(reads) ELSE Matching(writes)

Merge ==
    /\ Step({"load"})
    /\ \E e \in Known : replacement' = [replacement EXCEPT ![Current.output] = e.value]
    /\ UNCHANGED <<context, kept, shapes, caches, memory, table>>

\* intersecting()
WritersOf(cells) == {lastWriters[c] : c \in cells} \ {0}

KeepLoad ==
    /\ Step({"load"})
    /\ Known = {}
    /\ Keep(WritersOf(Cells(Current)))
    /\ shapes' = [shapes EXCEPT ![Current.output] = Requested]
    /\ reads' = reads \cup {CachedRead(Current.output, Requested)}
    /\ table' = IF IsTable(Current) THEN Current.output ELSE table
    /\ UNCHANGED <<context, replacement, writes, memory>>

\* Mutant: what the store covers only in part stays known.
ValidRange(entries) == {e \in entries : e.range # Current.range}

\* invalidate()
Valid(entries) == {e \in entries : Range(e.range) \cap Cells(Current) = {}}

KeepStore ==
    /\ Step({"store"})
    /\ Keep({})
    /\ reads' = Valid(reads)
    /\ writes' = Valid(writes) \cup {CachedRead(Resolved[1], shapes[Resolved[1]])}
    /\ lastWriters' = [c \in ImageCells |-> IF c \in Cells(Current) THEN Len(kept) + 1 ELSE lastWriters[c]]
    /\ UNCHANGED <<context, replacement, shapes, table, observed>>

KeepKernel ==
    /\ Step({"arith", "stage", "mac"})
    /\ Keep({})
    /\ LET shape == shapes[Resolved[1]]
       IN  shapes' = [shapes EXCEPT ![Current.output] =
                         IF Current.tied = None THEN Shape(shape.lines, [shape.kind EXCEPT !.mask = {}])
                         ELSE shape]
    /\ UNCHANGED <<context, replacement, caches, memory, table>>

\* "A synchronization point is also a conservative external-memory visibility
\* boundary."
KeepSync ==
    /\ Step({"sync"})
    /\ Keep({})
    /\ reads' = {} /\ writes' = {}
    /\ observed' = observed \cup WritersOf(Observable)
    /\ UNCHANGED <<context, replacement, shapes, lastWriters, table>>

Roots == observed \cup WritersOf(Observable) \cup {n \in DOMAIN kept : kept[n].op = "sync"}

Reachable == Roots \cup UNION {kept[n].cone : n \in Roots}

Prune ==
    /\ status = "eliminate" /\ pos > Len(code)
    /\ live' = IF mode = "canonical" THEN DOMAIN kept ELSE Reachable
    /\ status' = "schedule"
    /\ UNCHANGED <<inputs, analysis, before, chosen, emitted, source, target>>

-----------------------------------------------------------------------------
(* schedule() and materialize().                                           *)

Earlier(n, ops) == {m \in live : m < n /\ kept[m].op \in ops}

Barrier(n) == Max({0} \cup Earlier(n, {"sync"}))

Since(n, ops) == {m \in Earlier(n, ops) : m > Barrier(n)}

\* Mutant: a store does not wait for the loads of what it overwrites.
AccessesWriters(n) == {m \in Since(n, {"store"}) : Cells(kept[m]) \cap Cells(kept[n]) # {}}

\* Loads and stores that a load or store of the same cells has to follow.  Those
\* hidden by a later store are ordered by that store.
Accesses(n) ==
    {m \in Since(n, IF kept[n].op = "load" THEN {"store"} ELSE {"load", "store"}) :
        Cells(kept[m]) \cap Cells(kept[n]) # {}}

\* Mutant: users of the new table are among them.
ContextUsersAll(n) == {m \in live \ {n} : Computes(kept[m])}

\* "MOD loads replace a fixed hardware context": they follow all who used it.
ContextUsers(n) ==
    LET previous == Max({0} \cup {m \in Earlier(n, {"load"}) : IsTable(kept[m])})
    IN  {m \in Earlier(n, {"arith", "stage", "mac"}) : m > previous}

Predecessors(n) ==
    (Producers(Needs(kept[n].inputs, kept[n].implicit)) \cap live)
    \cup (IF Barrier(n) # 0 THEN {Barrier(n)} ELSE {})
    \cup (IF IsDma(kept[n]) THEN Accesses(n) ELSE {})
    \cup (IF IsTable(kept[n]) THEN ContextUsers(n) ELSE {})
    \cup (IF kept[n].op = "sync" THEN {m \in live : Barrier(n) < m /\ m < n} ELSE {})

Schedule ==
    /\ status = "schedule"
    /\ before' = [n \in live |-> Predecessors(n)]
    /\ status' = "emit"
    /\ UNCHANGED <<inputs, analysis, live, chosen, emitted, source, target>>

Waiting == live \ emitted

\* available: "Loads become available when their dependencies finish, but are
\* emitted only immediately before a selected consumer."
Available == {n \in Waiting : kept[n].op = "load" /\ before[n] \subseteq emitted}

Ready ==
    LET ordered == emitted \cup Available
    IN  {n \in Waiting : kept[n].op # "load" /\ before[n] \subseteq ordered}

\* The score of a candidate only weighs traffic against pressure.
Candidates ==
    CASE mode # "reorder" -> {Min(Waiting)}
      [] mode = "reorder" /\ Ready # {} -> Ready
      [] OTHER -> Available

\* The machine after an operation and the PMODLD that it needs.
Materialized(m, n) ==
    LET node == kept[n]
    IN  After(IF Computes(node) /\ node.mod # None /\ m.selected # node.mod
              THEN Selecting(m, node.mod) ELSE m,
              node, node.origin)

\* The next operation: one that was chosen, after the loads that it waits for.
Emit ==
    /\ status = "emit" /\ Waiting # {}
    /\ \E goal \in IF chosen = 0 THEN Candidates ELSE {chosen} :
          LET loads == before[goal] \ emitted
              n     == Min(loads \cup {goal})
          IN  /\ target' = Materialized(target, n)
              /\ emitted' = emitted \cup {n}
              /\ chosen' = IF n = goal THEN 0 ELSE goal
    /\ UNCHANGED <<inputs, status, analysis, live, before, source>>

Return ==
    /\ status = "emit" /\ Waiting = {}
    /\ status' = "done"
    /\ UNCHANGED <<inputs, analysis, live, before, chosen, emitted, source, target>>

Next ==
    \/ Normalize
    \/ Drop \/ Merge \/ KeepLoad \/ KeepStore \/ KeepKernel \/ KeepSync
    \/ Prune \/ Schedule \/ Emit \/ Return

\* The optimizer is a function that returns or throws.
Spec == Init /\ [][Next]_vars /\ WF_vars(Next)

-----------------------------------------------------------------------------
(* Properties.                                                             *)

\* What is kept stays in SSA form: each operation has its operands, its modulus
\* table and the stores it reads from before it, also after pruning.
TypeOK ==
    /\ status \in {"new", "rejected", "eliminate", "schedule", "emit", "done"}
    /\ pos \in 1 .. Len(code) + 1
    /\ emitted \subseteq live /\ live \subseteq DOMAIN kept
    /\ \A n \in DOMAIN kept :
          \A v \in Range(kept[n].inputs) \cup {kept[n].implicit} :
              v # None => \E m \in 1 .. n - 1 : kept[m].output = v /\ (n \in live => m \in live)
    /\ \A n \in live : \A m \in kept[n].after : m < n /\ (mode # "canonical" => m \in live)

\* What is kept stays in SSA form; a merged load would have found the value that
\* takes its place, and each value that the result computes or loads is the one
\* the source program has.
ValuesAgree ==
    /\ TypeOK
    /\ \A v \in Values : source.values[v] # None => source.values[replacement[v]] = source.values[v]
    /\ \A v \in Values : target.values[v] # None => target.values[v] = source.values[v]

\* At every PSYNC, and at the end, observable memory is as the source program
\* leaves it, whatever was dropped, merged or moved.
OutputsAgree ==
    /\ IsPrefix(target.seen, source.seen) \/ status # "emit"
    /\ status = "done" =>
          /\ target.seen = source.seen
          /\ \A c \in Observable : target.memory[c] = source.memory[c]

\* "SSA scheduling dependency graph is cyclic" is never reported: some operation
\* can always be chosen until all are emitted.
Terminates == <>(status \in {"done", "rejected"})

================================================================================
