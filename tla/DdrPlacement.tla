----------------------------- MODULE DdrPlacement -----------------------------
(***************************************************************************)
(* Where the buffers of a compiled program lie in the memory image:        *)
(* analyze_buffers() and import_operator_program() give each buffer a      *)
(* lifetime, the scheduler extends it with every DMA it emits and adds     *)
(* buffers of its own for spills, and place_buffers() lets buffers whose   *)
(* lifetimes are apart share the lines of one arena.                       *)
(*                                                                         *)
(* The last phase runs the emitted DMAs on the image that was laid out     *)
(* (ddr), and on one in which every buffer has its own memory (apart).     *)
(* A DMA is a record with an op, "load" or "store", a buffer and the lines *)
(* of the buffer that it moves, counted from 0.                            *)
(***************************************************************************)
EXTENDS Integers, Sequences, FiniteSetsExt

CONSTANTS
    Sources,       \* the programs considered: buffers, instructions, required outputs
    MaxCursor,     \* bound on the position of an emission
    MaxEmitted,    \* bound on the number of emitted DMAs
    SpillSizes,    \* lengths of spilled objects
    MaxSpills,     \* bound on the number of spilled objects
    None

\* VirtualBuffer: origin is "image" (an allocation of the image), "copy" or
\* "spill"; constants stand for all kinds but workspace and output.
Kinds == {"workspace", "output", "constant"}
VirtualBuffer ==
    [lines : Nat \ {0}, origin : {"image", "copy", "spill"}, kind : Kinds, readOnly : BOOLEAN,
     first : Nat, last : Nat, defined : BOOLEAN, retained : BOOLEAN, materialized : BOOLEAN]

ASSUME SourcesAssumption ==
    /\ \A s \in Sources :
          /\ s.buffers \in Seq(VirtualBuffer)
          /\ \A b \in DOMAIN s.buffers :
                s.buffers[b].materialized /\ s.buffers[b].first <= s.buffers[b].last
          /\ \A b \in DOMAIN s.buffers :
                s.buffers[b].origin # "image" =>
                    /\ s.buffers[b].kind = "workspace"
                    /\ s.buffers[b].defined
                    /\ \A k \in DOMAIN s.dma : s.dma[k].buffer # b
          /\ \A k \in DOMAIN s.dma : s.dma[k].buffer \in DOMAIN s.buffers \cup {None}
          /\ s.dma \in Seq([op : {"load", "store", "kernel"}, buffer : Nat \cup {None}, lines : SUBSET Nat])
          /\ s.required \subseteq {b \in DOMAIN s.buffers : s.buffers[b].origin = "image"}
    /\ MaxCursor \in Nat /\ SpillSizes \subseteq Nat \ {0} /\ None \notin Nat

Buffer(lines, origin, kind, readOnly, at) ==
    [lines |-> lines, origin |-> origin, kind |-> kind, readOnly |-> readOnly,
     first |-> at, last |-> at, defined |-> TRUE, retained |-> FALSE, materialized |-> TRUE]

VARIABLES
    dma,           \* the instructions of the source program, of which DMAs matter
    buffers,       \* program.buffers, a sequence of VirtualBuffer
    required,      \* options.required_outputs
    optimized,     \* options.optimization is not no_opt
    prune,         \* options.prune_unused_buffers
    cursor,        \* cursor_
    trace,         \* scheduled.dma
    spans,         \* placement.span.line_offset of each buffer, None before
    used,          \* used_lines() of the new image
    arena,         \* arena_lines
    done,          \* how many DMAs of the trace have run
    apart,         \* contents of <<buffer, line>>, each in memory of its own
    ddr,           \* contents of the lines of the image
    phase

vars == <<dma, buffers, required, optimized, prune, cursor, trace, spans, used, arena,
          done, apart, ddr, phase>>
inputs    == <<dma, required, optimized, prune>>
placement == <<spans, used, arena>>
machine   == <<done, apart, ddr>>

Ids == DOMAIN buffers
Lines(b) == 0 .. buffers[b].lines - 1

Init ==
    /\ \E source \in Sources :
          dma = source.dma /\ buffers = source.buffers /\ required = source.required
    /\ optimized \in BOOLEAN /\ prune \in BOOLEAN
    /\ cursor = 1 /\ trace = << >>
    /\ spans = [b \in DOMAIN buffers |-> None]
    /\ used = 0 /\ arena = 0 /\ done = 0
    /\ apart = << >> /\ ddr = << >>
    /\ phase = "import"

-----------------------------------------------------------------------------
(* Lifetimes.                                                              *)

Touching(b) == {k \in DOMAIN dma : dma[k].buffer = b}
WrittenBefore(b, k) ==
    UNION {dma[n].lines : n \in {n \in Touching(b) : n < k /\ dma[n].op = "store"}}

\* No load reads a line that the program did not write before.
DefinedBeforeRead(b) ==
    \A k \in Touching(b) : dma[k].op = "load" => dma[k].lines \subseteq WrittenBefore(b, k)

\* analyze_buffers(); a buffer that no DMA touches is kept, from position 0.
Analyzed(b) ==
    LET defined == DefinedBeforeRead(b)
        unused  == Touching(b) = {}
    IN  [buffers[b] EXCEPT
            !.first = IF unused THEN 0 ELSE Min(Touching(b)),
            !.last = IF unused THEN 0 ELSE Max(Touching(b)),
            !.defined = defined,
            !.retained = buffers[b].kind # "workspace" \/ buffers[b].readOnly \/ ~ defined \/ unused]

\* Mutant: what the caller asked for may share its lines.
KeepAll(b, buffer) == buffer

\* Required outputs are kept, whatever their kind.
KeepRequired(b, buffer) == [buffer EXCEPT !.retained = @ \/ b \in required]

\* The buffers of exact copies have their lifetime from the import.
Import ==
    /\ phase = "import"
    /\ buffers' = [b \in Ids |->
            KeepRequired(b, IF buffers[b].origin = "image" THEN Analyzed(b) ELSE buffers[b])]
    /\ phase' = "schedule"
    /\ UNCHANGED <<inputs, cursor, trace, placement, machine>>

\* Mutant: the scheduler leaves lifetimes alone.
AsImported(buffer, now) == buffer

\* emit_dma() extends a lifetime to the position of the emission.
Extended(buffer, now) == [buffer EXCEPT !.first = Min({@, now}), !.last = Max({@, now})]

EmittedBefore(b) ==
    UNION {trace[n].lines : n \in {n \in DOMAIN trace : trace[n].buffer = b /\ trace[n].op = "store"}}

\* What a schedule of the program may emit (Scheduler.tla): it loads the initial
\* contents of a line only if the program does, and stores nothing to constants.
ReadInitially(b) ==
    UNION {dma[k].lines \ WrittenBefore(b, k) : k \in {k \in Touching(b) : dma[k].op = "load"}}
Emittable(b, op, lines) ==
    /\ op = "store" => ~ buffers[b].readOnly
    /\ op = "load" => lines \subseteq EmittedBefore(b) \cup ReadInitially(b)

\* at is the position whose instruction the scheduler was working on.
Emission(op, b, lines, at) == [op |-> op, buffer |-> b, lines |-> lines, at |-> at]

Scheduling == phase = "schedule" /\ Len(trace) < MaxEmitted

EmitDma ==
    /\ Scheduling
    /\ \E b \in Ids, op \in {"load", "store"}, now \in cursor .. MaxCursor :
          \E lines \in {Lines(b), {0}} :
             /\ Emittable(b, op, lines)
             /\ buffers' = [buffers EXCEPT ![b] = Extended(@, now)]
             /\ cursor' = now
             /\ trace' = Append(trace, Emission(op, b, lines, now))
    /\ UNCHANGED <<inputs, placement, machine, phase>>

\* evict(): the first spill of an object makes a buffer and stores to it.
Spill ==
    /\ Scheduling
    /\ Cardinality({b \in Ids : buffers[b].origin = "spill"}) < MaxSpills
    /\ \E size \in SpillSizes, now \in cursor .. MaxCursor :
          /\ buffers' = Append(buffers, Buffer(size, "spill", "workspace", FALSE, now))
          /\ cursor' = now
          /\ trace' = Append(trace, Emission("store", Len(buffers) + 1, 0 .. size - 1, now))
          /\ spans' = Append(spans, None)
    /\ UNCHANGED <<inputs, used, arena, machine, phase>>

\* prune_unused_buffers: buffers without a DMA get no memory, and outputs that
\* nobody asked for are scratch memory.
Pruned(b) ==
    LET unwanted == buffers[b].kind = "output" /\ b \notin required
    IN  [buffers[b] EXCEPT
            !.materialized = \E n \in DOMAIN trace : trace[n].buffer = b,
            !.kind = IF unwanted THEN "workspace" ELSE @,
            !.retained = IF unwanted THEN ~ buffers[b].defined ELSE @]

EndSchedule ==
    /\ phase = "schedule"
    /\ buffers' = IF prune THEN [b \in Ids |-> Pruned(b)] ELSE buffers
    /\ phase' = "place"
    /\ UNCHANGED <<inputs, cursor, trace, placement, machine>>

-----------------------------------------------------------------------------
(* place_buffers().                                                        *)

Shared(b) == ~ buffers[b].retained /\ optimized
Unplaced == {b \in Ids : buffers[b].materialized /\ spans[b] = None}
Kept     == {b \in Unplaced : ~ Shared(b)}
Scratch  == {b \in Unplaced : Shared(b)}
Placed   == {b \in Ids : Shared(b) /\ spans[b] # None}

\* Mutant: the lines of exact copies are forgotten.
CapacityWithoutCopies ==
    Max({1, MapThenSumSet(LAMBDA b : buffers[b].lines, {b \in Ids : buffers[b].origin # "copy"})})

\* The lines of the image that is laid out.
Capacity == Max({1, MapThenSumSet(LAMBDA b : buffers[b].lines, Ids)})

\* reserve() or add() at the end of what is used.
PlaceKept ==
    /\ phase = "place"
    /\ \E b \in Kept :
          /\ \A c \in Kept : b <= c
          /\ IF buffers[b].lines <= Capacity - used
             THEN /\ spans' = [spans EXCEPT ![b] = used]
                  /\ used' = used + buffers[b].lines
                  /\ UNCHANGED phase
             ELSE phase' = "full" /\ UNCHANGED <<spans, used>>
    /\ UNCHANGED <<inputs, buffers, cursor, trace, arena, machine>>

\* Mutant: a buffer may begin in the position in which another one ends.
MeetStrictly(a, b) == a.first < b.last /\ b.first < a.last

\* Two lifetimes have a position in common.
Meet(a, b) == a.first <= b.last /\ b.first <= a.last

Ends(b) == spans[b] + buffers[b].lines

\* b would touch none of some placed buffers.
Free(offset, b, occupied) ==
    \A c \in occupied : offset + buffers[b].lines <= spans[c] \/ Ends(c) <= offset

\* The loop over the occupied spans, which looks for the first gap that is long
\* enough: the lowest line from which b touches none of them.
IsOffset(offset, b, occupied) ==
    LET starts == {0} \cup {Ends(c) : c \in occupied}
    IN  /\ offset \in starts /\ Free(offset, b, occupied)
        /\ \A other \in starts : Free(other, b, occupied) => offset <= other

ArenaWith(offset, b) == Max({arena, offset + buffers[b].lines})

\* Scratch buffers are placed in the order of their first use.
ComesFirst(b) ==
    \A c \in Scratch \ {b} :
        \/ buffers[b].first < buffers[c].first
        \/ buffers[b].first = buffers[c].first /\ b < c

\* Spans of scratch buffers are relative to the arena until it is reserved.
PlaceScratch ==
    /\ phase = "place" /\ Kept = {}
    /\ \E b \in Scratch :
          LET occupied == {c \in Placed : Meet(buffers[b], buffers[c])}
          IN  /\ ComesFirst(b)
              /\ \E offset \in 0 .. arena :
                    /\ IsOffset(offset, b, occupied)
                    /\ spans' = [spans EXCEPT ![b] = offset]
                    /\ arena' = ArenaWith(offset, b)
    /\ UNCHANGED <<inputs, buffers, cursor, trace, used, machine, phase>>

\* What a line holds before the program runs: add() copies an allocation of the
\* original image, reserve() fills with zeros.
Initially(b, line) == IF buffers[b].origin = "image" THEN <<"image", b, line>> ELSE <<"zero">>

\* The kept buffers that lie on a line.
Owners(line) == {b \in Ids : spans[b] # None /\ ~ Shared(b) /\ line \in spans[b] .. Ends(b) - 1}

\* The arena is reserved and the image trimmed; an empty one is refused.
EndPlace ==
    /\ phase = "place" /\ Unplaced = {}
    /\ spans' = [b \in Ids |-> IF Shared(b) /\ spans[b] # None THEN used + spans[b] ELSE spans[b]]
    /\ used' = used + arena
    /\ phase' = IF arena > Capacity - used THEN "full" ELSE IF used' = 0 THEN "refused" ELSE "run"
    /\ apart' = [cell \in {cell \in Ids \X (0 .. used') : cell[2] \in Lines(cell[1])} |->
                    Initially(cell[1], cell[2])]
    /\ ddr' = [line \in 0 .. used' - 1 |->
                  IF Owners(line) = {} THEN <<"zero">>
                  ELSE LET b == CHOOSE b \in Owners(line) : TRUE IN Initially(b, line - spans[b])]
    /\ UNCHANGED <<inputs, buffers, cursor, trace, arena, done>>

-----------------------------------------------------------------------------
(* The program that was compiled runs.                                     *)

Now == trace[done + 1]
Cells == {<<Now.buffer, line>> : line \in Now.lines}
Physical == {spans[Now.buffer] + line : line \in Now.lines}

Run ==
    /\ phase = "run" /\ done < Len(trace)
    /\ done' = done + 1
    /\ IF Now.op = "store"
       THEN /\ apart' = [cell \in DOMAIN apart |->
                            IF cell \in Cells THEN <<"stored", done, cell[2]>> ELSE apart[cell]]
            /\ ddr' = [line \in DOMAIN ddr |->
                            IF line \in Physical
                            THEN <<"stored", done, line - spans[Now.buffer]>> ELSE ddr[line]]
       ELSE UNCHANGED <<apart, ddr>>
    /\ UNCHANGED <<inputs, buffers, cursor, trace, placement, phase>>

Next ==
    \/ Import \/ EmitDma \/ Spill \/ EndSchedule
    \/ PlaceKept \/ PlaceScratch \/ EndPlace \/ Run

Spec == Init /\ [][Next]_vars

-----------------------------------------------------------------------------
(* Properties.                                                             *)

HasSpan(b) == spans[b] # None
Position(b) == spans[b] + (IF phase = "place" /\ Shared(b) THEN used ELSE 0)
LinesOf(b) == Position(b) .. Position(b) + buffers[b].lines - 1

\* Every placed buffer lies in the image, and lifetimes are intervals.
TypeOK ==
    /\ phase \in {"import", "schedule", "place", "run", "full", "refused"}
    /\ DOMAIN spans = Ids /\ used \in Nat /\ arena \in Nat
    /\ \A b \in Ids : buffers[b].first <= buffers[b].last
    /\ \A b \in Ids : HasSpan(b) => LinesOf(b) \subseteq 0 .. used + arena - 1

\* Only scratch buffers share lines, and only such as are never in use in the same
\* position of the program.
Life(b) == buffers[b].first .. buffers[b].last
Exclusive ==
    phase \in {"place", "run"} => \A a, b \in Ids :
        a # b /\ HasSpan(a) /\ HasSpan(b) /\ LinesOf(a) \cap LinesOf(b) # {}
        => Shared(a) /\ Shared(b) /\ Life(a) \cap Life(b) = {}

\* Whatever the scheduler moved, added or left out, a load finds what it would find
\* if every buffer had memory of its own.
LoadsAgree ==
    phase = "run" /\ done < Len(trace) /\ Now.op = "load"
    => \A line \in Now.lines : ddr[spans[Now.buffer] + line] = apart[<<Now.buffer, line>>]

\* When the program has run, the required outputs, and all memory of the image that
\* is not workspace, hold what they would hold then.
Wanted(b) == buffers[b].materialized /\ (b \in required \/ buffers[b].kind # "workspace")
OutputsAgree ==
    phase = "run" /\ done = Len(trace)
    => \A b \in Ids : Wanted(b) =>
          \A line \in Lines(b) : ddr[spans[b] + line] = apart[<<b, line>>]

\* The capacity that compile_resources() computes, without regard to how lifetimes
\* fall, is always enough, and every placed buffer lies within it.
NeverFull == phase # "full" /\ TypeOK

===============================================================================
