------------------------- MODULE DdrPlacement_proofs -------------------------
(***************************************************************************)
(* Proofs about DdrPlacement, for any program, schedule and spills.        *)
(***************************************************************************)
EXTENDS DdrPlacement, SequenceTheorems, FiniteSetTheorems, WellFoundedInduction, TLAPS

-----------------------------------------------------------------------------
(* Helpers.                                                                *)

\* A set of natural numbers has a least element.
LEMMA MinIn ==
    ASSUME NEW T, T \subseteq Nat, T # {}
    PROVE  Min(T) \in T /\ \A n \in T : Min(T) <= n
  <1> DEFINE R == OpToRel(<, Nat)
  <1>0. IsWellFoundedOn(R, Nat)
    BY NatLessThanWellFounded
  <1>1. \E m \in T : \A n \in T : ~ (<<n, m>> \in R)
    <2> HIDE DEF R
    <2> QED
      BY <1>0, WFMin
  <1>2. \A n, m \in Nat : n < m => <<n, m>> \in R
    BY DEF OpToRel
  <1>3. \E m \in T : \A n \in T : m <= n
    <2>1. PICK m \in T : \A n \in T : ~ (<<n, m>> \in R)
      BY <1>1
    <2>2. \A n \in T : ~ (n < m)
      BY <1>2, <2>1, Zenon
    <2> QED
      BY <2>2
  <1> QED
    BY <1>3 DEF Min

\* A bounded one has a greatest element.
LEMMA MaxIn ==
    ASSUME NEW T, NEW bound \in Nat, T \subseteq 0 .. bound, T # {}
    PROVE  Max(T) \in T /\ \A n \in T : n <= Max(T)
  <1> DEFINE mirror == {bound - n : n \in T}
  <1>1. mirror \subseteq Nat /\ mirror # {}
    <2>1. \A n \in T : bound - n \in Nat
      OBVIOUS
    <2> QED
      BY <2>1
  <1>2. Min(mirror) \in mirror /\ \A n \in mirror : Min(mirror) <= n
    BY <1>1, MinIn
  <1>3. PICK m \in T : Min(mirror) = bound - m
    BY <1>2
  <1>4. \A n \in T : bound - n \in mirror
    OBVIOUS
  <1>5. \A n \in T : n <= m
    <2> HIDE DEF mirror
    <2> QED
      BY <1>2, <1>3, <1>4
  <1> QED
    BY <1>5 DEF Max

\* What a function with a new value at one place is.
LEMMA SeqOf ==
    ASSUME NEW S, NEW n \in Nat, NEW f \in [1 .. n -> S]
    PROVE  f \in Seq(S) /\ Len(f) = n
  OBVIOUS

\* Extending a lifetime keeps a buffer a buffer, with the old positions and a new one.
LEMMA ExtendedBuffer ==
    ASSUME NEW buffer \in VirtualBuffer, NEW now \in Nat
    PROVE  /\ Extended(buffer, now) \in VirtualBuffer
           /\ \E first, last \in Nat :
                 /\ Extended(buffer, now) = [buffer EXCEPT !.first = first, !.last = last]
                 /\ first <= now /\ now <= last
                 /\ first <= buffer.first /\ buffer.last <= last
  <1> DEFINE first == Min({buffer.first, now})
             last  == Max({buffer.last, now})
  <1>1. buffer.first \in Nat /\ buffer.last \in Nat
    BY DEF VirtualBuffer
  <1>2. first \in Nat /\ first <= now /\ first <= buffer.first
    BY <1>1, MinIn
  <1>3. last \in Nat /\ now <= last /\ buffer.last <= last
    <2>1. {buffer.last, now} \subseteq 0 .. (buffer.last + now)
      BY <1>1
    <2> QED
      BY <1>1, <2>1, MaxIn
  <1>4. Extended(buffer, now) = [buffer EXCEPT !.first = first, !.last = last]
    BY DEF Extended
  <1>5. Extended(buffer, now) \in VirtualBuffer
    <2> HIDE DEF first, last
    <2> QED
      BY <1>2, <1>3, <1>4 DEF VirtualBuffer
  <1> QED
    BY <1>2, <1>3, <1>4, <1>5

\* What analyze_buffers(), the required outputs and the pruning change of a buffer
\* leaves it a buffer.
LEMMA DescribedBuffer ==
    \A buffer \in VirtualBuffer, first, last \in Nat, defined, retained \in BOOLEAN :
        [buffer EXCEPT !.first = first, !.last = last, !.defined = defined,
                       !.retained = retained] \in VirtualBuffer
  BY DEF VirtualBuffer

LEMMA RetainedBuffer ==
    \A buffer \in VirtualBuffer, retained \in BOOLEAN :
        [buffer EXCEPT !.retained = retained] \in VirtualBuffer
  BY DEF VirtualBuffer

LEMMA PrunedBuffer ==
    \A buffer \in VirtualBuffer, materialized, retained \in BOOLEAN, kind \in Kinds :
        [buffer EXCEPT !.materialized = materialized, !.kind = kind,
                       !.retained = retained] \in VirtualBuffer
  BY DEF VirtualBuffer

-----------------------------------------------------------------------------
(* Where buffers lie.                                                      *)

Instructions ==
    Seq([op : {"load", "store", "kernel"}, buffer : Nat \cup {None}, lines : SUBSET Nat])

Types ==
    /\ buffers \in Seq(VirtualBuffer) /\ dma \in Instructions
    /\ spans \in Seq(Nat \cup {None}) /\ Len(spans) = Len(buffers)
    /\ used \in Nat /\ arena \in Nat /\ cursor \in Nat

Unlaid == phase \in {"import", "schedule"} => \A b \in Ids : spans[b] = None

Apart(a, b) == Ends(a) <= spans[b] \/ Ends(b) <= spans[a]

\* While buffers are placed, kept ones lie in the used lines and scratch ones in
\* the arena, which begins at 0.
Layout ==
    phase = "place" =>
        /\ \A b \in Ids : HasSpan(b) => Ends(b) <= IF Shared(b) THEN arena ELSE used
        /\ \A a, b \in Ids :
              a # b /\ HasSpan(a) /\ HasSpan(b) /\ (Shared(a) <=> Shared(b))
              => Apart(a, b) \/ (Shared(a) /\ ~ Meet(buffers[a], buffers[b]))

\* Then all lie in the used lines.
Laid ==
    phase = "run" =>
        /\ \A b \in Ids : HasSpan(b) => Ends(b) <= used
        /\ \A a, b \in Ids :
              a # b /\ HasSpan(a) /\ HasSpan(b)
              => Apart(a, b) \/ (Shared(a) /\ Shared(b) /\ ~ Meet(buffers[a], buffers[b]))

IInv == Types /\ Unlaid /\ Layout /\ Laid

\* What the types say of a buffer.
LEMMA Fields ==
    ASSUME Types
    PROVE  /\ Ids = 1 .. Len(buffers) /\ Len(buffers) \in Nat /\ DOMAIN spans = Ids
           /\ \A b \in Ids :
                 /\ buffers[b] \in VirtualBuffer
                 /\ buffers[b].lines \in Nat /\ buffers[b].lines > 0
                 /\ buffers[b].first \in Nat /\ buffers[b].last \in Nat
                 /\ HasSpan(b) => spans[b] \in Nat /\ Ends(b) \in Nat
  <1>1. Ids = 1 .. Len(buffers) /\ Len(buffers) \in Nat /\ DOMAIN spans = Ids
    BY DEF Types, Ids
  <1>2. \A b \in Ids : buffers[b] \in VirtualBuffer /\ spans[b] \in Nat \cup {None}
    BY <1>1 DEF Types
  <1>3. \A buffer \in VirtualBuffer :
            buffer.lines \in Nat /\ buffer.lines > 0 /\ buffer.first \in Nat /\ buffer.last \in Nat
    BY DEF VirtualBuffer
  <1> QED
    BY <1>1, <1>2, <1>3 DEF HasSpan, Ends

\* The initial state.
LEMMA InitIInv == Init => IInv
  <1> SUFFICES ASSUME Init PROVE IInv
    OBVIOUS
  <1>1. PICK source \in Sources :
            dma = source.dma /\ buffers = source.buffers /\ required = source.required
    BY DEF Init
  <1>2. buffers \in Seq(VirtualBuffer) /\ dma \in Instructions
    BY <1>1, SourcesAssumption DEF Instructions
  <1>3. spans = [b \in 1 .. Len(buffers) |-> None]
    BY <1>2 DEF Init
  <1>4. spans \in Seq(Nat \cup {None}) /\ Len(spans) = Len(buffers)
    <2>1. spans \in [1 .. Len(buffers) -> Nat \cup {None}]
      BY <1>3
    <2> QED
      BY <1>2, <2>1, SeqOf
  <1>5. Types
    BY <1>2, <1>4 DEF Init, Types
  <1>6. \A b \in Ids : spans[b] = None
    BY <1>2, <1>3 DEF Ids
  <1> QED
    BY <1>5, <1>6 DEF Init, IInv, Unlaid, Layout, Laid

\* What analyze_buffers() makes of a buffer is one.
LEMMA ImportedBuffer ==
    ASSUME Types, NEW b \in Ids
    PROVE  KeepRequired(b, IF buffers[b].origin = "image" THEN Analyzed(b) ELSE buffers[b])
               \in VirtualBuffer
  <1> DEFINE unused == Touching(b) = {}
             first == IF unused THEN 0 ELSE Min(Touching(b))
             last == IF unused THEN 0 ELSE Max(Touching(b))
             defined == DefinedBeforeRead(b)
             retained == buffers[b].kind # "workspace" \/ buffers[b].readOnly \/ ~ defined \/ unused
  <1>1. buffers[b] \in VirtualBuffer
    BY DEF Types, Ids
  <1>2. Touching(b) \subseteq 0 .. Len(dma) /\ Len(dma) \in Nat
    BY DEF Types, Touching, Instructions
  <1>3. first \in Nat
    BY <1>2, MinIn
  <1>4. last \in Nat
    BY <1>2, MaxIn
  <1>5. retained \in BOOLEAN /\ defined \in BOOLEAN
    BY DEF DefinedBeforeRead
  <1>6. Analyzed(b) = [buffers[b] EXCEPT !.first = first, !.last = last,
                          !.defined = defined, !.retained = retained]
    BY DEF Analyzed
  <1>7. Analyzed(b) \in VirtualBuffer
    <2> HIDE DEF first, last, defined, retained
    <2>1. [buffers[b] EXCEPT !.first = first, !.last = last,
                             !.defined = defined, !.retained = retained] \in VirtualBuffer
      BY <1>1, <1>3, <1>4, <1>5, DescribedBuffer, Zenon
    <2> QED
      BY <1>6, <2>1, Zenon
  <1>8. \A buffer \in VirtualBuffer : KeepRequired(b, buffer) \in VirtualBuffer
    <2> TAKE buffer \in VirtualBuffer
    <2> DEFINE kept == buffer.retained \/ b \in required
    <2>1. kept \in BOOLEAN
      OBVIOUS
    <2>2. KeepRequired(b, buffer) = [buffer EXCEPT !.retained = kept]
      BY DEF KeepRequired
    <2> HIDE DEF kept
    <2> QED
      BY <2>1, <2>2, RetainedBuffer
  <1> QED
    BY <1>1, <1>7, <1>8

\* What pruning makes of a buffer is one.
LEMMA PrunedIsBuffer ==
    ASSUME Types, NEW b \in Ids
    PROVE  Pruned(b) \in VirtualBuffer
  <1> DEFINE unwanted == buffers[b].kind = "output" /\ b \notin required
             materialized == \E n \in DOMAIN trace : trace[n].buffer = b
             kind == IF unwanted THEN "workspace" ELSE buffers[b].kind
             retained == IF unwanted THEN ~ buffers[b].defined ELSE buffers[b].retained
  <1>1. buffers[b] \in VirtualBuffer
    BY DEF Types, Ids
  <1>2. materialized \in BOOLEAN /\ retained \in BOOLEAN /\ kind \in Kinds
    BY <1>1 DEF VirtualBuffer, Kinds
  <1>3. Pruned(b) = [buffers[b] EXCEPT !.materialized = materialized, !.kind = kind,
                                       !.retained = retained]
    BY DEF Pruned
  <1> HIDE DEF materialized, kind, retained
  <1>4. [buffers[b] EXCEPT !.materialized = materialized, !.kind = kind,
                           !.retained = retained] \in VirtualBuffer
    BY <1>1, <1>2, PrunedBuffer, Zenon
  <1> QED
    BY <1>3, <1>4, Zenon

\* A step that gives buffers other contents and places none.
LEMMA NotPlacing ==
    ASSUME Types, Unlaid, phase \in {"import", "schedule"}, phase' \in {"schedule", "place"},
           cursor' \in Nat, UNCHANGED <<dma, used, arena, spans>>,
           buffers' \in Seq(VirtualBuffer), Len(buffers') = Len(buffers)
    PROVE  IInv'
  <1>1. Types'
    BY DEF Types
  <1>2. \A b \in Ids' : ~ HasSpan(b)'
    BY <1>1 DEF Types, Unlaid, Ids, HasSpan
  <1> QED
    BY <1>1, <1>2 DEF IInv, Unlaid, Layout, Laid, HasSpan, Ids

\* One lemma for each action.
LEMMA ImportSafe == IInv /\ Import => IInv'
  <1> SUFFICES ASSUME IInv, Import PROVE IInv'
    OBVIOUS
  <1>1. Ids = 1 .. Len(buffers) /\ Len(buffers) \in Nat
    BY DEF IInv, Types, Ids
  <1>2. buffers' \in [1 .. Len(buffers) -> VirtualBuffer]
    BY <1>1, ImportedBuffer DEF IInv, Import
  <1>3. buffers' \in Seq(VirtualBuffer) /\ Len(buffers') = Len(buffers)
    BY <1>1, <1>2, SeqOf
  <1> QED
    BY <1>3, NotPlacing DEF IInv, Types, Import, inputs, placement

LEMMA EmitDmaSafe == IInv /\ EmitDma => IInv'
  <1> SUFFICES ASSUME IInv, EmitDma PROVE IInv'
    OBVIOUS
  <1>1. PICK b \in Ids, now \in cursor .. MaxCursor :
            buffers' = [buffers EXCEPT ![b] = Extended(@, now)] /\ cursor' = now
    BY DEF EmitDma
  <1>2. now \in Nat /\ buffers[b] \in VirtualBuffer
    BY SourcesAssumption DEF IInv, Types, Ids
  <1>3. Extended(buffers[b], now) \in VirtualBuffer
    BY <1>2, ExtendedBuffer
  <1>4. buffers' \in Seq(VirtualBuffer) /\ Len(buffers') = Len(buffers)
    BY <1>1, <1>3 DEF IInv, Types, Ids
  <1> QED
    BY <1>1, <1>2, <1>4, NotPlacing DEF IInv, EmitDma, Scheduling, inputs, placement

LEMMA SpillSafe == IInv /\ Spill => IInv'
  <1> SUFFICES ASSUME IInv, Spill PROVE IInv'
    OBVIOUS
  <1>1. PICK size \in SpillSizes, now \in cursor .. MaxCursor :
            /\ buffers' = Append(buffers, Buffer(size, "spill", "workspace", FALSE, now))
            /\ cursor' = now
            /\ spans' = Append(spans, None)
    BY DEF Spill
  <1>2. now \in Nat
    BY SourcesAssumption DEF IInv, Types
  <1>3. Buffer(size, "spill", "workspace", FALSE, now) \in VirtualBuffer
    BY <1>2, SourcesAssumption DEF Buffer, VirtualBuffer, Kinds
  <1>4. Types'
    <2>1. buffers' \in Seq(VirtualBuffer) /\ Len(buffers') = Len(buffers) + 1
      <3>1. buffers \in Seq(VirtualBuffer)
        BY DEF IInv, Types
      <3> QED
        BY <1>1, <1>3, <3>1, AppendProperties, Zenon
    <2>2. spans' \in Seq(Nat \cup {None}) /\ Len(spans') = Len(spans) + 1
      BY <1>1 DEF IInv, Types
    <2>3. /\ UNCHANGED <<dma, used, arena>> /\ cursor' \in Nat
          /\ Len(spans) = Len(buffers) /\ dma \in Instructions /\ used \in Nat /\ arena \in Nat
      BY <1>1, <1>2 DEF IInv, Types, Spill, inputs
    <2> QED
      BY <2>1, <2>2, <2>3 DEF Types
  <1>5. phase = "schedule" /\ phase' = "schedule"
    BY DEF Spill, Scheduling
  <1>6. Ids' = 1 .. Len(buffers) + 1
    BY <1>1, <1>3 DEF IInv, Types, Ids
  <1>7. \A b \in 1 .. Len(buffers) : spans[b] = None
    BY <1>5 DEF IInv, Types, Unlaid, Ids
  <1>8. \A b \in Ids' : spans'[b] = None
    BY <1>1, <1>6, <1>7 DEF IInv, Types
  <1> QED
    BY <1>4, <1>5, <1>8 DEF IInv, Unlaid, Layout, Laid

LEMMA EndScheduleSafe == IInv /\ EndSchedule => IInv'
  <1> SUFFICES ASSUME IInv, EndSchedule PROVE IInv'
    OBVIOUS
  <1>1. Ids = 1 .. Len(buffers) /\ Len(buffers) \in Nat
    BY DEF IInv, Types, Ids
  <1>2. [b \in Ids |-> Pruned(b)] \in [1 .. Len(buffers) -> VirtualBuffer]
    BY <1>1, PrunedIsBuffer DEF IInv
  <1>3. /\ [b \in Ids |-> Pruned(b)] \in Seq(VirtualBuffer)
        /\ Len([b \in Ids |-> Pruned(b)]) = Len(buffers)
    BY <1>1, <1>2, SeqOf
  <1>4. buffers' \in Seq(VirtualBuffer) /\ Len(buffers') = Len(buffers)
    BY <1>3 DEF IInv, Types, EndSchedule
  <1> QED
    BY <1>4, NotPlacing DEF IInv, Types, EndSchedule, inputs, placement

\* A kept buffer goes after all others of its kind.
LEMMA PlaceKeptSafe == IInv /\ PlaceKept => IInv'
  <1> SUFFICES ASSUME IInv, PlaceKept PROVE IInv'
    OBVIOUS
  <1>0. Types /\ used \in Nat /\ arena \in Nat
    BY DEF IInv, Types
  <1>1. phase = "place" /\ UNCHANGED <<buffers, optimized, dma, cursor, arena>>
    BY DEF PlaceKept, inputs
  <1>2. \A c \in Ids : Shared(c)' = Shared(c)
    BY <1>1 DEF Shared
  <1>3. CASE UNCHANGED <<spans, used>> /\ phase' = "full"
    BY <1>1, <1>3 DEF IInv, Types, Unlaid, Layout, Laid
  <1>4. CASE \E b \in Kept : /\ spans' = [spans EXCEPT ![b] = used]
                             /\ used' = used + buffers[b].lines
                             /\ UNCHANGED phase
    <2>1. PICK b \in Kept : /\ spans' = [spans EXCEPT ![b] = used]
                            /\ used' = used + buffers[b].lines
                            /\ UNCHANGED phase
      BY <1>4
    <2>2. b \in Ids /\ ~ HasSpan(b) /\ ~ Shared(b) /\ buffers[b].lines \in Nat
      BY <1>0, Fields DEF Kept, Unplaced, HasSpan
    <2>3. Types'
      BY <1>0, <1>1, <2>1, <2>2, Fields DEF Types
    <2>4. \A c \in Ids \ {b} : spans'[c] = spans[c] /\ Ends(c)' = Ends(c)
      BY <1>1, <2>1 DEF Ends
    <2>5. spans'[b] = used /\ Ends(b)' = used'
      BY <1>0, <1>1, <2>1, <2>2, Fields DEF Ends
    <2>6. Ids' = Ids /\ used' \in Nat /\ used <= used' /\ arena' = arena
      BY <1>0, <1>1, <2>1, <2>2 DEF Ids
    <2>7. \A c \in Ids : HasSpan(c)' /\ c # b => HasSpan(c) /\ spans[c] \in Nat /\ Ends(c) \in Nat
      BY <1>0, <2>4, Fields DEF HasSpan
    <2>8. \A c \in Ids : HasSpan(c) => Ends(c) <= IF Shared(c) THEN arena ELSE used
      BY <1>1 DEF IInv, Layout
    <2>9. \A c \in Ids : HasSpan(c)' => Ends(c)' <= IF Shared(c)' THEN arena' ELSE used'
      BY <1>0, <1>2, <2>2, <2>4, <2>5, <2>6, <2>7, <2>8
    <2>10. \A a, c \in Ids :
             a # c /\ HasSpan(a)' /\ HasSpan(c)' /\ (Shared(a)' <=> Shared(c)')
             => Apart(a, c)' \/ (Shared(a)' /\ ~ Meet(buffers[a], buffers[c])')
      <3> SUFFICES ASSUME NEW a \in Ids, NEW c \in Ids, a # c, HasSpan(a)', HasSpan(c)',
                          Shared(a)' <=> Shared(c)'
                   PROVE  Apart(a, c)' \/ (Shared(a)' /\ ~ Meet(buffers[a], buffers[c])')
        OBVIOUS
      <3>1. CASE a = b
        BY <1>2, <2>2, <2>4, <2>5, <2>7, <2>8, <3>1 DEF Apart
      <3>2. CASE c = b
        BY <1>2, <2>2, <2>4, <2>5, <2>7, <2>8, <3>2 DEF Apart
      <3>3. CASE a # b /\ c # b
        BY <1>1, <1>2, <2>4, <2>7, <3>3 DEF IInv, Layout, Apart, Meet
      <3> QED
        BY <3>1, <3>2, <3>3
    <2> QED
      BY <1>1, <2>1, <2>3, <2>6, <2>9, <2>10 DEF IInv, Unlaid, Layout, Laid
  <1> QED
    BY <1>3, <1>4 DEF PlaceKept

\* A scratch buffer goes where it touches none that it meets.
LEMMA PlaceScratchSafe == IInv /\ PlaceScratch => IInv'
  <1> SUFFICES ASSUME IInv, PlaceScratch PROVE IInv'
    OBVIOUS
  <1>0. Types /\ used \in Nat /\ arena \in Nat
    BY DEF IInv, Types
  <1>1. /\ phase = "place" /\ phase' = "place"
        /\ UNCHANGED <<buffers, optimized, dma, cursor, used>>
    BY DEF PlaceScratch, inputs
  <1>2. \A c \in Ids : Shared(c)' = Shared(c)
    BY <1>1 DEF Shared
  <1>3. PICK b \in Scratch, offset \in 0 .. arena :
            /\ IsOffset(offset, b, {c \in Placed : Meet(buffers[b], buffers[c])})
            /\ spans' = [spans EXCEPT ![b] = offset]
            /\ arena' = ArenaWith(offset, b)
    BY DEF PlaceScratch
  <1>4. b \in Ids /\ ~ HasSpan(b) /\ Shared(b) /\ buffers[b].lines \in Nat
    BY <1>0, Fields DEF Scratch, Unplaced, HasSpan
  <1>5. arena' \in Nat /\ arena <= arena' /\ offset + buffers[b].lines <= arena'
    <2> DEFINE ends == {arena, offset + buffers[b].lines}
    <2>1. ends \subseteq 0 .. (arena + offset + buffers[b].lines)
      BY <1>0, <1>4
    <2>2. Max(ends) \in ends /\ \A n \in ends : n <= Max(ends)
      BY <1>0, <1>4, <2>1, MaxIn
    <2>3. arena' = Max(ends)
      BY <1>3 DEF ArenaWith
    <2> QED
      BY <1>0, <1>4, <2>2, <2>3
  <1>6. Types'
    BY <1>0, <1>1, <1>3, <1>4, <1>5, Fields DEF Types
  <1>7. \A c \in Ids \ {b} : spans'[c] = spans[c] /\ Ends(c)' = Ends(c)
    BY <1>1, <1>3 DEF Ends
  <1>8. spans'[b] = offset /\ Ends(b)' = offset + buffers[b].lines
    BY <1>0, <1>1, <1>3, <1>4, Fields DEF Ends
  <1>9. \A c \in Ids : HasSpan(c)' /\ c # b => HasSpan(c) /\ spans[c] \in Nat /\ Ends(c) \in Nat
    BY <1>0, <1>7, Fields DEF HasSpan
  <1>10. \A c \in Ids : HasSpan(c) /\ Shared(c) /\ Meet(buffers[b], buffers[c])
             => offset + buffers[b].lines <= spans[c] \/ Ends(c) <= offset
    BY <1>3 DEF IsOffset, Free, Placed, HasSpan
  <1>11. \A c \in Ids : Meet(buffers[b], buffers[c]) <=> Meet(buffers[c], buffers[b])
    BY DEF Meet
  <1>12. \A c \in Ids : HasSpan(c)' => Ends(c)' <= IF Shared(c)' THEN arena' ELSE used'
    <2>1. \A c \in Ids : HasSpan(c) => Ends(c) <= IF Shared(c) THEN arena ELSE used
      BY <1>1 DEF IInv, Layout
    <2> QED
      BY <1>0, <1>1, <1>2, <1>4, <1>5, <1>7, <1>8, <1>9, <2>1
  <1>13. \A a, c \in Ids :
             a # c /\ HasSpan(a)' /\ HasSpan(c)' /\ (Shared(a)' <=> Shared(c)')
             => Apart(a, c)' \/ (Shared(a)' /\ ~ Meet(buffers[a], buffers[c])')
    <2> SUFFICES ASSUME NEW a \in Ids, NEW c \in Ids, a # c, HasSpan(a)', HasSpan(c)',
                        Shared(a)' <=> Shared(c)'
                 PROVE  Apart(a, c)' \/ (Shared(a)' /\ ~ Meet(buffers[a], buffers[c])')
      OBVIOUS
    <2>1. CASE a = b
      BY <1>1, <1>2, <1>4, <1>7, <1>8, <1>9, <1>10, <2>1 DEF Apart, Meet
    <2>2. CASE c = b
      BY <1>1, <1>2, <1>4, <1>7, <1>8, <1>9, <1>10, <1>11, <2>2 DEF Apart, Meet
    <2>3. CASE a # b /\ c # b
      BY <1>1, <1>2, <1>7, <1>9, <2>3 DEF IInv, Layout, Apart, Meet
    <2> QED
      BY <2>1, <2>2, <2>3
  <1> QED
    BY <1>1, <1>6, <1>12, <1>13 DEF IInv, Unlaid, Layout, Laid, Ids

\* The arena is moved behind the kept buffers.
LEMMA EndPlaceSafe == IInv /\ EndPlace => IInv'
  <1> SUFFICES ASSUME IInv, EndPlace PROVE IInv'
    OBVIOUS
  <1>0. Types /\ used \in Nat /\ arena \in Nat
    BY DEF IInv, Types
  <1>1. /\ phase = "place" /\ phase' \in {"full", "refused", "run"}
        /\ used' = used + arena
        /\ UNCHANGED <<buffers, optimized, dma, cursor, arena>>
    BY DEF EndPlace, inputs
  <1>2. Ids' = Ids /\ \A c \in Ids : Shared(c)' = Shared(c)
    BY <1>1 DEF Ids, Shared
  <1>3. \A c \in Ids : HasSpan(c)' => HasSpan(c)
    BY <1>0, Fields DEF EndPlace, HasSpan
  <1>4. \A c \in Ids : HasSpan(c) =>
            /\ spans'[c] = IF Shared(c) THEN used + spans[c] ELSE spans[c]
            /\ Ends(c)' = IF Shared(c) THEN used + Ends(c) ELSE Ends(c)
    BY <1>0, <1>1, Fields DEF EndPlace, HasSpan, Ends
  <1>5. spans' \in [1 .. Len(buffers) -> Nat \cup {None}]
    BY <1>0, Fields DEF EndPlace, HasSpan
  <1>6. Types'
    <2>1. spans' \in Seq(Nat \cup {None}) /\ Len(spans') = Len(buffers)
      BY <1>0, <1>5, Fields, SeqOf
    <2> QED
      BY <1>0, <1>1, <2>1 DEF Types
  <1>7. \A c \in Ids : HasSpan(c) => Ends(c) <= IF Shared(c) THEN arena ELSE used
    BY <1>1 DEF IInv, Layout
  <1>8. \A c \in Ids : HasSpan(c) => spans[c] \in Nat /\ Ends(c) \in Nat
    BY <1>0, Fields
  <1>9. \A c \in Ids : HasSpan(c)' => Ends(c)' <= used'
    BY <1>0, <1>1, <1>3, <1>4, <1>7, <1>8
  <1>10. \A a, c \in Ids :
             a # c /\ HasSpan(a)' /\ HasSpan(c)'
             => Apart(a, c)' \/ (Shared(a)' /\ Shared(c)' /\ ~ Meet(buffers[a], buffers[c])')
    <2> SUFFICES ASSUME NEW a \in Ids, NEW c \in Ids, a # c, HasSpan(a), HasSpan(c)
                 PROVE  Apart(a, c)' \/ (Shared(a)' /\ Shared(c)' /\ ~ Meet(buffers[a], buffers[c])')
      BY <1>3
    <2>1. CASE Shared(a) <=> Shared(c)
      <3>1. Apart(a, c) \/ (Shared(a) /\ ~ Meet(buffers[a], buffers[c]))
        BY <1>1, <2>1 DEF IInv, Layout
      <3> QED
        BY <1>0, <1>1, <1>2, <1>4, <1>8, <2>1, <3>1 DEF Apart
    <2>2. CASE ~ (Shared(a) <=> Shared(c))
      BY <1>0, <1>4, <1>7, <1>8, <2>2 DEF Apart
    <2> QED
      BY <2>1, <2>2
  <1> QED
    BY <1>1, <1>2, <1>6, <1>9, <1>10 DEF IInv, Unlaid, Layout, Laid

\* Running the program moves no buffer.
LEMMA RunSafe == IInv /\ (Run \/ UNCHANGED vars) => IInv'
  <1> SUFFICES ASSUME IInv, UNCHANGED <<buffers, dma, optimized, cursor, placement, phase>>
               PROVE  IInv'
    BY DEF Run, vars, inputs, placement
  <1>1. Types' /\ Ids' = Ids
    BY DEF IInv, Types, placement, Ids
  <1>2. \A b \in Ids : Shared(b)' = Shared(b) /\ HasSpan(b)' = HasSpan(b) /\ Ends(b)' = Ends(b)
    BY DEF Shared, HasSpan, Ends, placement
  <1>3. Unlaid'
    BY <1>1 DEF IInv, Unlaid, placement
  <1>4. Layout' /\ Laid'
    BY <1>1, <1>2 DEF IInv, Layout, Laid, Apart, Meet, placement
  <1> QED
    BY <1>1, <1>3, <1>4 DEF IInv

LEMMA Placement == Spec => []IInv
  <1>1. IInv /\ [Next]_vars => IInv'
    BY ImportSafe, EmitDmaSafe, SpillSafe, EndScheduleSafe, PlaceKeptSafe, PlaceScratchSafe,
       EndPlaceSafe, RunSafe DEF Next
  <1> QED
    BY InitIInv, <1>1, PTL DEF Spec

\* What the inductive invariant says of lines.
LEMMA IInvExclusive == IInv => Exclusive
  <1> SUFFICES ASSUME IInv, phase \in {"place", "run"}, NEW a \in Ids, NEW b \in Ids, a # b,
                      HasSpan(a), HasSpan(b), NEW line \in LinesOf(a) \cap LinesOf(b)
               PROVE  Shared(a) /\ Shared(b) /\ Life(a) \cap Life(b) = {}
    BY DEF Exclusive
  <1>1. Types /\ used \in Nat /\ arena \in Nat
    BY DEF IInv, Types
  <1>2. \A c \in {a, b} : /\ spans[c] \in Nat /\ Ends(c) = spans[c] + buffers[c].lines
                          /\ buffers[c].lines \in Nat
                          /\ buffers[c].first \in Nat /\ buffers[c].last \in Nat
    BY <1>1, Fields DEF Ends
  <1> DEFINE shift(c) == IF phase = "place" /\ Shared(c) THEN used ELSE 0
  <1>3. \A c \in {a, b} : /\ shift(c) \in Nat /\ line \in Int
                          /\ spans[c] + shift(c) <= line /\ line < Ends(c) + shift(c)
    <2> TAKE c \in {a, b}
    <2>1. shift(c) \in Nat
      BY <1>1
    <2>2. line \in spans[c] + shift(c) .. spans[c] + shift(c) + buffers[c].lines - 1
      BY DEF LinesOf, Position
    <2> HIDE DEF shift
    <2> QED
      BY <1>2, <2>1, <2>2
  <1>4. (Shared(a) <=> Shared(b)) \/ phase = "run" => ~ Apart(a, b)
    <2> SUFFICES ASSUME (Shared(a) <=> Shared(b)) \/ phase = "run" PROVE ~ Apart(a, b)
      OBVIOUS
    <2>1. shift(a) = shift(b)
      OBVIOUS
    <2> HIDE DEF shift
    <2> QED
      BY <1>2, <1>3, <2>1 DEF Apart
  <1>5. phase = "place" => (Shared(a) <=> Shared(b))
    <2> SUFFICES ASSUME phase = "place" PROVE Shared(a) <=> Shared(b)
      OBVIOUS
    <2>1. \A c \in {a, b} : Ends(c) <= IF Shared(c) THEN arena ELSE used
      BY DEF IInv, Layout
    <2>2. \A c \in {a, b} : Shared(c) <=> used <= line
      BY <1>1, <1>2, <1>3, <2>1
    <2> QED
      BY <2>2
  <1>6. Shared(a) /\ Shared(b) /\ ~ Meet(buffers[a], buffers[b])
    BY <1>4, <1>5 DEF IInv, Layout, Laid
  <1> QED
    BY <1>2, <1>6 DEF Meet, Life

\* Whatever the program, its schedule and its spills: buffers share a line only if
\* both are scratch memory and no position of the program lies in both lifetimes.
THEOREM Exclusion == Spec => []Exclusive
  BY Placement, IInvExclusive, PTL

-----------------------------------------------------------------------------
(* What buffers hold.                                                      *)

\* What the import finds out about buffers.
Described ==
    /\ \A k \in DOMAIN dma : dma[k].buffer \in Ids \cup {None}
    /\ required \subseteq Ids
    /\ phase \in {"import", "schedule"} => \A b \in Ids : buffers[b].materialized
    /\ phase = "import" => \A b \in Ids :
          buffers[b].origin # "image" =>
              buffers[b].kind = "workspace" /\ buffers[b].defined /\ Touching(b) = {}
    /\ phase # "import" => \A b \in Ids :
          /\ buffers[b].defined => ReadInitially(b) = {}
          /\ ~ buffers[b].retained =>
                buffers[b].defined /\ b \notin required /\ buffers[b].kind = "workspace"

Entries == [op : {"load", "store"}, buffer : Nat, lines : SUBSET Nat, at : Nat]
StoresLine(n, b, line) ==
    trace[n].op = "store" /\ trace[n].buffer = b /\ line \in trace[n].lines

\* An emission that moves lines of c: they are lines of c, it is in the lifetime of
\* c, and it loads what was stored or what the program itself reads.
Within(n, c) ==
    c \in Ids /\ buffers[c].materialized /\ trace[n].lines \subseteq Lines(c) /\ trace[n].at \in Life(c)
Sourced(n, c) ==
    trace[n].op = "load" => \A line \in trace[n].lines :
        line \in ReadInitially(c) \/ \E m \in 1 .. n - 1 : StoresLine(m, c, line)

\* Emissions are in the order of their positions.
Precedes(n) ==
    trace[n].at <= cursor /\ \A m \in DOMAIN trace : n <= m => trace[n].at <= trace[m].at

Emitted ==
    /\ trace \in Seq(Entries)
    /\ phase = "import" => trace = << >>
    /\ \A n \in DOMAIN trace :
          /\ Precedes(n)
          /\ \A c \in Nat : trace[n].buffer = c => Within(n, c) /\ Sourced(n, c)

\* A line of a scratch buffer counts from its first store to its last use.
Current(b, line) ==
    \/ ~ Shared(b)
    \/ /\ \E m \in 1 .. done : StoresLine(m, b, line)
       /\ \E k \in done + 1 .. Len(trace) : trace[k].buffer = b

\* What counts is the same as if every buffer had memory of its own.
Memory ==
    /\ done \in 0 .. Len(trace)
    /\ phase # "run" => done = 0
    /\ phase = "run" =>
        /\ \A b \in Ids : buffers[b].materialized => HasSpan(b)
        /\ \A b \in Ids : HasSpan(b) => \A line \in Lines(b) :
              /\ <<b, line>> \in DOMAIN apart /\ spans[b] + line \in DOMAIN ddr
              /\ Current(b, line) => ddr[spans[b] + line] = apart[<<b, line>>]

MInv == IInv /\ Described /\ Emitted /\ Memory

\* What the program reads depends on the program alone.
LEMMA SameProgram ==
    ASSUME UNCHANGED dma
    PROVE  \A b : Touching(b)' = Touching(b) /\ ReadInitially(b)' = ReadInitially(b)
  BY DEF Touching, ReadInitially, WrittenBefore

LEMMA InitMInv == Init => MInv
  <1> SUFFICES ASSUME Init PROVE MInv
    OBVIOUS
  <1>1. PICK source \in Sources :
            dma = source.dma /\ buffers = source.buffers /\ required = source.required
    BY DEF Init
  <1>2. Described
    BY <1>1, SourcesAssumption DEF Init, Described, Touching, Ids
  <1>3. Emitted
    <2>1. trace = << >> /\ << >> \in Seq(Entries) /\ DOMAIN << >> = {}
      BY DEF Init
    <2> QED
      BY <2>1 DEF Emitted
  <1>4. Memory
    BY DEF Init, Memory
  <1> QED
    BY <1>2, <1>3, <1>4, InitIInv DEF MInv

\* A buffer that analyze_buffers() calls defined is never read before it is written.
LEMMA ImportDescribes == MInv /\ Import => Described'
  <1> SUFFICES ASSUME MInv, Import PROVE Described'
    OBVIOUS
  <1>1. Types /\ Described /\ UNCHANGED <<dma, required>> /\ phase = "import" /\ phase' = "schedule"
    BY DEF MInv, IInv, Import, inputs
  <1>2. Ids' = Ids
    BY DEF Import, Ids
  <1>3. \A b \in Ids : DefinedBeforeRead(b) => ReadInitially(b) = {}
    BY DEF DefinedBeforeRead, ReadInitially
  <1>4. \A b \in Ids : Touching(b) = {} => ReadInitially(b) = {}
    BY DEF ReadInitially
  <1>5. ASSUME NEW b \in Ids
        PROVE  /\ buffers'[b].materialized
               /\ buffers'[b].defined => ReadInitially(b) = {}
               /\ ~ buffers'[b].retained =>
                     buffers'[b].defined /\ b \notin required /\ buffers'[b].kind = "workspace"
    <2>1. /\ buffers[b] \in VirtualBuffer /\ buffers[b].materialized
          /\ buffers[b].origin # "image" =>
                buffers[b].kind = "workspace" /\ buffers[b].defined /\ Touching(b) = {}
      BY <1>1, Fields DEF Described
    <2>2. CASE buffers[b].origin = "image"
      <3> DEFINE buffer == Analyzed(b)
      <3>1. buffers'[b] = [buffer EXCEPT !.retained = buffer.retained \/ b \in required]
        BY <2>2 DEF Import, KeepRequired
      <3>2. /\ buffer.materialized = buffers[b].materialized /\ buffer.kind = buffers[b].kind
            /\ buffer.defined = DefinedBeforeRead(b)
            /\ ~ buffer.retained => buffers[b].kind = "workspace" /\ DefinedBeforeRead(b)
            /\ buffer = [buffer EXCEPT !.kind = @]
            /\ "retained" \in DOMAIN buffer
        BY <2>1 DEF Analyzed, VirtualBuffer
      <3>3. /\ buffers'[b].materialized = buffer.materialized /\ buffers'[b].kind = buffer.kind
            /\ buffers'[b].defined = buffer.defined
            /\ buffers'[b].retained = (buffer.retained \/ b \in required)
        <4> HIDE DEF buffer
        <4> QED
          BY <3>1, <3>2
      <3> HIDE DEF buffer
      <3> QED
        BY <1>3, <2>1, <3>2, <3>3
    <2>3. CASE buffers[b].origin # "image"
      <3>1. buffers'[b] = [buffers[b] EXCEPT !.retained = buffers[b].retained \/ b \in required]
        BY <2>3 DEF Import, KeepRequired
      <3>2. /\ buffers'[b].materialized = buffers[b].materialized /\ buffers'[b].kind = buffers[b].kind
            /\ buffers'[b].defined = buffers[b].defined
            /\ buffers'[b].retained = (buffers[b].retained \/ b \in required)
        BY <2>1, <3>1 DEF VirtualBuffer
      <3> QED
        BY <1>4, <2>1, <2>3, <3>2
    <2> QED
      BY <2>2, <2>3
  <1>6. \A b : ReadInitially(b)' = ReadInitially(b)
    BY <1>1, SameProgram
  <1> QED
    BY <1>1, <1>2, <1>5, <1>6 DEF Described

LEMMA ImportMInv == MInv /\ Import => MInv'
  <1> SUFFICES ASSUME MInv, Import PROVE MInv'
    OBVIOUS
  <1>1. trace = << >> /\ trace' = << >> /\ phase' = "schedule"
    BY DEF MInv, Emitted, Import
  <1>2. Emitted'
    <2>1. << >> \in Seq(Entries) /\ DOMAIN << >> = {}
      OBVIOUS
    <2> QED
      BY <1>1, <2>1 DEF Emitted
  <1>3. Memory'
    BY <1>1 DEF MInv, Memory, Import, machine
  <1> QED
    BY <1>2, <1>3, ImportSafe, ImportDescribes DEF MInv

\* An emission extends the trace, and the lifetime of its buffer, which may be new.
LEMMA Emits ==
    ASSUME MInv, Types', UNCHANGED <<dma, required>>, phase = "schedule", phase' = "schedule",
           Ids \subseteq Ids', NEW b \in Ids', b \in Nat, NEW now \in Nat, cursor <= now, cursor' = now,
           \A c \in Ids' : c \notin Ids =>
               buffers'[c].materialized /\ buffers'[c].kind = "workspace" /\ Touching(c) = {}
               /\ buffers'[c].defined,
           \A c \in Ids :
               /\ buffers'[c].materialized = buffers[c].materialized
               /\ buffers'[c].defined = buffers[c].defined
               /\ buffers'[c].retained = buffers[c].retained
               /\ buffers'[c].kind = buffers[c].kind
               /\ Lines(c)' = Lines(c) /\ Life(c) \subseteq Life(c)',
           now \in Life(b)',
           NEW op \in {"load", "store"}, NEW lines \in SUBSET Nat, lines \subseteq Lines(b)',
           op = "load" => lines \subseteq EmittedBefore(b) \cup ReadInitially(b),
           trace' = Append(trace, Emission(op, b, lines, now))
    PROVE  Described' /\ Emitted'
  <1> DEFINE e == Emission(op, b, lines, now)
  <1>1. Types /\ Described /\ Emitted
    BY DEF MInv, IInv
  <1>2. \A c : Touching(c)' = Touching(c) /\ ReadInitially(c)' = ReadInitially(c)
    BY SameProgram
  <1>3. \A c : Touching(c) = {} => ReadInitially(c) = {}
    BY DEF ReadInitially
  <1>4. Described'
    BY <1>1, <1>2, <1>3 DEF Described
  <1>5. e \in Entries
    BY DEF Emission, Entries
  <1>6. e.op = op /\ e.buffer = b /\ e.lines = lines /\ e.at = now
    BY DEF Emission
  <1>7. trace \in Seq(Entries) /\ trace' = Append(trace, e)
    BY <1>1 DEF Emitted
  <1> HIDE DEF e
  <1> PICK last : last = Len(trace) + 1
    OBVIOUS
  <1>8. /\ trace' \in Seq(Entries) /\ DOMAIN trace = 1 .. Len(trace) /\ Len(trace) \in Nat
        /\ DOMAIN trace' = 1 .. last /\ trace'[last] = e
        /\ \A n \in DOMAIN trace : trace'[n] = trace[n]
    BY <1>5, <1>7, AppendProperties
  <1>9. cursor \in Nat /\ \A n \in DOMAIN trace : trace[n].at \in Nat
    <2>1. \A n \in DOMAIN trace : trace[n] \in Entries
      BY <1>7
    <2> QED
      BY <1>1, <2>1 DEF Entries, Types
  <1>10. ASSUME NEW n \in DOMAIN trace PROVE Precedes(n)'
    <2>1. trace[n].at <= cursor /\ \A m \in DOMAIN trace : n <= m => trace[n].at <= trace[m].at
      BY <1>1 DEF Emitted, Precedes
    <2>2. trace'[n].at <= now
      BY <1>8, <1>9, <2>1
    <2>3. \A m \in DOMAIN trace' : m \in DOMAIN trace \/ m = last
      BY <1>8
    <2> QED
      BY <1>6, <1>8, <2>1, <2>2, <2>3 DEF Precedes
  <1>11. Precedes(last)'
    <2>1. \A m \in DOMAIN trace' : last <= m => m = last
      BY <1>8
    <2> QED
      BY <1>6, <1>8, <2>1 DEF Precedes
  <1>12. ASSUME NEW n \in DOMAIN trace, NEW c \in Nat, trace'[n].buffer = c
         PROVE  Within(n, c)' /\ Sourced(n, c)'
    <2>1. trace'[n] = trace[n] /\ \A m \in 1 .. n - 1 : trace'[m] = trace[m]
      BY <1>8
    <2>2. Within(n, c) /\ Sourced(n, c)
      BY <1>1, <1>12, <2>1 DEF Emitted
    <2>3. Within(n, c)'
      BY <2>1, <2>2 DEF Within
    <2>4. \A m \in 1 .. n - 1 : \A line : StoresLine(m, c, line) => StoresLine(m, c, line)'
      BY <2>1 DEF StoresLine
    <2>5. Sourced(n, c)'
      BY <1>2, <2>1, <2>2, <2>4 DEF Sourced
    <2> QED
      BY <2>3, <2>5
  <1>13. Within(last, b)'
    <2>1. buffers'[b].materialized
      BY <1>1 DEF Described
    <2> QED
      BY <1>6, <1>8, <2>1 DEF Within
  <1>14. Sourced(last, b)'
    <2>1. ASSUME op = "load", NEW line \in lines, line \notin ReadInitially(b)
          PROVE  \E m \in 1 .. last - 1 : StoresLine(m, b, line)'
      <3>1. PICK m \in DOMAIN trace : trace[m].buffer = b /\ trace[m].op = "store" /\ line \in trace[m].lines
        BY <2>1 DEF EmittedBefore
      <3>2. StoresLine(m, b, line)'
        BY <1>8, <3>1 DEF StoresLine
      <3> QED
        BY <1>8, <3>2
    <2> QED
      BY <1>2, <1>6, <1>8, <2>1 DEF Sourced
  <1>15. Emitted'
    <2>1. ASSUME NEW n \in DOMAIN trace'
          PROVE  Precedes(n)' /\ \A c \in Nat : trace'[n].buffer = c => Within(n, c)' /\ Sourced(n, c)'
      <3>1. n \in DOMAIN trace \/ n = last
        BY <1>8
      <3>2. trace'[last].buffer = b
        BY <1>6, <1>8
      <3> QED
        BY <1>10, <1>11, <1>12, <1>13, <1>14, <3>1, <3>2
    <2> QED
      BY <1>8, <2>1 DEF Emitted
  <1> QED
    BY <1>4, <1>15

\* Nothing has run before the program is compiled.
LEMMA ScheduleMemory ==
    ASSUME MInv, phase # "run", phase' # "run", UNCHANGED done, Emitted'
    PROVE  Memory'
  <1>1. done = 0
    BY DEF MInv, Memory
  <1>2. trace' \in Seq(Entries)
    BY DEF Emitted
  <1>3. Len(trace') \in Nat
    BY <1>2, LenProperties
  <1> QED
    BY <1>1, <1>3 DEF Memory

LEMMA EmitDmaMInv == MInv /\ EmitDma => MInv'
  <1> SUFFICES ASSUME MInv, EmitDma PROVE MInv'
    OBVIOUS
  <1>0. PICK b \in Ids, op \in {"load", "store"}, now \in cursor .. MaxCursor :
          \E lines \in {Lines(b), {0}} :
            /\ Emittable(b, op, lines)
            /\ buffers' = [buffers EXCEPT ![b] = Extended(@, now)] /\ cursor' = now
            /\ trace' = Append(trace, Emission(op, b, lines, now))
    BY DEF EmitDma
  <1>1. PICK lines \in {Lines(b), {0}} :
            /\ Emittable(b, op, lines)
            /\ buffers' = [buffers EXCEPT ![b] = Extended(@, now)] /\ cursor' = now
            /\ trace' = Append(trace, Emission(op, b, lines, now))
    BY <1>0
  <1>2. IInv /\ IInv' /\ Types /\ Types'
    BY EmitDmaSafe DEF MInv, IInv
  <1>3. /\ Ids = 1 .. Len(buffers) /\ buffers[b] \in VirtualBuffer
        /\ buffers[b].lines \in Nat /\ buffers[b].lines > 0
        /\ buffers[b].first \in Nat /\ buffers[b].last \in Nat /\ b \in Nat
    BY <1>2, Fields
  <1>4. now \in Nat /\ cursor <= now
    BY SourcesAssumption, <1>2 DEF Types
  <1>5. PICK first, last \in Nat :
            /\ Extended(buffers[b], now) = [buffers[b] EXCEPT !.first = first, !.last = last]
            /\ first <= now /\ now <= last
            /\ first <= buffers[b].first /\ buffers[b].last <= last
    BY <1>3, <1>4, ExtendedBuffer
  <1>6. Ids' = Ids
    BY <1>1 DEF Ids
  <1>7. /\ buffers'[b].first = first /\ buffers'[b].last = last
        /\ buffers'[b].lines = buffers[b].lines
        /\ buffers'[b].materialized = buffers[b].materialized
        /\ buffers'[b].defined = buffers[b].defined /\ buffers'[b].retained = buffers[b].retained
        /\ buffers'[b].kind = buffers[b].kind
    <2>1. buffers'[b] = [buffers[b] EXCEPT !.first = first, !.last = last]
      BY <1>1, <1>5 DEF Ids
    <2> QED
      BY <1>3, <2>1 DEF VirtualBuffer
  <1>8. \A c \in Ids : c # b => buffers'[c] = buffers[c]
    BY <1>1 DEF Ids
  <1>9. \A c \in Ids :
            /\ buffers'[c].materialized = buffers[c].materialized
            /\ buffers'[c].defined = buffers[c].defined
            /\ buffers'[c].retained = buffers[c].retained
            /\ buffers'[c].kind = buffers[c].kind
            /\ Lines(c)' = Lines(c) /\ Life(c) \subseteq Life(c)'
    <2> TAKE c \in Ids
    <2>1. CASE c = b
      BY <1>3, <1>5, <1>7, <2>1 DEF Lines, Life
    <2>2. CASE c # b
      BY <1>8, <2>2 DEF Lines, Life
    <2> QED
      BY <2>1, <2>2
  <1>10. now \in Life(b)' /\ lines \in SUBSET Nat /\ lines \subseteq Lines(b)'
    BY <1>3, <1>4, <1>5, <1>7 DEF Life, Lines
  <1>11. op = "load" => lines \subseteq EmittedBefore(b) \cup ReadInitially(b)
    BY <1>1 DEF Emittable
  <1>12. /\ phase = "schedule" /\ phase' = "schedule" /\ UNCHANGED <<dma, required>>
         /\ UNCHANGED done
    BY DEF EmitDma, Scheduling, inputs, machine
  <1>13. Described' /\ Emitted'
    BY <1>1, <1>2, <1>3, <1>4, <1>6, <1>9, <1>10, <1>11, <1>12, Emits
  <1> QED
    BY <1>2, <1>12, <1>13, ScheduleMemory DEF MInv

LEMMA SpillMInv == MInv /\ Spill => MInv'
  <1> SUFFICES ASSUME MInv, Spill PROVE MInv'
    OBVIOUS
  <1> DEFINE spilled(size, now) == Buffer(size, "spill", "workspace", FALSE, now)
  <1> PICK b : b = Len(buffers) + 1
    OBVIOUS
  <1>1. PICK size \in SpillSizes, now \in cursor .. MaxCursor :
            /\ buffers' = Append(buffers, spilled(size, now))
            /\ cursor' = now
            /\ trace' = Append(trace, Emission("store", b, 0 .. size - 1, now))
    BY DEF Spill
  <1>2. IInv /\ IInv' /\ Types /\ Types' /\ Described
    BY SpillSafe DEF MInv, IInv
  <1>3. now \in Nat /\ cursor <= now /\ size \in Nat
    BY SourcesAssumption, <1>2 DEF Types
  <1>4. Ids = 1 .. Len(buffers) /\ Len(buffers) \in Nat
    BY <1>2, Fields
  <1>5. /\ Ids' = 1 .. b /\ buffers'[b] = spilled(size, now)
        /\ \A c \in Ids : buffers'[c] = buffers[c]
    <2>1. spilled(size, now) \in VirtualBuffer /\ buffers \in Seq(VirtualBuffer)
      BY <1>2, <1>3, SourcesAssumption DEF Buffer, VirtualBuffer, Kinds, Types
    <2> HIDE DEF spilled
    <2>2. /\ buffers' \in Seq(VirtualBuffer) /\ Len(buffers') = Len(buffers) + 1
          /\ buffers'[Len(buffers) + 1] = spilled(size, now)
          /\ \A c \in 1 .. Len(buffers) : buffers'[c] = buffers[c]
      <3>1. ASSUME NEW new \in VirtualBuffer
            PROVE  /\ Append(buffers, new) \in Seq(VirtualBuffer)
                   /\ Len(Append(buffers, new)) = Len(buffers) + 1
                   /\ Append(buffers, new)[Len(buffers) + 1] = new
                   /\ \A c \in 1 .. Len(buffers) : Append(buffers, new)[c] = buffers[c]
        BY <2>1, AppendProperties
      <3> QED
        BY <1>1, <2>1, <3>1, Zenon
    <2>3. DOMAIN buffers' = 1 .. Len(buffers')
      BY <2>2, LenProperties
    <2> QED
      BY <1>4, <2>2, <2>3 DEF Ids
  <1>6. \A c \in Ids' : c \notin Ids =>
            /\ buffers'[c].materialized /\ buffers'[c].kind = "workspace"
            /\ Touching(c) = {} /\ buffers'[c].defined
    <2>1. \A c \in Ids' : c \notin Ids => c = b
      BY <1>4, <1>5
    <2>2. Touching(b) = {}
      BY <1>2, <1>4, SourcesAssumption DEF Described, Touching
    <2> QED
      BY <1>5, <2>1, <2>2 DEF Buffer
  <1>7. \A c \in Ids :
            /\ buffers'[c].materialized = buffers[c].materialized
            /\ buffers'[c].defined = buffers[c].defined
            /\ buffers'[c].retained = buffers[c].retained
            /\ buffers'[c].kind = buffers[c].kind
            /\ Lines(c)' = Lines(c) /\ Life(c) \subseteq Life(c)'
    BY <1>5 DEF Lines, Life
  <1>8. /\ now \in Life(b)' /\ 0 .. size - 1 \in SUBSET Nat /\ 0 .. size - 1 \subseteq Lines(b)'
        /\ Ids \subseteq Ids' /\ b \in Ids' /\ b \in Nat
    BY <1>3, <1>4, <1>5 DEF Life, Lines, Buffer
  <1>9. /\ phase = "schedule" /\ phase' = "schedule" /\ UNCHANGED <<dma, required>>
        /\ UNCHANGED done
    BY DEF Spill, Scheduling, inputs, machine
  <1>10. Described' /\ Emitted'
    BY <1>1, <1>2, <1>3, <1>6, <1>7, <1>8, <1>9, Emits
  <1> QED
    BY <1>2, <1>9, <1>10, ScheduleMemory DEF MInv

\* Steps after the schedule leave the emissions alone, and of the buffers all but
\* what pruning changes.
LEMMA StillEmitted ==
    ASSUME MInv, phase' # "import", UNCHANGED <<dma, cursor, trace>>, Ids' = Ids,
           \A c \in Ids : Lines(c)' = Lines(c) /\ Life(c)' = Life(c),
           \A n \in DOMAIN trace, c \in Ids : trace[n].buffer = c => buffers'[c].materialized
    PROVE  Emitted'
  <1>1. Emitted
    BY DEF MInv
  <1>2. \A c : ReadInitially(c)' = ReadInitially(c)
    BY SameProgram
  <1>3. ASSUME NEW n \in DOMAIN trace, NEW c \in Nat, trace[n].buffer = c
        PROVE  Within(n, c)' /\ Sourced(n, c)'
    <2>1. Within(n, c) /\ Sourced(n, c)
      BY <1>1, <1>3 DEF Emitted
    <2>2. Within(n, c)'
      BY <1>3, <2>1 DEF Within
    <2>3. Sourced(n, c)'
      BY <1>2, <2>1 DEF Sourced, StoresLine
    <2> QED
      BY <2>2, <2>3
  <1>4. \A n \in DOMAIN trace : Precedes(n)'
    BY <1>1 DEF Emitted, Precedes
  <1> QED
    BY <1>1, <1>3, <1>4 DEF Emitted

LEMMA EndScheduleMInv == MInv /\ EndSchedule => MInv'
  <1> SUFFICES ASSUME MInv, EndSchedule PROVE MInv'
    OBVIOUS
  <1>1. /\ phase = "schedule" /\ phase' = "place"
        /\ UNCHANGED <<dma, required, cursor, trace, done>>
    BY DEF EndSchedule, inputs, machine
  <1>2. IInv /\ IInv' /\ Types /\ Described
    BY EndScheduleSafe DEF MInv, IInv
  <1>3. Ids' = Ids
    BY DEF EndSchedule, Ids
  <1>4. ASSUME NEW c \in Ids
        PROVE  /\ buffers'[c].lines = buffers[c].lines
               /\ buffers'[c].first = buffers[c].first /\ buffers'[c].last = buffers[c].last
               /\ buffers'[c].defined = buffers[c].defined
               /\ (\E n \in DOMAIN trace : trace[n].buffer = c) => buffers'[c].materialized
               /\ ~ buffers'[c].retained =>
                     buffers'[c].defined /\ c \notin required /\ buffers'[c].kind = "workspace"
    <2>1. /\ buffers[c] \in VirtualBuffer /\ buffers[c].materialized
          /\ ~ buffers[c].retained =>
                buffers[c].defined /\ c \notin required /\ buffers[c].kind = "workspace"
      BY <1>1, <1>2, <1>4, Fields DEF Described
    <2>2. CASE prune
      <3>1. buffers'[c] = Pruned(c)
        BY <2>2 DEF EndSchedule
      <3> QED
        BY <2>1, <3>1 DEF Pruned, VirtualBuffer
    <2>3. CASE ~ prune
      BY <2>1, <2>3 DEF EndSchedule
    <2> QED
      BY <2>2, <2>3
  <1>5. \A c : ReadInitially(c)' = ReadInitially(c)
    BY <1>1, SameProgram
  <1>6. Described'
    BY <1>1, <1>2, <1>3, <1>4, <1>5 DEF Described
  <1>7. Emitted'
    BY <1>1, <1>3, <1>4, StillEmitted DEF Lines, Life
  <1> QED
    BY <1>1, <1>2, <1>6, <1>7, ScheduleMemory DEF MInv

\* Placing and running change no buffer and no emission.
LEMMA StillDescribed ==
    ASSUME MInv, UNCHANGED <<inputs, buffers, cursor, trace>>,
           phase \notin {"import", "schedule"}, phase' \notin {"import", "schedule"}
    PROVE  Described' /\ Emitted'
  <1>1. UNCHANGED <<dma, required>> /\ Ids' = Ids /\ Described
    BY DEF inputs, Ids, MInv
  <1>2. \A c : ReadInitially(c)' = ReadInitially(c)
    BY <1>1, SameProgram
  <1>3. Described'
    BY <1>1, <1>2 DEF Described
  <1>4. \A n \in DOMAIN trace, c \in Ids : trace[n].buffer = c => buffers'[c].materialized
    <2>1. \A n \in DOMAIN trace, c \in Nat : trace[n].buffer = c => Within(n, c)
      BY DEF MInv, Emitted
    <2>2. Ids \subseteq Nat
      BY Fields DEF MInv, IInv
    <2> QED
      BY <2>1, <2>2 DEF Within
  <1>5. Emitted'
    BY <1>1, <1>4, StillEmitted DEF Lines, Life
  <1> QED
    BY <1>3, <1>5

LEMMA PlaceMInv == MInv /\ (PlaceKept \/ PlaceScratch) => MInv'
  <1> SUFFICES ASSUME MInv, PlaceKept \/ PlaceScratch PROVE MInv'
    OBVIOUS
  <1>1. /\ phase = "place" /\ phase' \in {"place", "full"}
        /\ UNCHANGED <<inputs, buffers, cursor, trace, done>>
    BY DEF PlaceKept, PlaceScratch, machine
  <1>2. IInv'
    BY PlaceKeptSafe, PlaceScratchSafe DEF MInv
  <1>3. Described' /\ Emitted'
    BY <1>1, StillDescribed
  <1> QED
    BY <1>1, <1>2, <1>3, ScheduleMemory DEF MInv

\* When the program begins to run, a line of a kept buffer holds what it held in
\* the image that was compiled.
LEMMA EndPlaceMInv == MInv /\ EndPlace => MInv'
  <1> SUFFICES ASSUME MInv, EndPlace PROVE MInv'
    OBVIOUS
  <1>1. /\ phase = "place" /\ phase' \in {"full", "refused", "run"} /\ Unplaced = {}
        /\ UNCHANGED <<inputs, buffers, cursor, trace, done, optimized>>
    BY DEF EndPlace, inputs
  <1>2. IInv /\ IInv' /\ Types /\ Types'
    BY EndPlaceSafe DEF MInv, IInv
  <1>3. Described' /\ Emitted'
    BY <1>1, StillDescribed
  <1>4. Ids' = Ids /\ \A b \in Ids : Shared(b)' = Shared(b) /\ Lines(b)' = Lines(b)
    BY <1>1 DEF Ids, Shared, Lines
  <1>5. /\ used \in Nat /\ arena \in Nat /\ used' = used + arena /\ DOMAIN spans = Ids
        /\ \A b \in Ids : HasSpan(b) => spans[b] \in Nat /\ Ends(b) \in Nat
        /\ \A b \in Ids : Ends(b) = spans[b] + buffers[b].lines /\ buffers[b].lines \in Nat
    BY <1>2, Fields DEF Types, EndPlace, Ends
  <1>6. \A b \in Ids :
            /\ HasSpan(b) =>
                  HasSpan(b)' /\ spans'[b] = IF Shared(b) THEN used + spans[b] ELSE spans[b]
            /\ HasSpan(b)' => HasSpan(b)
    BY <1>5, SourcesAssumption DEF EndPlace, HasSpan
  <1>7. \A b \in Ids : buffers'[b].materialized => HasSpan(b)'
    BY <1>1, <1>6 DEF Unplaced, HasSpan
  <1>8. ASSUME phase' = "run", NEW b \in Ids, HasSpan(b)', NEW line \in Lines(b)
        PROVE  /\ <<b, line>> \in DOMAIN apart' /\ spans'[b] + line \in DOMAIN ddr'
               /\ Current(b, line)' => ddr'[spans'[b] + line] = apart'[<<b, line>>]
    <2>1. /\ line \in Nat /\ line < buffers[b].lines /\ spans'[b] \in Nat /\ buffers[b].lines \in Nat
          /\ spans'[b] + buffers[b].lines <= used' /\ used' \in Nat
      <3>1. Ends(b)' <= used'
        BY <1>2, <1>4, <1>8 DEF IInv, Laid
      <3>2. Ends(b)' = spans'[b] + buffers[b].lines
        BY <1>1 DEF Ends
      <3>3. spans'[b] \in Nat
        BY <1>5, <1>6, <1>8
      <3> QED
        BY <1>5, <3>1, <3>2, <3>3 DEF Lines
    <2>2. <<b, line>> \in {cell \in Ids \X (0 .. used') : cell[2] \in Lines(cell[1])}
      BY <2>1
    <2>3. apart' = [cell \in {cell \in Ids \X (0 .. used') : cell[2] \in Lines(cell[1])} |->
                        Initially(cell[1], cell[2])]
      BY DEF EndPlace
    <2>4. <<b, line>> \in DOMAIN apart' /\ apart'[<<b, line>>] = Initially(b, line)
      BY <2>2, <2>3
    <2>5. spans'[b] + line \in 0 .. used' - 1
      BY <2>1
    <2>6. spans'[b] + line \in DOMAIN ddr'
      BY <2>5 DEF EndPlace
    <2>7. ASSUME Current(b, line)' PROVE ddr'[spans'[b] + line] = Initially(b, line)
      <3>1. done' = 0
        BY <1>1 DEF MInv, Memory
      <3>2. ~ Shared(b)
        BY <1>4, <2>7, <3>1 DEF Current
      <3>3. HasSpan(b) /\ spans'[b] = spans[b]
        BY <1>6, <1>8, <3>2
      <3> PICK place : place = spans[b] + line
        OBVIOUS
      <3>4. place - spans[b] = line /\ place \in Nat
        BY <1>5, <2>1, <3>3
      <3>5. b \in Owners(place)
        BY <1>5, <2>1, <3>2, <3>3, <3>4 DEF Owners, HasSpan
      <3>6. ASSUME NEW c \in Owners(place) PROVE c = b
        <4>1. c \in Ids /\ HasSpan(c) /\ ~ Shared(c) /\ place \in spans[c] .. Ends(c) - 1
          BY DEF Owners, HasSpan
        <4>2. ~ Apart(c, b)
          BY <1>5, <2>1, <3>3, <3>4, <4>1 DEF Apart
        <4> QED
          BY <1>1, <1>2, <3>2, <3>3, <4>1, <4>2 DEF IInv, Layout
      <3>7. Owners(place) = {b}
        BY <3>5, <3>6
      <3>8. (CHOOSE c \in Owners(place) : TRUE) = b
        BY <3>7
      <3>9. ddr'[place] = Initially(b, place - spans[b])
        <4>1. place \in 0 .. used' - 1
          BY <2>5, <3>3
        <4>2. ddr'[place] = IF Owners(place) = {} THEN <<"zero">>
                            ELSE LET c == CHOOSE c \in Owners(place) : TRUE
                                 IN  Initially(c, place - spans[c])
          BY <4>1 DEF EndPlace
        <4> QED
          BY <3>5, <3>8, <4>2
      <3> QED
        BY <3>3, <3>4, <3>9
    <2> QED
      BY <2>4, <2>6, <2>7
  <1>9. CASE phase' = "run"
    <2>1. done' = 0 /\ Len(trace') \in Nat
      BY <1>1, <1>3, LenProperties DEF MInv, Memory, Emitted
    <2> QED
      BY <1>2, <1>3, <1>4, <1>7, <1>8, <1>9, <2>1 DEF MInv, Memory
  <1>10. CASE phase' # "run"
    BY <1>1, <1>2, <1>3, <1>10, ScheduleMemory DEF MInv
  <1> QED
    BY <1>9, <1>10

\* What the next emission is.
LEMMA NextEmission ==
    ASSUME MInv, phase = "run", done < Len(trace)
    PROVE  /\ done \in Nat /\ Len(trace) \in Nat /\ done + 1 \in DOMAIN trace
           /\ DOMAIN trace = 1 .. Len(trace)
           /\ \A n \in DOMAIN trace :
                 /\ trace[n].op \in {"load", "store"} /\ trace[n].at \in Nat
                 /\ trace[n].buffer \in Ids
                 /\ Within(n, trace[n].buffer) /\ Sourced(n, trace[n].buffer) /\ Precedes(n)
                 /\ HasSpan(trace[n].buffer)
  <1>1. trace \in Seq(Entries)
    BY DEF MInv, Emitted
  <1>2. Len(trace) \in Nat /\ DOMAIN trace = 1 .. Len(trace) /\ \A n \in DOMAIN trace : trace[n] \in Entries
    BY <1>1, LenProperties, ElementOfSeq
  <1>3. done \in Nat /\ done + 1 \in DOMAIN trace
    BY <1>2 DEF MInv, Memory
  <1>4. \A n \in DOMAIN trace :
            /\ trace[n].op \in {"load", "store"} /\ trace[n].at \in Nat /\ trace[n].buffer \in Nat
    BY <1>2 DEF Entries
  <1>5. \A n \in DOMAIN trace :
            Within(n, trace[n].buffer) /\ Sourced(n, trace[n].buffer) /\ Precedes(n)
    BY <1>4 DEF MInv, Emitted
  <1>6. \A n \in DOMAIN trace : trace[n].buffer \in Ids /\ HasSpan(trace[n].buffer)
    BY <1>5 DEF Within, MInv, Memory
  <1> QED
    BY <1>2, <1>3, <1>4, <1>5, <1>6

\* A store changes no line that counts of another buffer: the two would be in use
\* in the position of the store.
LEMMA OthersKept ==
    ASSUME MInv, phase = "run", done < Len(trace),
           NEW b \in Ids, HasSpan(b), b # trace[done + 1].buffer, NEW line \in Lines(b),
           \/ ~ Shared(b)
           \/ /\ \E m \in 1 .. done : StoresLine(m, b, line)
              /\ \E k \in done + 2 .. Len(trace) : trace[k].buffer = b
    PROVE  spans[b] + line \notin {spans[trace[done + 1].buffer] + other :
                                       other \in trace[done + 1].lines}
  <1> PICK n : n = done + 1
    OBVIOUS
  <1> PICK a : a = trace[n].buffer
    OBVIOUS
  <1>1. Types
    BY DEF MInv, IInv
  <1>2. /\ done \in Nat /\ Len(trace) \in Nat /\ n \in DOMAIN trace /\ DOMAIN trace = 1 .. Len(trace)
        /\ a \in Ids /\ HasSpan(a) /\ Within(n, a) /\ Precedes(n)
        /\ \A m \in DOMAIN trace : trace[m].at \in Nat /\ Within(m, trace[m].buffer) /\ Precedes(m)
    BY NextEmission
  <1>3. \A c \in {a, b} : /\ spans[c] \in Nat /\ Ends(c) = spans[c] + buffers[c].lines
                          /\ buffers[c].lines \in Nat
                          /\ buffers[c].first \in Nat /\ buffers[c].last \in Nat
    BY <1>1, <1>2, Fields DEF Ends
  <1>4. SUFFICES ASSUME NEW other \in trace[n].lines, spans[b] + line = spans[a] + other
                 PROVE  FALSE
    OBVIOUS
  <1>5. other \in Lines(a)
    BY <1>2 DEF Within
  <1>6. ~ Apart(a, b)
    <2>1. /\ spans[a] \in Nat /\ spans[b] \in Nat
          /\ buffers[a].lines \in Nat /\ buffers[b].lines \in Nat
          /\ Ends(a) = spans[a] + buffers[a].lines /\ Ends(b) = spans[b] + buffers[b].lines
      BY <1>3
    <2>2. /\ line \in Nat /\ line < buffers[b].lines
          /\ other \in Nat /\ other < buffers[a].lines
      BY <2>1, <1>5 DEF Lines
    <2> QED
      BY <1>2, <1>4, <2>1, <2>2, SMTT(30) DEF Apart
  <1>7. Shared(a) /\ Shared(b) /\ ~ Meet(buffers[a], buffers[b])
    BY <1>2, <1>6 DEF MInv, IInv, Laid
  <1>8. PICK m \in 1 .. done, k \in done + 2 .. Len(trace) :
            trace[m].buffer = b /\ trace[k].buffer = b
    BY <1>7 DEF StoresLine
  <1>9. m \in DOMAIN trace /\ k \in DOMAIN trace /\ m <= n /\ n <= k
    BY <1>2, <1>8
  <1>10. trace[m].at \in Life(b) /\ trace[k].at \in Life(b) /\ trace[n].at \in Life(a)
    BY <1>2, <1>8, <1>9 DEF Within
  <1>11. trace[m].at <= trace[n].at /\ trace[n].at <= trace[k].at
    BY <1>2, <1>9 DEF Precedes
  <1>12. trace[m].at \in Nat /\ trace[n].at \in Nat /\ trace[k].at \in Nat
    BY <1>2, <1>9
  <1>13. /\ buffers[b].first <= trace[m].at /\ trace[k].at <= buffers[b].last
         /\ buffers[a].first <= trace[n].at /\ trace[n].at <= buffers[a].last
    BY <1>3, <1>10, <1>12 DEF Life
  <1>14. /\ buffers[a].first \in Nat /\ buffers[a].last \in Nat
         /\ buffers[b].first \in Nat /\ buffers[b].last \in Nat
    BY <1>3
  <1> QED
    BY <1>2, <1>7, <1>11, <1>12, <1>13, <1>14, SMTT(30) DEF Meet

LEMMA RunMInv == MInv /\ Run => MInv'
  <1> SUFFICES ASSUME MInv, Run PROVE MInv'
    OBVIOUS
  <1> PICK n : n = done + 1
    OBVIOUS
  <1> PICK a : a = trace[n].buffer
    OBVIOUS
  <1>1. /\ phase = "run" /\ phase' = "run" /\ done < Len(trace) /\ done' = n
        /\ UNCHANGED <<inputs, buffers, cursor, trace, spans, optimized>>
    BY DEF Run, inputs, placement
  <1>2. IInv' /\ Types /\ Described' /\ Emitted'
    BY <1>1, RunSafe, StillDescribed DEF MInv, IInv
  <1>3. /\ Ids' = Ids
        /\ \A b \in Ids : HasSpan(b)' = HasSpan(b) /\ Lines(b)' = Lines(b) /\ Shared(b)' = Shared(b)
    BY <1>1 DEF Ids, HasSpan, Lines, Shared
  <1>4. /\ done \in Nat /\ Len(trace) \in Nat /\ n \in DOMAIN trace /\ DOMAIN trace = 1 .. Len(trace)
        /\ trace[n].op \in {"load", "store"} /\ a \in Ids /\ HasSpan(a) /\ Within(n, a)
    BY <1>1, NextEmission
  <1>5. \A b \in Ids : HasSpan(b) => spans[b] \in Nat
    BY <1>2, Fields
  <1>6. DOMAIN apart' = DOMAIN apart /\ DOMAIN ddr' = DOMAIN ddr
    BY DEF Run
  <1>7. ASSUME NEW b \in Ids, HasSpan(b), NEW line \in Lines(b), Current(b, line)'
        PROVE  ddr'[spans[b] + line] = apart'[<<b, line>>]
    <2>1. /\ <<b, line>> \in DOMAIN apart /\ spans[b] + line \in DOMAIN ddr
          /\ Current(b, line) => ddr[spans[b] + line] = apart[<<b, line>>]
          /\ line \in Nat
      BY <1>1, <1>7 DEF MInv, Memory, Lines
    <2>2. \/ ~ Shared(b)
          \/ /\ \E m \in 1 .. n : StoresLine(m, b, line)
             /\ \E k \in n + 1 .. Len(trace) : trace[k].buffer = b
      BY <1>1, <1>3, <1>7 DEF Current, StoresLine
    <2>3. ASSUME ~ StoresLine(n, b, line)
          PROVE  /\ ddr[spans[b] + line] = apart[<<b, line>>]
                 /\ \/ ~ Shared(b)
                    \/ /\ \E m \in 1 .. done : StoresLine(m, b, line)
                       /\ \E k \in done + 2 .. Len(trace) : trace[k].buffer = b
      <3>1. \A m \in 1 .. n : m # n => m \in 1 .. done
        BY <1>4
      <3>2. n + 1 = done + 2 /\ \A k \in n + 1 .. Len(trace) : k \in done + 1 .. Len(trace)
        BY <1>4
      <3> QED
        BY <2>1, <2>2, <2>3, <3>1, <3>2 DEF Current
    <2>4. CASE trace[n].op = "load"
      <3>1. ~ StoresLine(n, b, line)
        BY <2>4 DEF StoresLine
      <3>2. UNCHANGED <<apart, ddr>>
        BY <2>4 DEF Run, Now
      <3> QED
        BY <2>3, <3>1, <3>2
    <2>5. CASE trace[n].op = "store"
      <3>1. /\ apart'[<<b, line>>] = IF <<b, line>> \in Cells THEN <<"stored", done, line>>
                                     ELSE apart[<<b, line>>]
            /\ ddr'[spans[b] + line] =
                  IF spans[b] + line \in Physical
                  THEN <<"stored", done, (spans[b] + line) - spans[a]>> ELSE ddr[spans[b] + line]
        <4>1. Now = trace[n] /\ Now.op = "store" /\ Now.buffer = a
          BY <2>5 DEF Now
        <4>2. /\ apart' = [cell \in DOMAIN apart |->
                              IF cell \in Cells THEN <<"stored", done, cell[2]>> ELSE apart[cell]]
              /\ ddr' = [place \in DOMAIN ddr |->
                              IF place \in Physical
                              THEN <<"stored", done, place - spans[a]>> ELSE ddr[place]]
          BY <4>1 DEF Run
        <4> QED
          BY <2>1, <4>2
      <3>2. Cells = {<<a, other>> : other \in trace[n].lines}
        BY DEF Cells, Now
      <3>3. Physical = {spans[a] + other : other \in trace[n].lines}
        BY DEF Physical, Now
      <3>4. \A other \in trace[n].lines : other \in Nat
        BY <1>4 DEF Within, Lines
      <3>5. CASE b = a /\ line \in trace[n].lines
        <4>1. <<b, line>> \in Cells /\ spans[b] + line \in Physical
          BY <3>2, <3>3, <3>5
        <4>2. (spans[b] + line) - spans[a] = line
          BY <1>5, <1>7, <2>1, <3>5
        <4> QED
          BY <3>1, <4>1, <4>2
      <3>6. CASE b = a /\ line \notin trace[n].lines
        <4>1. <<b, line>> \notin Cells
          BY <3>2, <3>6
        <4>2. spans[b] + line \notin Physical
          <5> SUFFICES ASSUME NEW other \in trace[n].lines, spans[b] + line = spans[a] + other
                       PROVE  FALSE
            BY <3>3
          <5>1. spans[b] = spans[a] /\ other # line
            BY <3>6
          <5>2. spans[b] \in Int /\ line \in Int /\ other \in Int
            BY <1>5, <1>7, <2>1, <3>4
          <5> QED
            BY <5>1, <5>2
        <4>3. ~ StoresLine(n, b, line)
          BY <3>6 DEF StoresLine
        <4> QED
          BY <2>3, <3>1, <4>1, <4>2, <4>3
      <3>7. CASE b # a
        <4>1. <<b, line>> \notin Cells
          BY <3>2, <3>7
        <4>2. ~ StoresLine(n, b, line)
          BY <3>7 DEF StoresLine
        <4>3. spans[b] + line \notin Physical
          BY <1>1, <1>7, <2>3, <3>3, <3>7, <4>2, OthersKept
        <4> QED
          BY <2>3, <3>1, <4>1, <4>2, <4>3
      <3> QED
        BY <3>5, <3>6, <3>7
    <2> QED
      BY <1>4, <2>4, <2>5
  <1>8. Memory'
    <2>1. done' \in 0 .. Len(trace')
      BY <1>1, <1>4
    <2>2. \A b \in Ids' : buffers'[b].materialized => HasSpan(b)'
      BY <1>1, <1>3 DEF MInv, Memory
    <2>3. \A b \in Ids' : HasSpan(b)' => \A line \in Lines(b)' :
              /\ <<b, line>> \in DOMAIN apart' /\ spans'[b] + line \in DOMAIN ddr'
              /\ Current(b, line)' => ddr'[spans'[b] + line] = apart'[<<b, line>>]
      BY <1>1, <1>3, <1>6, <1>7 DEF MInv, Memory
    <2> QED
      BY <1>1, <2>1, <2>2, <2>3 DEF Memory
  <1> QED
    BY <1>2, <1>8 DEF MInv

LEMMA StutterMInv == MInv /\ UNCHANGED vars => MInv'
  <1> SUFFICES ASSUME MInv, UNCHANGED vars PROVE MInv'
    OBVIOUS
  <1>1. IInv'
    BY RunSafe DEF MInv
  <1>2. /\ UNCHANGED <<dma, required, buffers, cursor, trace, spans, optimized, done>>
        /\ UNCHANGED <<apart, ddr, phase>>
    BY DEF vars
  <1>3. Described'
    BY <1>2 DEF MInv, Described, Ids, ReadInitially, Touching, WrittenBefore
  <1>4. Emitted'
    BY <1>2 DEF MInv, Emitted, Precedes, Within, Sourced, StoresLine, Ids, Lines, Life,
                ReadInitially, Touching, WrittenBefore
  <1>5. Memory'
    BY <1>2 DEF MInv, Memory, Current, StoresLine, Shared, HasSpan, Ids, Lines
  <1> QED
    BY <1>1, <1>3, <1>4, <1>5 DEF MInv

LEMMA MemoryAlways == Spec => []MInv
  <1>1. MInv /\ [Next]_vars => MInv'
    BY ImportMInv, EmitDmaMInv, SpillMInv, EndScheduleMInv, PlaceMInv, EndPlaceMInv, RunMInv,
       StutterMInv DEF Next
  <1> QED
    BY InitMInv, <1>1, PTL DEF Spec

\* What is loaded from a scratch buffer was stored before: the program never reads
\* what was there when it began.
LEMMA MInvLoads == MInv => LoadsAgree
  <1> SUFFICES ASSUME MInv, phase = "run", done < Len(trace), Now.op = "load", NEW line \in Now.lines
               PROVE  ddr[spans[Now.buffer] + line] = apart[<<Now.buffer, line>>]
    BY DEF LoadsAgree
  <1> PICK n : n = done + 1
    OBVIOUS
  <1> PICK a : a = trace[n].buffer
    OBVIOUS
  <1>1. /\ done \in Nat /\ Len(trace) \in Nat /\ n \in DOMAIN trace /\ DOMAIN trace = 1 .. Len(trace)
        /\ a \in Ids /\ HasSpan(a) /\ Within(n, a) /\ Sourced(n, a)
    BY NextEmission
  <1>2. line \in Lines(a)
    BY <1>1 DEF Within, Now
  <1>3. Current(a, line)
    <2> SUFFICES ASSUME Shared(a) PROVE Current(a, line)
      BY DEF Current
    <2>1. ReadInitially(a) = {}
      BY <1>1 DEF MInv, Described, Shared
    <2>2. \E m \in 1 .. n - 1 : StoresLine(m, a, line)
      BY <1>1, <2>1 DEF Sourced, Now
    <2>3. n - 1 = done /\ n \in done + 1 .. Len(trace)
      BY <1>1
    <2> QED
      BY <2>2, <2>3 DEF Current
  <1> QED
    BY <1>1, <1>2, <1>3 DEF MInv, Memory, Now

\* Nothing that is wanted in the end is scratch memory.
LEMMA MInvOutputs == MInv => OutputsAgree
  <1> SUFFICES ASSUME MInv, phase = "run", NEW b \in Ids, Wanted(b), NEW line \in Lines(b)
               PROVE  ddr[spans[b] + line] = apart[<<b, line>>]
    BY DEF OutputsAgree
  <1>1. ~ Shared(b)
    BY DEF MInv, Described, Shared, Wanted
  <1>2. HasSpan(b)
    BY DEF MInv, Memory, Wanted
  <1> QED
    BY <1>1, <1>2 DEF MInv, Memory, Current

\* Whatever the program, its schedule, its spills and its layout: every load of the
\* program that was compiled finds what it would find if every buffer had memory of
\* its own.
THEOREM Loads == Spec => []LoadsAgree
  BY MemoryAlways, MInvLoads, PTL

\* And when it has run, so does every reader of the required outputs and of the
\* memory that is not workspace.
THEOREM Outputs == Spec => []OutputsAgree
  BY MemoryAlways, MInvOutputs, PTL

-----------------------------------------------------------------------------
(* The capacity is enough.                                                 *)

One(s) == CHOOSE x \in s : TRUE

\* The sum that the folds of the community modules compute, for every subset.
Sums(S, w, sum) ==
    sum = [s \in SUBSET S |-> IF s = {} THEN 0 ELSE w[One(s)] + sum[s \ {One(s)}]]

\* What is left of a finite set without one element is smaller.
LEMMA OneLess ==
    ASSUME NEW S, IsFiniteSet(S), NEW s \in SUBSET S
    PROVE  /\ Cardinality(s) \in Nat /\ Cardinality(s) <= Cardinality(S)
           /\ s # {} => /\ One(s) \in s /\ s \ {One(s)} \in SUBSET S
                        /\ Cardinality(s \ {One(s)}) = Cardinality(s) - 1
           /\ Cardinality(s) = 0 => s = {}
  <1>1. IsFiniteSet(s) /\ Cardinality(s) \in Nat /\ Cardinality(s) <= Cardinality(S)
    BY FS_Subset, FS_CardinalityType
  <1>2. s # {} => One(s) \in s
    BY DEF One
  <1> QED
    BY <1>1, <1>2, FS_RemoveElement, FS_EmptySet

\* There is such a sum, by induction on the size of the subsets.
LEMMA SumsExist ==
    ASSUME NEW S, IsFiniteSet(S), NEW w \in [S -> Nat]
    PROVE  \E sum \in [SUBSET S -> Nat] : Sums(S, w, sum)
  <1> DEFINE upTo(n) == {s \in SUBSET S : Cardinality(s) <= n}
             next(f, s) == IF s = {} THEN 0 ELSE w[One(s)] + f[s \ {One(s)}]
             sound(n, f) == \A s \in upTo(n) : f[s] = next(f, s)
             bad == {n \in Nat : ~ \E f \in [SUBSET S -> Nat] : sound(n, f)}
  <1>0. \A s \in SUBSET S :
           Cardinality(s) \in Nat /\ Cardinality(s) <= Cardinality(S) /\ (Cardinality(s) = 0 => s = {})
    BY OneLess
  <1>1. bad = {}
    <2> SUFFICES ASSUME bad # {} PROVE FALSE
      OBVIOUS
    <2>1. PICK n \in bad : \A m \in bad : n <= m
      <3> HIDE DEF bad
      <3>1. bad \subseteq Nat
        BY DEF bad
      <3> QED
        BY <3>1, MinIn
    <2>2. CASE n = 0
      <3>1. [s \in SUBSET S |-> 0] \in [SUBSET S -> Nat]
        OBVIOUS
      <3>2. \A s \in upTo(0) : s = {}
        <4> TAKE s \in upTo(0)
        <4>1. s \in SUBSET S /\ Cardinality(s) <= 0
          OBVIOUS
        <4>2. Cardinality(s) = 0
          BY <1>0, <4>1
        <4> QED
          BY <1>0, <4>1, <4>2
      <3>3. sound(0, [s \in SUBSET S |-> 0])
        BY <3>2
      <3> QED
        BY <2>1, <2>2, <3>1, <3>3
    <2>3. CASE n # 0
      <3>1. n \in Nat
        BY <2>1
      <3>2. n - 1 \in Nat /\ ~ (n <= n - 1)
        BY <2>3, <3>1
      <3>3. n - 1 \notin bad
        <4> HIDE DEF bad
        <4> QED
          BY <2>1, <3>2
      <3>4. PICK f \in [SUBSET S -> Nat] : sound(n - 1, f)
        BY <3>2, <3>3
      <3> DEFINE g == [s \in SUBSET S |-> next(f, s)]
      <3>5. ASSUME NEW s \in SUBSET S, s # {}
            PROVE  w[One(s)] + f[s \ {One(s)}] \in Nat
        <4>1. w[One(s)] \in Nat /\ f[s \ {One(s)}] \in Nat
          BY <3>5, OneLess
        <4> QED
          BY <4>1
      <3>6. g \in [SUBSET S -> Nat]
        BY <3>5
      <3>7. \A s \in upTo(n - 1) : g[s] = f[s]
        BY <3>4
      <3>8. ASSUME NEW s \in upTo(n), s # {}
            PROVE  s \ {One(s)} \in upTo(n - 1)
        BY <3>1, <3>8, OneLess
      <3>9. sound(n, g)
        BY <3>7, <3>8
      <3> HIDE DEF g, sound
      <3> QED
        BY <2>1, <3>6, <3>9
    <2> QED
      BY <2>2, <2>3
  <1>2. Cardinality(S) \in Nat
    BY FS_CardinalityType
  <1>3. PICK f \in [SUBSET S -> Nat] : sound(Cardinality(S), f)
    BY <1>1, <1>2
  <1>4. \A s \in SUBSET S : f[s] = next(f, s)
    BY <1>3, OneLess
  <1>5. Sums(S, w, f)
    BY <1>4 DEF Sums
  <1> QED
    BY <1>5

\* A sum of greater weights is greater, by what one of them exceeds the other.
LEMMA SumsCompare ==
    ASSUME NEW S, IsFiniteSet(S), NEW w \in [S -> Nat], NEW v \in [S -> Nat],
           NEW sum, Sums(S, w, sum), NEW total, Sums(S, v, total),
           NEW b \in S, NEW more \in Nat,
           \A x \in S : w[x] <= v[x], w[b] + more <= v[b]
    PROVE  sum[S] \in Nat /\ total[S] \in Nat /\ sum[S] + more <= total[S]
  <1> DEFINE sound(s) == /\ sum[s] \in Nat /\ total[s] \in Nat /\ sum[s] <= total[s]
                         /\ b \in s => sum[s] + more <= total[s]
             bad == {n \in Nat : \E s \in SUBSET S : Cardinality(s) = n /\ ~ sound(s)}
  <1>1. \A s \in SUBSET S :
          /\ sum[s] = IF s = {} THEN 0 ELSE w[One(s)] + sum[s \ {One(s)}]
          /\ total[s] = IF s = {} THEN 0 ELSE v[One(s)] + total[s \ {One(s)}]
    BY DEF Sums
  <1>2. bad = {}
    <2> SUFFICES ASSUME bad # {} PROVE FALSE
      OBVIOUS
    <2>1. PICK n \in bad : \A m \in bad : n <= m
      <3> HIDE DEF bad
      <3>1. bad \subseteq Nat
        BY DEF bad
      <3> QED
        BY <3>1, MinIn
    <2>2. PICK s \in SUBSET S : Cardinality(s) = n /\ ~ sound(s)
      BY <2>1
    <2>3. s # {}
      <3> SUFFICES ASSUME s = {} PROVE sound({})
        BY <2>2
      <3>1. sum[{}] = 0 /\ total[{}] = 0
        BY <1>1
      <3> QED
        BY <3>1
    <2> DEFINE x == One(s)
               rest == s \ {x}
    <2>4. x \in s /\ rest \in SUBSET S /\ Cardinality(rest) = n - 1 /\ n - 1 \in Nat
      <3>1. /\ Cardinality(s) \in Nat /\ (Cardinality(s) = 0 => s = {})
            /\ x \in s /\ rest \in SUBSET S /\ Cardinality(rest) = Cardinality(s) - 1
        BY <2>3, OneLess
      <3> HIDE DEF x, rest
      <3> QED
        BY <2>2, <2>3, <3>1
    <2>5. sum[s] = w[x] + sum[rest] /\ total[s] = v[x] + total[rest]
      BY <1>1, <2>3
    <2> HIDE DEF x
    <2>6. w[x] \in Nat /\ v[x] \in Nat /\ w[x] <= v[x]
      BY <2>4
    <2>7. n - 1 \notin bad
      <3>1. n \in Nat
        BY <2>1
      <3> HIDE DEF bad
      <3> QED
        BY <2>1, <2>4, <3>1
    <2>8. sound(rest)
      BY <2>4, <2>7
    <2>9. b \in s => x = b \/ b \in rest
      OBVIOUS
    <2> HIDE DEF rest
    <2>10. sound(s)
      BY <2>5, <2>6, <2>8, <2>9
    <2> QED
      BY <2>2, <2>10
  <1>3. Cardinality(S) \in Nat
    BY FS_CardinalityType
  <1> QED
    BY <1>2, <1>3

Sizes   == [b \in Ids |-> buffers[b].lines]
Weights == [b \in Ids |-> IF HasSpan(b) THEN buffers[b].lines ELSE 0]

\* What is laid so far is no longer than the buffers that have a place.
Fit == phase = "place" => \E sum : Sums(Ids, Weights, sum) /\ used + arena <= sum[Ids]

\* What else is needed: lifetimes are intervals, and nothing is laid before.
Sized ==
    /\ phase \in {"import", "schedule", "place", "run", "refused"}
    /\ \A b \in Ids : buffers[b].first <= buffers[b].last
    /\ phase \in {"import", "schedule"} => used = 0 /\ arena = 0
    /\ phase = "refused" => \A b \in Ids : HasSpan(b) => Ends(b) <= used

LEMMA WeightsTyped ==
    ASSUME Types
    PROVE  Sizes \in [Ids -> Nat] /\ Weights \in [Ids -> Nat] /\ IsFiniteSet(Ids)
  <1>1. Ids = 1 .. Len(buffers) /\ Len(buffers) \in Nat
    BY Fields
  <1>2. \A b \in Ids : buffers[b].lines \in Nat
    BY Fields
  <1>3. IsFiniteSet(1 .. Len(buffers))
    BY <1>1, FS_Interval
  <1>4. Sizes \in [Ids -> Nat] /\ Weights \in [Ids -> Nat]
    BY <1>2 DEF Sizes, Weights
  <1> QED
    BY <1>1, <1>3, <1>4

\* The capacity is at least the sum of the lengths.
LEMMA CapacityIs ==
    ASSUME Types
    PROVE  \E total :
              /\ Sums(Ids, Sizes, total)
              /\ total[Ids] \in Nat => Capacity \in Nat /\ total[Ids] <= Capacity
  <1> DEFINE summed(sum) ==
               sum = [s \in SUBSET Ids |->
                        IF s = {} THEN 0 ELSE buffers[One(s)].lines + sum[s \ {One(s)}]]
             total == CHOOSE sum : summed(sum)
  <1>1. \A s \in SUBSET Ids : s # {} => One(s) \in Ids
    BY DEF One
  <1>2. \A sum : summed(sum) <=> Sums(Ids, Sizes, sum)
    BY <1>1 DEF Sums, Sizes
  <1>3. summed(total)
    <2>1. \E sum : Sums(Ids, Sizes, sum)
      BY SumsExist, WeightsTyped
    <2>2. \E sum : summed(sum)
      BY <1>2, <2>1
    <2> HIDE DEF summed
    <2> QED
      BY <2>2
  <1>4. MapThenSumSet(LAMBDA b : buffers[b].lines, Ids) = total[Ids]
    BY DEF MapThenSumSet, MapThenFoldSet, One
  <1> HIDE DEF total, summed
  <1>5. ASSUME total[Ids] \in Nat
        PROVE  Max({1, total[Ids]}) \in Nat /\ total[Ids] <= Max({1, total[Ids]})
    <2>1. PICK T, bound : T = {1, total[Ids]} /\ bound = 1 + total[Ids]
      OBVIOUS
    <2>2. bound \in Nat /\ T \subseteq 0 .. bound /\ T # {}
      BY <1>5, <2>1
    <2>3. Max(T) \in T /\ \A n \in T : n <= Max(T)
      BY <2>2, MaxIn
    <2> QED
      BY <1>5, <2>1, <2>3
  <1> QED
    BY <1>2, <1>3, <1>4, <1>5 DEF Capacity

\* There is room for all that has a place, and for another that has none.
LEMMA Room ==
    ASSUME Types, NEW sum, Sums(Ids, Weights, sum)
    PROVE  /\ sum[Ids] \in Nat /\ Capacity \in Int /\ sum[Ids] <= Capacity
           /\ \A b \in Ids : ~ HasSpan(b) => sum[Ids] + buffers[b].lines <= Capacity
  <1>1. PICK total : Sums(Ids, Sizes, total) /\ (total[Ids] \in Nat => Capacity \in Nat /\ total[Ids] <= Capacity)
    BY CapacityIs
  <1>2. PICK w, v, S : w = Weights /\ v = Sizes /\ S = Ids
    OBVIOUS
  <1>3. w \in [S -> Nat] /\ v \in [S -> Nat] /\ IsFiniteSet(S)
    BY <1>2, WeightsTyped
  <1>4. /\ \A b \in S : w[b] <= v[b]
        /\ \A b \in S : ~ HasSpan(b) => w[b] = 0 /\ v[b] = buffers[b].lines /\ v[b] \in Nat
    BY <1>2, Fields DEF Weights, Sizes
  <1>5. Sums(S, w, sum) /\ Sums(S, v, total)
    BY <1>1, <1>2
  <1>6. ASSUME NEW b \in S, NEW more \in Nat, w[b] + more <= v[b]
        PROVE  sum[S] \in Nat /\ total[S] \in Nat /\ sum[S] + more <= total[S]
    BY <1>3, <1>4, <1>5, <1>6, SumsCompare
  <1>7. sum[S] \in Nat /\ total[S] \in Nat /\ sum[S] <= total[S]
    <2>1. CASE S = {}
      BY <1>5, <2>1 DEF Sums
    <2>2. CASE S # {}
      <3>1. PICK b \in S : TRUE
        BY <2>2
      <3>2. w[b] \in Nat /\ w[b] + 0 <= v[b]
        BY <1>3, <1>4
      <3> QED
        BY <1>6, <3>2
    <2> QED
      BY <2>1, <2>2
  <1>8. \A b \in S : ~ HasSpan(b) => sum[S] + buffers[b].lines <= total[S]
    BY <1>4, <1>6
  <1>9. total[S] \in Nat /\ Capacity \in Nat /\ total[S] <= Capacity
    BY <1>1, <1>2, <1>7
  <1>10. \A b \in S : ~ HasSpan(b) => buffers[b].lines \in Nat
    BY <1>4
  <1> QED
    BY <1>2, <1>7, <1>8, <1>9, <1>10

\* Nothing is no longer than nothing.
LEMMA FitEmpty == Types /\ used = 0 /\ arena = 0 => Fit
  <1> SUFFICES ASSUME Types, used = 0, arena = 0
               PROVE  \E sum : Sums(Ids, Weights, sum) /\ used + arena <= sum[Ids]
    BY DEF Fit
  <1>1. PICK w, S : w = Weights /\ S = Ids
    OBVIOUS
  <1>2. w \in [S -> Nat] /\ IsFiniteSet(S)
    BY <1>1, WeightsTyped
  <1>3. PICK sum \in [SUBSET S -> Nat] : Sums(S, w, sum)
    BY <1>2, SumsExist
  <1>4. sum[S] \in Nat
    OBVIOUS
  <1> QED
    BY <1>1, <1>3, <1>4

\* A buffer that gets a place adds its length to the sum.
LEMMA FitGrows ==
    ASSUME Types, Fit, phase = "place", UNCHANGED buffers, NEW b \in Ids, ~ HasSpan(b),
           HasSpan(b)', \A c \in Ids \ {b} : spans'[c] = spans[c],
           used' \in Nat, arena' \in Nat, used' + arena' <= used + arena + buffers[b].lines
    PROVE  Fit'
  <1>1. PICK w, S : w = Weights /\ S = Ids
    OBVIOUS
  <1>2. PICK v : v = [c \in S |-> IF c = b THEN buffers[b].lines ELSE w[c]]
    OBVIOUS
  <1>3. w \in [S -> Nat] /\ IsFiniteSet(S) /\ w[b] = 0 /\ buffers[b].lines \in Nat /\ b \in S
    BY <1>1, WeightsTyped, Fields DEF Weights
  <1>4. v \in [S -> Nat] /\ v[b] = buffers[b].lines /\ \A c \in S : w[c] <= v[c]
    BY <1>2, <1>3
  <1>5. v = Weights' /\ S = Ids'
    <2>1. S = Ids'
      BY <1>1 DEF Ids
    <2>2. Weights' = [c \in S |-> IF HasSpan(c)' THEN buffers[c].lines ELSE 0]
      BY <2>1 DEF Weights
    <2>3. \A c \in S : v[c] = IF HasSpan(c)' THEN buffers[c].lines ELSE 0
      BY <1>1, <1>2 DEF Weights, HasSpan
    <2> QED
      BY <1>2, <2>1, <2>2, <2>3
  <1>6. PICK sum : Sums(S, w, sum) /\ used + arena <= sum[S]
    BY <1>1 DEF Fit
  <1>7. PICK total \in [SUBSET S -> Nat] : Sums(S, v, total)
    BY <1>3, <1>4, SumsExist
  <1>8. PICK more \in Nat : more = buffers[b].lines
    BY <1>3
  <1>9. w[b] + more <= v[b]
    BY <1>3, <1>4, <1>8
  <1>10. sum[S] \in Nat /\ total[S] \in Nat /\ sum[S] + more <= total[S]
    BY <1>3, <1>4, <1>6, <1>7, <1>9, SumsCompare
  <1>11. used' + arena' <= total[S]
    BY <1>6, <1>8, <1>10 DEF Types
  <1>12. (\E t : Sums(Ids, Weights, t) /\ used + arena <= t[Ids])'
    BY <1>5, <1>7, <1>11
  <1> QED
    BY <1>12 DEF Fit

NInv == IInv /\ Sized /\ Fit

\* Before buffers are placed.
LEMMA NotPlacingN ==
    ASSUME NInv, IInv', phase \in {"import", "schedule"}, phase' \in {"schedule", "place"},
           UNCHANGED <<used, arena>>,
           \A b \in Ids' : buffers'[b].first <= buffers'[b].last
    PROVE  NInv'
  <1>1. used' = 0 /\ arena' = 0
    BY DEF NInv, Sized
  <1>2. Sized'
    BY <1>1 DEF Sized
  <1>3. (Types /\ used = 0 /\ arena = 0 => Fit)'
    BY FitEmpty, PTL
  <1>4. Fit'
    BY <1>1, <1>3 DEF IInv
  <1> QED
    BY <1>2, <1>4 DEF NInv

LEMMA InitNInv == Init => NInv
  <1> SUFFICES ASSUME Init PROVE NInv
    OBVIOUS
  <1>1. IInv /\ Types /\ used = 0 /\ arena = 0
    BY InitIInv DEF Init, IInv
  <1>2. \A b \in Ids : buffers[b].first <= buffers[b].last
    BY SourcesAssumption DEF Init, Ids
  <1> QED
    BY <1>1, <1>2, FitEmpty DEF NInv, Sized, Init

LEMMA ImportNInv == NInv /\ Import => NInv'
  <1> SUFFICES ASSUME NInv, Import PROVE NInv'
    OBVIOUS
  <1>1. Types /\ IInv'
    BY ImportSafe DEF NInv, IInv
  <1>2. /\ phase = "import" /\ phase' = "schedule" /\ UNCHANGED <<used, arena>>
        /\ Ids' = Ids
        /\ \A b \in Ids : buffers'[b] =
              KeepRequired(b, IF buffers[b].origin = "image" THEN Analyzed(b) ELSE buffers[b])
    BY DEF Import, placement, Ids
  <1>3. ASSUME NEW b \in Ids
        PROVE  Analyzed(b).first <= Analyzed(b).last
    <2>1. Touching(b) \subseteq Nat /\ Touching(b) \subseteq 0 .. Len(dma) /\ Len(dma) \in Nat
      BY <1>1 DEF Types, Touching, Instructions
    <2>2. buffers[b] \in VirtualBuffer
      BY <1>1, Fields
    <2> DEFINE unused == Touching(b) = {}
               first == IF unused THEN 0 ELSE Min(Touching(b))
               last == IF unused THEN 0 ELSE Max(Touching(b))
    <2>3. Analyzed(b).first = first /\ Analyzed(b).last = last
      BY <2>2 DEF Analyzed, VirtualBuffer
    <2>4. first <= last
      <3>1. CASE unused
        BY <3>1
      <3>2. CASE ~ unused
        <4>1. Min(Touching(b)) \in Touching(b) /\ \A n \in Touching(b) : Min(Touching(b)) <= n
          BY <2>1, <3>2, MinIn
        <4>2. Max(Touching(b)) \in Touching(b)
          BY <2>1, <3>2, MaxIn
        <4> QED
          BY <3>2, <4>1, <4>2
      <3> QED
        BY <3>1, <3>2
    <2> HIDE DEF first, last
    <2> QED
      BY <2>3, <2>4
  <1>4. ASSUME NEW b \in Ids, NEW buffer
        PROVE  KeepRequired(b, buffer).first = buffer.first /\ KeepRequired(b, buffer).last = buffer.last
    BY DEF KeepRequired
  <1>5. \A b \in Ids : buffers[b].first <= buffers[b].last
    BY DEF NInv, Sized
  <1>6. ASSUME NEW b \in Ids PROVE buffers'[b].first <= buffers'[b].last
    <2>1. CASE buffers[b].origin = "image"
      BY <1>2, <1>3, <1>4, <2>1
    <2>2. CASE buffers[b].origin # "image"
      BY <1>2, <1>4, <1>5, <2>2
    <2> QED
      BY <2>1, <2>2
  <1> QED
    BY <1>1, <1>2, <1>6, NotPlacingN

LEMMA EmitDmaNInv == NInv /\ EmitDma => NInv'
  <1> SUFFICES ASSUME NInv, EmitDma PROVE NInv'
    OBVIOUS
  <1>1. PICK b \in Ids, now \in cursor .. MaxCursor :
            buffers' = [buffers EXCEPT ![b] = Extended(@, now)]
    BY DEF EmitDma
  <1>2. Types /\ IInv' /\ UNCHANGED <<used, arena>> /\ phase = "schedule" /\ phase' = "schedule"
    BY EmitDmaSafe DEF NInv, IInv, EmitDma, Scheduling, placement
  <1>3. now \in Nat /\ buffers[b] \in VirtualBuffer
    BY <1>2, SourcesAssumption, Fields DEF Types
  <1>4. PICK first, last \in Nat :
            /\ Extended(buffers[b], now) = [buffers[b] EXCEPT !.first = first, !.last = last]
            /\ first <= now /\ now <= last
    BY <1>3, ExtendedBuffer
  <1>5. Extended(buffers[b], now).first <= Extended(buffers[b], now).last
    BY <1>3, <1>4 DEF VirtualBuffer
  <1>6. \A c \in Ids : buffers[c].first <= buffers[c].last
    BY DEF NInv, Sized
  <1>7. Ids' = Ids /\ \A c \in Ids : buffers'[c].first <= buffers'[c].last
    BY <1>1, <1>5, <1>6 DEF Ids
  <1> QED
    BY <1>2, <1>7, NotPlacingN

LEMMA SpillNInv == NInv /\ Spill => NInv'
  <1> SUFFICES ASSUME NInv, Spill PROVE NInv'
    OBVIOUS
  <1>1. PICK size \in SpillSizes, now \in cursor .. MaxCursor :
            buffers' = Append(buffers, Buffer(size, "spill", "workspace", FALSE, now))
    BY DEF Spill
  <1>2. Types /\ IInv' /\ UNCHANGED <<used, arena>> /\ phase = "schedule" /\ phase' = "schedule"
    BY SpillSafe DEF NInv, IInv, Spill, Scheduling
  <1>3. now \in Nat
    BY <1>2, SourcesAssumption DEF Types
  <1>4. PICK buffer : buffer = Buffer(size, "spill", "workspace", FALSE, now)
    OBVIOUS
  <1>5. buffer.first = now /\ buffer.last = now
    BY <1>4 DEF Buffer
  <1>6. \A c \in Ids : buffers[c].first <= buffers[c].last
    BY DEF NInv, Sized
  <1>7. buffers \in Seq(VirtualBuffer) /\ Len(buffers) \in Nat /\ Ids = 1 .. Len(buffers)
    BY <1>2, Fields DEF Types
  <1>8. /\ Ids' = 1 .. Len(buffers) + 1
        /\ buffers'[Len(buffers) + 1] = buffer
        /\ \A c \in Ids : buffers'[c] = buffers[c]
    <2>1. buffer \in VirtualBuffer
      BY <1>3, <1>4, SourcesAssumption DEF Buffer, VirtualBuffer, Kinds
    <2>2. /\ Append(buffers, buffer) \in Seq(VirtualBuffer)
          /\ Len(Append(buffers, buffer)) = Len(buffers) + 1
          /\ \A c \in 1 .. Len(buffers) : Append(buffers, buffer)[c] = buffers[c]
          /\ Append(buffers, buffer)[Len(buffers) + 1] = buffer
      BY <1>7, <2>1, AppendProperties
    <2>3. buffers' = Append(buffers, buffer)
      BY <1>1, <1>4
    <2>4. Ids' = 1 .. Len(buffers')
      BY <2>2, <2>3, LenProperties DEF Ids
    <2> QED
      BY <1>7, <2>2, <2>3, <2>4
  <1>9. \A c \in Ids' : c \in Ids \/ c = Len(buffers) + 1
    BY <1>7, <1>8
  <1>10. \A c \in Ids' : buffers'[c].first <= buffers'[c].last
    BY <1>3, <1>5, <1>6, <1>8, <1>9
  <1> QED
    BY <1>2, <1>10, NotPlacingN

LEMMA EndScheduleNInv == NInv /\ EndSchedule => NInv'
  <1> SUFFICES ASSUME NInv, EndSchedule PROVE NInv'
    OBVIOUS
  <1>1. Types /\ IInv' /\ UNCHANGED <<used, arena>> /\ phase = "schedule" /\ phase' = "place"
    BY EndScheduleSafe DEF NInv, IInv, EndSchedule, placement
  <1>2. \A b \in Ids : buffers[b] \in VirtualBuffer /\ buffers[b].first <= buffers[b].last
    BY <1>1, Fields DEF NInv, Sized
  <1>3. ASSUME NEW b \in Ids
        PROVE  Pruned(b).first = buffers[b].first /\ Pruned(b).last = buffers[b].last
    BY DEF Pruned
  <1>4. Ids' = Ids
    BY DEF EndSchedule, Ids
  <1>5. ASSUME NEW b \in Ids PROVE buffers'[b].first <= buffers'[b].last
    <2>1. buffers'[b] = Pruned(b) \/ buffers'[b] = buffers[b]
      BY DEF EndSchedule
    <2> QED
      BY <1>2, <1>3, <2>1
  <1> QED
    BY <1>1, <1>4, <1>5, NotPlacingN

LEMMA PlaceKeptNInv == NInv /\ PlaceKept => NInv'
  <1> SUFFICES ASSUME NInv, PlaceKept PROVE NInv'
    OBVIOUS
  <1>1. Types /\ Sized /\ Fit /\ IInv' /\ phase = "place" /\ UNCHANGED <<buffers, arena>>
    BY PlaceKeptSafe DEF NInv, IInv, PlaceKept
  <1>2. PICK b \in Kept :
          IF buffers[b].lines <= Capacity - used
          THEN /\ spans' = [spans EXCEPT ![b] = used]
               /\ used' = used + buffers[b].lines
               /\ UNCHANGED phase
          ELSE phase' = "full" /\ UNCHANGED <<spans, used>>
    BY DEF PlaceKept
  <1>3. b \in Ids /\ ~ HasSpan(b) /\ buffers[b].lines \in Nat /\ used \in Nat /\ arena \in Nat
    BY <1>1, Fields DEF Kept, Unplaced, HasSpan, Types
  <1>4. PICK sum : Sums(Ids, Weights, sum) /\ used + arena <= sum[Ids]
    BY <1>1 DEF Fit
  <1>5. sum[Ids] \in Nat /\ Capacity \in Int /\ sum[Ids] + buffers[b].lines <= Capacity
    BY <1>1, <1>3, <1>4, Room
  <1>6. buffers[b].lines <= Capacity - used
    BY <1>3, <1>4, <1>5
  <1>7. spans' = [spans EXCEPT ![b] = used] /\ used' = used + buffers[b].lines /\ phase' = "place"
    BY <1>1, <1>2, <1>6
  <1>8. b \in DOMAIN spans
    BY <1>1, <1>3, Fields
  <1>9. HasSpan(b)' /\ \A c \in Ids \ {b} : spans'[c] = spans[c]
    BY <1>3, <1>7, <1>8, SourcesAssumption DEF HasSpan
  <1>10. used' \in Nat /\ arena' \in Nat /\ used' + arena' <= used + arena + buffers[b].lines
    BY <1>1, <1>3, <1>7
  <1>11. Fit'
    BY <1>1, <1>3, <1>9, <1>10, FitGrows
  <1>12. Sized'
    BY <1>1, <1>7 DEF Sized, Ids
  <1> QED
    BY <1>1, <1>11, <1>12 DEF NInv

LEMMA PlaceScratchNInv == NInv /\ PlaceScratch => NInv'
  <1> SUFFICES ASSUME NInv, PlaceScratch PROVE NInv'
    OBVIOUS
  <1>1. Types /\ Sized /\ Fit /\ IInv' /\ phase = "place" /\ phase' = "place" /\ UNCHANGED <<buffers, used>>
    BY PlaceScratchSafe DEF NInv, IInv, PlaceScratch
  <1>2. PICK b \in Scratch, offset \in 0 .. arena :
          spans' = [spans EXCEPT ![b] = offset] /\ arena' = ArenaWith(offset, b)
    BY DEF PlaceScratch
  <1>3. b \in Ids /\ ~ HasSpan(b) /\ buffers[b].lines \in Nat /\ used \in Nat /\ arena \in Nat
    BY <1>1, Fields DEF Scratch, Unplaced, HasSpan, Types
  <1>4. arena' \in Nat /\ arena' <= arena + buffers[b].lines
    <2> DEFINE ends == {arena, offset + buffers[b].lines}
    <2>1. ends \subseteq 0 .. (arena + offset + buffers[b].lines)
      BY <1>3
    <2>2. Max(ends) \in ends
      BY <1>3, <2>1, MaxIn
    <2>3. arena' = Max(ends)
      BY <1>2 DEF ArenaWith
    <2> QED
      BY <1>3, <2>2, <2>3
  <1>5. b \in DOMAIN spans
    BY <1>1, <1>3, Fields
  <1>6. HasSpan(b)' /\ \A c \in Ids \ {b} : spans'[c] = spans[c]
    BY <1>2, <1>3, <1>5, SourcesAssumption DEF HasSpan
  <1>7. used' \in Nat /\ used' + arena' <= used + arena + buffers[b].lines
    BY <1>1, <1>3, <1>4
  <1>8. Fit'
    BY <1>1, <1>3, <1>4, <1>6, <1>7, FitGrows
  <1>9. Sized'
    BY <1>1 DEF Sized, Ids
  <1> QED
    BY <1>1, <1>8, <1>9 DEF NInv

\* The arena goes behind the kept buffers, for which there is room.
LEMMA EndPlaceNInv == NInv /\ EndPlace => NInv'
  <1> SUFFICES ASSUME NInv, EndPlace PROVE NInv'
    OBVIOUS
  <1>1. Types /\ Sized /\ Fit /\ IInv' /\ phase = "place" /\ UNCHANGED <<buffers, optimized, arena>>
    BY EndPlaceSafe DEF NInv, IInv, EndPlace, inputs
  <1>2. used \in Nat /\ arena \in Nat
    BY <1>1 DEF Types
  <1>3. PICK sum : Sums(Ids, Weights, sum) /\ used + arena <= sum[Ids]
    BY <1>1 DEF Fit
  <1>4. sum[Ids] \in Nat /\ Capacity \in Int /\ sum[Ids] <= Capacity
    BY <1>1, <1>3, Room
  <1>5. ~ (arena > Capacity - used)
    BY <1>2, <1>3, <1>4
  <1>6. phase' \in {"refused", "run"} /\ used' = used + arena
    BY <1>5 DEF EndPlace
  <1>7. \A b \in Ids : HasSpan(b) => Ends(b) <= IF Shared(b) THEN arena ELSE used
    BY <1>1 DEF NInv, IInv, Layout
  <1>8. \A b \in Ids : HasSpan(b)' => Ends(b)' <= used'
    <2> SUFFICES ASSUME NEW b \in Ids, HasSpan(b)' PROVE Ends(b)' <= used'
      OBVIOUS
    <2>1. spans'[b] = IF Shared(b) /\ spans[b] # None THEN used + spans[b] ELSE spans[b]
      BY DEF EndPlace
    <2>2. HasSpan(b)
      BY <2>1 DEF HasSpan
    <2>3. spans[b] \in Nat /\ buffers[b].lines \in Nat /\ Ends(b) = spans[b] + buffers[b].lines
      BY <1>1, <2>2, Fields DEF Ends
    <2>4. Ends(b)' = spans'[b] + buffers[b].lines
      BY <1>1 DEF Ends
    <2> QED
      BY <1>2, <1>6, <1>7, <2>1, <2>2, <2>3, <2>4 DEF HasSpan
  <1>9. Sized'
    BY <1>1, <1>6, <1>8 DEF Sized, Ids
  <1>10. Fit'
    BY <1>6 DEF Fit
  <1> QED
    BY <1>1, <1>9, <1>10 DEF NInv

LEMMA RunNInv == NInv /\ (Run \/ UNCHANGED vars) => NInv'
  <1> SUFFICES ASSUME NInv, UNCHANGED <<buffers, spans, used, arena, phase>>, IInv' PROVE NInv'
    BY RunSafe DEF NInv, Run, vars, placement
  <1>1. /\ Ids' = Ids /\ Weights' = Weights
        /\ \A b \in Ids : HasSpan(b)' = HasSpan(b) /\ Ends(b)' = Ends(b)
    BY DEF Ids, Weights, HasSpan, Ends
  <1>2. Sized'
    BY <1>1 DEF NInv, Sized
  <1>3. Fit'
    BY <1>1 DEF NInv, Fit
  <1> QED
    BY <1>2, <1>3 DEF NInv

LEMMA NInvAlways == Spec => []NInv
  <1>1. NInv /\ [Next]_vars => NInv'
    BY ImportNInv, EmitDmaNInv, SpillNInv, EndScheduleNInv, PlaceKeptNInv, PlaceScratchNInv,
       EndPlaceNInv, RunNInv DEF Next
  <1> QED
    BY InitNInv, <1>1, PTL DEF Spec

\* Every placed buffer lies in the used lines or in the arena behind them.
LEMMA NInvNeverFull == NInv => NeverFull
  <1> SUFFICES ASSUME NInv PROVE NeverFull
    OBVIOUS
  <1>1. /\ Types /\ Unlaid /\ Layout /\ Laid /\ Sized
        /\ used \in Nat /\ arena \in Nat
    BY DEF NInv, IInv, Types
  <1>2. ASSUME NEW b \in Ids, HasSpan(b) PROVE LinesOf(b) \subseteq 0 .. used + arena - 1
    <2>1. spans[b] \in Nat /\ buffers[b].lines \in Nat /\ Ends(b) = spans[b] + buffers[b].lines
      BY <1>1, <1>2, Fields DEF Ends
    <2>2. Position(b) \in Nat /\ Position(b) + buffers[b].lines <= used + arena
      <3>1. CASE phase = "place"
        <4>1. Ends(b) <= IF Shared(b) THEN arena ELSE used
          BY <1>1, <1>2, <3>1 DEF Layout
        <4> QED
          BY <1>1, <2>1, <3>1, <4>1 DEF Position
      <3>2. CASE phase \in {"run", "refused"}
        <4>1. Ends(b) <= used
          BY <1>1, <1>2, <3>2 DEF Laid, Sized
        <4> QED
          BY <1>1, <2>1, <3>2, <4>1 DEF Position
      <3>3. CASE phase \in {"import", "schedule"}
        BY <1>1, <1>2, <3>3 DEF Unlaid, HasSpan
      <3> QED
        BY <1>1, <3>1, <3>2, <3>3 DEF Sized
    <2> QED
      BY <1>1, <2>1, <2>2 DEF LinesOf
  <1>3. DOMAIN spans = Ids
    BY <1>1, Fields
  <1> QED
    BY <1>1, <1>2, <1>3 DEF NeverFull, TypeOK, Sized

\* Whatever the program, its schedule and its spills: the capacity that is computed
\* before anything is placed is enough, and every placed buffer lies within it.
THEOREM Capacities == Spec => []NeverFull
  BY NInvAlways, NInvNeverFull, PTL

=============================================================================
