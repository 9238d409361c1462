---------------------------- MODULE DeferredStores ----------------------------
(***************************************************************************)
(* deferred_store_pairs() of resource_ir.cpp, which both importers use: a  *)
(* store to scratch memory and the one load that reads it back may both go *)
(* away, the object staying on chip.                                       *)
(*                                                                         *)
(* A program is a sequence of records with an op; a "load" or "store" has  *)
(* the range of memory cells it moves.                                     *)
(***************************************************************************)
EXTENDS Naturals, Sequences, FiniteSetsExt, Functions

CONSTANT
    Workspace      \* the cells of workspace allocations that may be written

Cells(i) == Range(i.range)
IsDma(i) == i.op \in {"load", "store"}

\* The first DMA from a position on that overlaps some cells, 0 if none does.
NextTouching(list, cells, first) ==
    LET touching == {n \in first .. Len(list) : IsDma(list[n]) /\ Cells(list[n]) \cap cells # {}}
    IN  IF touching = {} THEN 0 ELSE Min(touching)

\* A PSYNC lets others see the memory.
Observed(list, store, load) == \E n \in store + 1 .. load - 1 : list[n].op = "sync"

\* Mutant: any store ends the life of what was stored.
NotReadAgainAfterPart(list, cells, load) ==
    LET next == NextTouching(list, cells, load + 1)
    IN  next # 0 => list[next].op = "store"

\* The stored contents have no other reader, not even of a part.
NotReadAgain(list, cells, load) ==
    LET next == NextTouching(list, cells, load + 1)
    IN  next # 0 => list[next].op = "store" /\ cells \subseteq Cells(list[next])

\* Mutant: stores to any memory may be deferred.
ConsumerAnywhere(list, store) ==
    LET cells == Cells(list[store])
        load  == NextTouching(list, cells, store + 1)
    IN  IF /\ load # 0
           /\ list[load].op = "load" /\ list[load].range = list[store].range
           /\ ~ Observed(list, store, load)
           /\ NotReadAgain(list, cells, load)
        THEN load ELSE 0

\* The load that is paired with a store, 0 if the store must be made.
Consumer(list, store) ==
    LET cells == Cells(list[store])
        load  == NextTouching(list, cells, store + 1)
    IN  IF /\ cells \subseteq Workspace
           /\ load # 0
           /\ list[load].op = "load" /\ list[load].range = list[store].range
           /\ ~ Observed(list, store, load)
           /\ NotReadAgain(list, cells, load)
        THEN load ELSE 0

===============================================================================
