---------------------------- MODULE MCDdrPlacement ----------------------------
(***************************************************************************)
(* Image buffers of one and two lines, a workspace one that is written     *)
(* before it is read, or only in part, or not at all, an output that is    *)
(* read again, the buffer of an exact copy, and one or two spills.         *)
(***************************************************************************)
EXTENDS DdrPlacement

Dma(op, b, lines) == [op |-> op, buffer |-> b, lines |-> lines]
Image(lines, kind, readOnly) == Buffer(lines, "image", kind, readOnly, 0)
Copy(lines, at) == Buffer(lines, "copy", "workspace", FALSE, at)

Kernel == Dma("kernel", None, {})

TwoScratch == <<Image(2, "workspace", FALSE), Image(1, "workspace", FALSE), Image(1, "output", FALSE)>>
OneAndCopy == <<Image(2, "workspace", FALSE), Image(1, "constant", TRUE), Copy(1, 2)>>

MCSources ==
    { [buffers |-> TwoScratch, required |-> {3},
       dma |-> <<Dma("store", 1, {0, 1}), Dma("load", 1, {0, 1}), Dma("store", 2, {0}), Dma("load", 2, {0}),
                 Dma("store", 3, {0})>>],
      [buffers |-> TwoScratch, required |-> {2},
       dma |-> <<Dma("store", 1, {0}), Dma("load", 1, {0, 1}), Dma("store", 2, {0}), Dma("store", 3, {0})>>],
      [buffers |-> TwoScratch, required |-> {},
       dma |-> <<Kernel, Dma("store", 2, {0}), Dma("store", 3, {0}), Dma("load", 3, {0})>>],
      [buffers |-> OneAndCopy, required |-> {},
       dma |-> <<Dma("load", 2, {0}), Kernel, Dma("store", 1, {0, 1})>>] }
MCSizes == {1, 2}

==============================================================================
