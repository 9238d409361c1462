--------------------------- MODULE MCBankAllocator ---------------------------
(* Values of BankAllocator's constants for TLC.                            *)
EXTENDS BankAllocator

\* Two objects with the same preferred bank (id % 5) and one with the next: an
\* instruction with two operands and a result of its own has room for neither
\* when the regular banks are full.
MCSlots == {0, 1, 5}

\* A two-line parameter object, one that fills a regular bank, and one that nothing
\* holds.
MCLengths == {2, 1024, 1100}

\* No mask, and one regular bank or bank 5.
MCMasks == {{}, {0, 5}}

=============================================================================
