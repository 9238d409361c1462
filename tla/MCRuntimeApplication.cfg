\* Three objects, two slots, two representations, one result each.
CONSTANTS
    a = a
    b = b
    c = c
    coefficient = coefficient
    ntt = ntt
    None = None
    Objects = {a, b, c}
    Slots = {0, 1}
    Representations = {coefficient, ntt}
    MaxVersion = 1

SPECIFICATION RuntimeSpec
SYMMETRY Symmetry

INVARIANT TypeOK
INVARIANT SlotsExclusive
INVARIANT NothingLost
INVARIANT OutputsWritten
