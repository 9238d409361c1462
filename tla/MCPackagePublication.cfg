\* Three runs of the script and a direct writer of the same case.
CONSTANTS
    g1 = g1
    g2 = g2
    g3 = g3
    w1 = w1
    ckks = ckks
    bgv = bgv
    None = None
    Generators = {g1, g2, g3}
    Writers = {w1}
    CaseOf <- OneCase
    FileCount = 2
    InitialCases = {ckks, bgv}

SPECIFICATION Spec

INVARIANT WholePackages
INVARIANT NoLitter
PROPERTY ImplementsStore
PROPERTY OthersLeftAlone

CHECK_DEADLOCK FALSE
