\* Three emissions in three positions and one spill.
CONSTANTS
    None = None
    Sources <- MCSources
    MaxCursor = 3
    MaxEmitted = 3
    SpillSizes <- MCSizes
    MaxSpills = 1

SPECIFICATION Spec

INVARIANT Exclusive
INVARIANT LoadsAgree
INVARIANT OutputsAgree
INVARIANT NeverFull

CHECK_DEADLOCK FALSE
