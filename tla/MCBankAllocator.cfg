\* Two enabled regular banks and an odd reserved area in bank 5.
CONSTANTS
    Slots <- MCSlots
    RegularBankCount = 2
    ModTableLines = 15
    RequestLengths <- MCLengths
    RequestMasks <- MCMasks
    None = None

SPECIFICATION Spec

INVARIANT TypeOK
INVARIANT PlacementSound
INVARIANT NoOverlap
INVARIANT RefusalIsJustified
INVARIANT PeaksWithinHardware
PROPERTY DoubleBuffered
