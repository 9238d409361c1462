\* Data and interval programs in automatic mode, encoded ones in the other.
CONSTANTS
    Slots <- DataSlots
    RegularBankCount = 2
    ModTableLines = 3
    None = None
    Objects <- MemoryObjects
    Shape <- MemoryShape
    Programs <- MemoryPrograms
    ImageCells <- MCCells
    ReadOnly <- MCReadOnly

SPECIFICATION Spec

INVARIANT CapacityJustified
PROPERTY ImplementsProgram
PROPERTY BackingsKept
