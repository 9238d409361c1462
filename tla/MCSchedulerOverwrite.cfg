\* Encoded programs that overwrite memory from which live objects come.
CONSTANTS
    Slots <- DataSlots
    RegularBankCount = 2
    ModTableLines = 3
    None = None
    Objects <- MemoryObjects
    Shape <- MemoryShape
    Programs <- OverwritePrograms
    ImageCells <- MCCells
    ReadOnly <- MCReadOnly

SPECIFICATION Spec

PROPERTY BackingsKept
