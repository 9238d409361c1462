\* Kernel programs in automatic mode.
CONSTANTS
    Slots <- KernelSlots
    RegularBankCount = 3
    ModTableLines = 3
    None = None
    Objects <- KernelObjects
    Shape <- KernelShape
    Programs <- KernelPrograms
    ImageCells <- MCCells
    ReadOnly <- MCReadOnly

SPECIFICATION Spec

INVARIANT SlotsConsistent
INVARIANT NoVersionLost
PROPERTY ImplementsProgram
PROPERTY Terminates
