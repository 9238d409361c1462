\* Programs whose stores may keep the slot.
CONSTANTS
    None = None
    Slots <- MCSlots
    Workspace <- MCWorkspace
    ImageCells <- MCCells
    Programs <- AllPrograms

SPECIFICATION Spec

INVARIANT RegistersAgree

CHECK_DEADLOCK FALSE
